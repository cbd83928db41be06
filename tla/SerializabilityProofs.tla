----------------------- MODULE SerializabilityProofs -----------------------
(***************************************************************************)
(* Proof that the commits which the library's one-call API accepts are     *)
(* serializable, for any number of transactions and pages, any limit on    *)
(* sessions and any bound on the committed-conflict history.               *)
(*                                                                         *)
(* A dependency through a version that was read or overwritten leads from  *)
(* an earlier commit to a snapshot that has it, so in a cycle the edges    *)
(* into the first commit c and into its predecessor b are both             *)
(* rw-antidependencies, a -> b -> c.  The validation refuses whichever of  *)
(* a and b comes last: b sees both edges, and a finds b in the history     *)
(* with its flag set.  The history has what is needed for that             *)
(* (HistoryCoverage), and the uncontended fast path is taken only when     *)
(* there is nothing to find in it.                                         *)
(***************************************************************************)
EXTENDS ConcurrentSsiProofs, FiniteSetTheorems, WellFoundedInduction, TLAPS

-----------------------------------------------------------------------------
(* The inductive invariant *)

\* Commits have sequences of their own, above their snapshots, in the order of
\* the log; every commit is pushed to the history once.
Sequenced ==
    /\ nextSeq = pushes + 1
    /\ \A t \in Committed : high[t] < seqOf[t]
    /\ \A t, u \in Committed : seqOf[t] = seqOf[u] => t = u
    /\ \A i, j \in DOMAIN wal : i < j => seqOf[wal[i]] < seqOf[wal[j]]

\* A snapshot's high and its view are the same prefix of the log.
ViewIsHigh ==
    \A t \in Txns : phase[t] \in {"active", "committed"} =>
        /\ high[t] < nextSeq
        /\ view[t] <= Len(wal)
        /\ \A i \in DOMAIN wal : i <= view[t] <=> seqOf[wal[i]] <= high[t]

\* A committed transaction read what the other overwrote after its snapshot.
Anti(a, b) ==
    /\ a \in Committed /\ b \in Committed /\ a # b
    /\ high[a] < seqOf[b]
    /\ Overlap(reads[a], writes[b])

\* History entries are of commits, in the order of their sequences, and a
\* writer's flag tells of the antidependencies that it committed with.
HistoryTells ==
    /\ \A e \in readers \cup writers :
          e.txn \in Committed /\ e.seq = seqOf[e.txn] /\ e.ord = e.seq
    /\ \A w \in writers, c \in Txns :
          Anti(w.txn, c) /\ seqOf[c] < seqOf[w.txn] => w.rw

\* No two consecutive antidependencies lead to the first commit of the three.
NoDanger ==
    \A a, b, c \in Txns :
        ~(Anti(a, b) /\ Anti(b, c) /\ seqOf[c] < seqOf[b] /\ seqOf[c] <= seqOf[a])

SInv == Sequenced /\ ViewIsHigh /\ HistoryTells /\ NoDanger

-----------------------------------------------------------------------------
(* Least elements *)

\* A set of naturals that is not empty has a least element.
LEMMA Least ==
    ASSUME NEW N \in SUBSET Nat, N # {}
    PROVE  \E n \in N : \A m \in N : n <= m
<1>. DEFINE R == OpToRel(<, Nat)
<1>1. \A m, n \in Nat : m < n => <<m, n>> \in R
  BY DEF OpToRel
<1>2. IsWellFoundedOn(R, Nat)
  BY NatLessThanWellFounded, Zenon
<1>. HIDE DEF R
<1>3. PICK n \in N : \A m \in N : ~(<<m, n>> \in R)
  BY <1>2, WFMin
<1>4. ASSUME NEW m \in N PROVE n <= m
  <2>1. m \in Nat /\ n \in Nat /\ ~(<<m, n>> \in R)
    BY <1>3
  <2>2. ~(m < n)
    BY <1>1, <2>1
  <2>. QED
    BY <2>1, <2>2
<1>. QED
  BY <1>4

\* A history whose last entry is not newer than b has nothing newer.
LEMMA LastIsNewest ==
    ASSUME NEW hist, NEW b \in Nat, NEW top \in Nat, LastNotAfter(hist, b),
           \A e \in hist : e.ord \in Nat /\ e.ord <= top /\ e.ord = e.seq,
           NEW e \in hist
    PROVE  e.seq <= b
<1>. DEFINE N == {top - f.ord : f \in hist}
<1>1. N \in SUBSET Nat /\ N # {}
  OBVIOUS
<1>2. PICK n \in N : \A m \in N : n <= m
  BY <1>1, Least
<1>3. PICK f \in hist : n = top - f.ord
  OBVIOUS
<1>4. \A g \in hist : g.ord <= f.ord
  <2>. SUFFICES ASSUME NEW g \in hist PROVE g.ord <= f.ord
    OBVIOUS
  <2>1. top - f.ord <= top - g.ord
    BY <1>2, <1>3
  <2>2. f.ord \in Nat /\ g.ord \in Nat
    OBVIOUS
  <2>. QED
    BY <2>1, <2>2
<1>5. f.seq <= b
  BY <1>4 DEF LastNotAfter
<1>6. e.ord <= f.ord /\ e.ord = e.seq /\ f.ord = f.seq /\ f.ord \in Nat /\ e.ord \in Nat
  BY <1>4
<1>. QED
  BY <1>5, <1>6

-----------------------------------------------------------------------------
(* What the validation of a commit finds *)

\* t may commit: prepare_concurrent_commit_with_ssi does not refuse it.
Accepted(t) == phase[t] = "active" /\ ~Refuses(t, nextSeq)

\* Committed writers of what t read, and readers of what t wrote, are in the
\* history if they committed after t's snapshot.
LEMMA FindsWriter ==
    ASSUME IInv, HInv, SInv, NEW t \in Txns, Accepted(t), NEW c \in Committed,
           high[t] < seqOf[c], Overlap(reads[t], writes[c])
    PROVE  \E w \in CommittedWriterEdges(t) : w.txn = c
<1>1. t \in Unmarked(marked) /\ c # t /\ c \in Txns /\ phase[c] = "committed"
  BY DEF Accepted, Refuses, Unmarked, Sessions, Registered, Committed
<1>2. writes[c] # {} /\ seqOf[c] > high[t]
  BY <1>1 DEF Overlap, IInv, TypeOK
<1>3. PICK w \in writers : w.txn = c /\ w.seq = seqOf[c]
  BY <1>1, <1>2 DEF HInv, Stands
<1>4. Overlap(writes[w.txn], reads[t])
  BY <1>3 DEF Overlap
<1>. QED
  BY <1>1, <1>3, <1>4 DEF CommittedWriterEdges

LEMMA FindsReader ==
    ASSUME IInv, HInv, SInv, NEW t \in Txns, Accepted(t), NEW a \in Committed,
           high[t] < seqOf[a], Overlap(reads[a], writes[t])
    PROVE  \E r \in CommittedReaderEdges(t, nextSeq) : r.txn = a
<1>1. t \in Unmarked(marked) /\ a # t /\ a \in Txns /\ phase[a] = "committed"
  BY DEF Accepted, Refuses, Unmarked, Sessions, Registered, Committed
<1>2. reads[a] # {} /\ seqOf[a] > high[t] /\ high[a] < nextSeq
  BY <1>1 DEF Overlap, IInv, TypeOK, SInv, ViewIsHigh
<1>3. PICK r \in readers : r.txn = a /\ r.seq = seqOf[a]
  BY <1>1, <1>2 DEF HInv, Stands
<1>. QED
  BY <1>1, <1>2, <1>3 DEF CommittedReaderEdges

\* With a committed writer to be found the fast path is not taken.
LEMMA FastPathIsSafe ==
    ASSUME IInv, HInv, SInv, NEW t \in Txns, CommittedWriterEdges(t) # {}
    PROVE  ~Uncontended(t)
<1>1. PICK w \in writers : high[t] < w.seq
  BY DEF CommittedWriterEdges
<1>2. \A e \in writers : e.ord \in Nat /\ e.ord <= nextSeq /\ e.ord = e.seq
  <2>. SUFFICES ASSUME NEW e \in writers PROVE e.ord \in Nat /\ e.ord <= nextSeq /\ e.ord = e.seq
    OBVIOUS
  <2>1. e.ord = e.seq /\ e.seq = seqOf[e.txn] /\ e.txn \in Txns
    BY DEF SInv, HistoryTells, Committed
  <2>2. seqOf[e.txn] \in Nat /\ seqOf[e.txn] < nextSeq /\ nextSeq \in Nat
    BY <2>1 DEF HInv, IInv, TypeOK
  <2>. QED
    BY <2>1, <2>2
<1>3. high[t] \in Nat /\ nextSeq \in Nat
  BY DEF IInv, TypeOK
<1>. SUFFICES ASSUME LastNotAfter(writers, high[t]) PROVE FALSE
  BY DEF Uncontended
<1>4. w.seq <= high[t]
  BY <1>2, <1>3, LastIsNewest
<1>. QED
  BY <1>1, <1>2, <1>3, <1>4

\* An accepted commit has no antidependency out of it to an earlier commit
\* than one into it comes from, nor one to a commit with such an edge, and the
\* edges out of it that it commits with are discovered.
LEMMA AcceptedIsSafe ==
    ASSUME IInv, HInv, SInv, NEW t \in Txns, Accepted(t), NEW c \in Committed,
           high[t] < seqOf[c], Overlap(reads[t], writes[c])
    PROVE  /\ Outgoing(t, nextSeq) # {}
           /\ \A a \in Committed : Overlap(reads[a], writes[t]) => seqOf[a] < seqOf[c]
           /\ \A d \in Txns : Anti(c, d) => ~(seqOf[d] < seqOf[c])
<1>1. PICK w \in CommittedWriterEdges(t) : w.txn = c
  BY FindsWriter
<1>2. Outgoing(t, nextSeq) # {}
  BY <1>1 DEF Outgoing
<1>3. ~Dangerous(t, nextSeq)
  BY <1>1, FastPathIsSafe DEF Accepted, Refuses
<1>4. ASSUME NEW a \in Committed, Overlap(reads[a], writes[t]), ~(seqOf[a] < seqOf[c])
      PROVE  FALSE
  <2>1. high[t] < seqOf[a]
    BY <1>4 DEF IInv, TypeOK, Committed
  <2>2. PICK r \in CommittedReaderEdges(t, nextSeq) : r.txn = a
    BY <1>4, <2>1, FindsReader
  <2>3. Incoming(t, nextSeq) # {}
    BY <2>2 DEF Incoming
  <2>. QED
    BY <1>2, <1>3, <2>3 DEF Dangerous
<1>5. ASSUME NEW d \in Txns, Anti(c, d), seqOf[d] < seqOf[c]
      PROVE  FALSE
  <2>1. w \in writers
    BY <1>1 DEF CommittedWriterEdges
  <2>2. w.rw
    BY <1>1, <1>5, <2>1 DEF SInv, HistoryTells
  <2>. QED
    BY <1>1, <1>3, <2>2 DEF Dangerous
<1>. QED
  BY <1>2, <1>4, <1>5

-----------------------------------------------------------------------------
(* The steps *)

LEMMA InitSInv == Init => SInv
BY DEF Init, SInv, Sequenced, ViewIsHigh, HistoryTells, NoDanger, Anti, Committed

\* A step that leaves the commits, their sets and the history alone.
CommitsKept ==
    /\ UNCHANGED <<readers, writers, pushes, nextSeq, seqOf, wal>>
    /\ Committed' = Committed
    /\ \A u \in Committed : /\ reads'[u] = reads[u] /\ writes'[u] = writes[u]
                            /\ high'[u] = high[u] /\ view'[u] = view[u]

LEMMA KeepsSInv ==
    ASSUME SInv, CommitsKept,
           \A u \in Txns : phase'[u] = "active" =>
               /\ high'[u] < nextSeq /\ view'[u] <= Len(wal)
               /\ \A i \in DOMAIN wal : i <= view'[u] <=> seqOf[wal[i]] <= high'[u]
    PROVE  SInv'
<1>1. \A a, b : Anti(a, b)' <=> Anti(a, b)
  BY DEF Anti, CommitsKept
<1>2. Sequenced'
  BY DEF SInv, Sequenced, CommitsKept
<1>3. ViewIsHigh'
  <2>. SUFFICES ASSUME NEW t \in Txns, phase'[t] = "committed"
                PROVE  /\ high'[t] < nextSeq /\ view'[t] <= Len(wal)
                       /\ \A i \in DOMAIN wal : i <= view'[t] <=> seqOf[wal[i]] <= high'[t]
    BY DEF ViewIsHigh, CommitsKept
  <2>1. t \in Committed
    BY DEF Committed, CommitsKept
  <2>2. high'[t] = high[t] /\ view'[t] = view[t]
    BY <2>1 DEF CommitsKept
  <2>. QED
    BY <2>1, <2>2 DEF SInv, ViewIsHigh, Committed
<1>4. HistoryTells'
  BY <1>1 DEF SInv, HistoryTells, CommitsKept
<1>5. NoDanger'
  BY <1>1 DEF SInv, NoDanger, CommitsKept
<1>. QED
  BY <1>2, <1>3, <1>4, <1>5 DEF SInv

\* What a commit of t does to the commits, the log and the history.
CommitsNow(t) ==
    /\ phase[t] = "active" /\ Committed' = Committed \cup {t}
    /\ \A u \in Txns \ {t} : phase'[u] = phase[u] /\ seqOf'[u] = seqOf[u]
    /\ phase'[t] = "committed" /\ seqOf'[t] = nextSeq
    /\ nextSeq' = nextSeq + 1 /\ pushes' = pushes + 1
    /\ wal' = wal \/ wal' = Append(wal, t)
    /\ UNCHANGED <<view, high, reads, writes>>

LEMMA CommitEffect ==
    ASSUME IInv, NEW t \in Txns, CommitWithSsi(t)
    PROVE  /\ CommitsNow(t) /\ Accepted(t)
           /\ \E in, out, kept : /\ Prunes(t, nextSeq, in, out, kept)
                                 /\ Outgoing(t, nextSeq) \subseteq out
<1>. DEFINE in == PlannedIn(t, nextSeq) \cup Incoming(t, nextSeq)
            out == PlannedOut(t, nextSeq) \cup Outgoing(t, nextSeq)
<1>1. /\ phase[t] = "active" /\ ~Refuses(t, nextSeq) /\ Publish(t, nextSeq, in, out)
      /\ phase' = [phase EXCEPT ![t] = "committed"]
      /\ seqOf' = [seqOf EXCEPT ![t] = nextSeq] /\ nextSeq' = nextSeq + 1
      /\ wal' = IF writes[t] = {} THEN wal ELSE Append(wal, t)
      /\ UNCHANGED <<view, high, reads, writes>>
  BY DEF CommitWithSsi
<1>2. Outgoing(t, nextSeq) \subseteq out
  OBVIOUS
<1>. HIDE DEF in, out
<1>3. pushes' = pushes + 1
  BY <1>1, Zenon DEF Publish
<1>4. /\ \A u \in Txns \ {t} : phase'[u] = phase[u] /\ seqOf'[u] = seqOf[u]
      /\ phase'[t] = "committed" /\ seqOf'[t] = nextSeq
  BY <1>1 DEF IInv, TypeOK
<1>5. Committed' = Committed \cup {t}
  BY <1>4 DEF Committed
<1>6. CommitsNow(t)
  BY <1>1, <1>3, <1>4, <1>5 DEF CommitsNow
<1>7. \E kept : Prunes(t, nextSeq, in, out, kept)
  BY <1>1, PublishHistory, Zenon
<1>. QED
  BY <1>1, <1>2, <1>6, <1>7 DEF Accepted

\* The log and the sequences after a commit.
LEMMA CommitSequenced ==
    ASSUME IInv, HInv, SInv, NEW t \in Txns, CommitsNow(t)
    PROVE  Sequenced' /\ ViewIsHigh'
<1>1. /\ nextSeq \in Nat /\ pushes \in Nat /\ high[t] < nextSeq /\ view[t] <= Len(wal)
      /\ wal \in Seq(Txns) /\ Len(wal) \in Nat
      /\ \A u \in Txns : seqOf[u] \in Nat /\ high[u] \in Nat /\ view[u] \in Nat /\ seqOf[u] < nextSeq
      /\ t \notin Committed
  BY DEF CommitsNow, IInv, TypeOK, HInv, SInv, ViewIsHigh, Committed
<1>2. \A i \in DOMAIN wal : wal[i] \in Txns /\ wal[i] # t /\ seqOf'[wal[i]] = seqOf[wal[i]]
                            /\ seqOf[wal[i]] < nextSeq
  BY <1>1 DEF CommitsNow, IInv, LogSequenced
<1>3. /\ \A i \in DOMAIN wal : wal'[i] = wal[i] /\ i \in 1 .. Len(wal)
      /\ \A i \in DOMAIN wal' : i \in DOMAIN wal \/ (i = Len(wal) + 1 /\ wal'[i] = t)
      /\ Len(wal) <= Len(wal')
  <2>1. CASE wal' = wal
    BY <1>1, <2>1
  <2>2. CASE wal' = Append(wal, t)
    BY <1>1, <2>2
  <2>. QED
    BY <2>1, <2>2 DEF CommitsNow
<1>4. \A u \in Committed : u \in Txns /\ u # t /\ seqOf'[u] = seqOf[u]
  BY <1>1 DEF CommitsNow, Committed
<1>5. Sequenced'
  <2>1. nextSeq' = pushes' + 1
    BY <1>1 DEF CommitsNow, SInv, Sequenced
  <2>2. \A u \in Committed' : high'[u] < seqOf'[u]
    BY <1>1, <1>4 DEF CommitsNow, SInv, Sequenced
  <2>3. ASSUME NEW u \in Committed', NEW v \in Committed', seqOf'[u] = seqOf'[v]
        PROVE  u = v
    <3>1. \A x \in Committed : seqOf'[x] = seqOf[x] /\ seqOf[x] # nextSeq
      BY <1>1, <1>4
    <3>. QED
      BY <2>3, <3>1 DEF CommitsNow, SInv, Sequenced
  <2>4. ASSUME NEW i \in DOMAIN wal', NEW j \in DOMAIN wal', i < j
        PROVE  seqOf'[wal'[i]] < seqOf'[wal'[j]]
    <3>1. i \in DOMAIN wal
      BY <1>1, <1>3, <2>4
    <3>2. CASE j \in DOMAIN wal
      BY <1>2, <1>3, <2>4, <3>1, <3>2 DEF SInv, Sequenced
    <3>3. CASE wal'[j] = t
      BY <1>2, <1>3, <3>1, <3>3 DEF CommitsNow
    <3>. QED
      BY <1>3, <3>2, <3>3
  <2>. QED
    BY <2>1, <2>2, <2>3, <2>4 DEF Sequenced
<1>6. ViewIsHigh'
  <2>. SUFFICES ASSUME NEW u \in Txns, phase'[u] \in {"active", "committed"}
                PROVE  /\ high'[u] < nextSeq' /\ view'[u] <= Len(wal')
                       /\ \A i \in DOMAIN wal' : i <= view'[u] <=> seqOf'[wal'[i]] <= high'[u]
    BY DEF ViewIsHigh
  <2>1. /\ high[u] < nextSeq /\ view[u] <= Len(wal)
        /\ \A i \in DOMAIN wal : i <= view[u] <=> seqOf[wal[i]] <= high[u]
    BY DEF CommitsNow, SInv, ViewIsHigh
  <2>2. high'[u] = high[u] /\ view'[u] = view[u] /\ high'[u] < nextSeq'
    BY <1>1, <2>1 DEF CommitsNow
  <2>3. Len(wal') \in Nat /\ view'[u] <= Len(wal')
    BY <1>1, <1>3, <2>1, <2>2 DEF CommitsNow
  <2>4. ASSUME NEW i \in DOMAIN wal'
        PROVE  i <= view'[u] <=> seqOf'[wal'[i]] <= high'[u]
    <3>1. CASE i \in DOMAIN wal
      BY <1>2, <1>3, <2>1, <2>2, <3>1
    <3>2. CASE i = Len(wal) + 1 /\ wal'[i] = t
      <4>1. ~(i <= view[u])
        BY <1>1, <2>1, <3>2
      <4>2. ~(seqOf'[t] <= high[u])
        BY <1>1, <2>1 DEF CommitsNow
      <4>. QED
        BY <2>2, <3>2, <4>1, <4>2
    <3>. QED
      BY <1>3, <3>1, <3>2
  <2>. QED
    BY <2>2, <2>3, <2>4
<1>. QED
  BY <1>5, <1>6

\* The antidependencies after a commit of t: those before, and t's own.
LEMMA NewAnti ==
    ASSUME IInv, HInv, NEW t \in Txns, CommitsNow(t), NEW a, NEW b, Anti(a, b)'
    PROVE  /\ a # t /\ b # t => Anti(a, b)
           /\ a = t => b \in Committed /\ high[t] < seqOf[b] /\ Overlap(reads[t], writes[b])
           /\ b = t => a \in Committed /\ Overlap(reads[a], writes[t])
<1>1. /\ a \in Committed \cup {t} /\ b \in Committed \cup {t} /\ a # b
      /\ high[a] < seqOf'[b] /\ Overlap(reads[a], writes[b])
  BY DEF Anti, CommitsNow, Overlap
<1>2. \A u \in Committed : u \in Txns /\ u # t /\ seqOf'[u] = seqOf[u]
  BY DEF CommitsNow, Committed
<1>. QED
  BY <1>1, <1>2 DEF Anti

\* Commits before t have smaller sequences.
LEMMA LaterSequence ==
    ASSUME IInv, HInv, NEW t \in Txns, CommitsNow(t), NEW u \in Committed
    PROVE  /\ u \in Txns /\ u # t /\ seqOf'[u] = seqOf[u] /\ seqOf'[u] < seqOf'[t]
           /\ seqOf[u] \in Nat /\ seqOf'[t] \in Nat
<1>1. u \in Txns /\ u # t /\ seqOf'[u] = seqOf[u] /\ seqOf'[t] = nextSeq
  BY DEF CommitsNow, Committed
<1>. QED
  BY <1>1 DEF HInv, IInv, TypeOK

LEMMA CommitNoDanger ==
    ASSUME IInv, HInv, SInv, NEW t \in Txns, CommitsNow(t), Accepted(t)
    PROVE  NoDanger'
<1>. SUFFICES ASSUME NEW a \in Txns, NEW b \in Txns, NEW c \in Txns, Anti(a, b)', Anti(b, c)',
                     seqOf'[c] < seqOf'[b], seqOf'[c] <= seqOf'[a]
              PROVE  FALSE
  BY DEF NoDanger
<1>1. a \in Committed \cup {t} /\ b \in Committed \cup {t} /\ c \in Committed \cup {t} /\ b # c
      /\ a # b
  BY DEF Anti, CommitsNow
<1>2. c # t
  <2>. SUFFICES ASSUME c = t PROVE FALSE
    OBVIOUS
  <2>1. b \in Committed
    BY <1>1
  <2>2. seqOf'[b] < seqOf'[t] /\ seqOf'[b] \in Nat /\ seqOf'[t] \in Nat
    BY <2>1, LaterSequence
  <2>. QED
    BY <2>2
<1>3. c \in Committed /\ seqOf'[c] = seqOf[c]
  BY <1>1, <1>2, LaterSequence
<1>4. CASE b = t
  <2>1. high[t] < seqOf[c] /\ Overlap(reads[t], writes[c])
    BY <1>4, NewAnti
  <2>2. a \in Committed /\ Overlap(reads[a], writes[t])
    BY <1>4, NewAnti
  <2>3. seqOf[a] < seqOf[c]
    BY <1>3, <2>1, <2>2, AcceptedIsSafe
  <2>4. seqOf'[a] = seqOf[a] /\ seqOf[a] \in Nat /\ seqOf[c] \in Nat
    BY <1>3, <2>2, LaterSequence
  <2>. QED
    BY <1>3, <2>3, <2>4
<1>5. CASE b # t
  <2>1. b \in Committed /\ Anti(b, c) /\ seqOf'[b] = seqOf[b]
    BY <1>1, <1>2, <1>5, NewAnti, LaterSequence
  <2>2. CASE a = t
    <3>1. high[t] < seqOf[b] /\ Overlap(reads[t], writes[b])
      BY <2>2, NewAnti
    <3>2. ~(seqOf[c] < seqOf[b])
      BY <2>1, <3>1, AcceptedIsSafe
    <3>. QED
      BY <1>3, <2>1, <3>2
  <2>3. CASE a # t
    <3>1. Anti(a, b) /\ seqOf'[a] = seqOf[a]
      BY <1>1, <1>5, <2>3, NewAnti, LaterSequence
    <3>. QED
      BY <1>3, <2>1, <3>1 DEF SInv, NoDanger
  <2>. QED
    BY <2>2, <2>3
<1>. QED
  BY <1>4, <1>5

\* The fields of the entries that a commit pushes.
LEMMA NewEntries ==
    ASSUME IInv, NEW t \in Txns, NEW in, NEW out
    PROVE  /\ \A e \in NewReader(t, nextSeq, in) :
                  e.txn = t /\ e.seq = nextSeq /\ e.ord = pushes + 1
           /\ \A e \in NewWriter(t, nextSeq, out) :
                  e.txn = t /\ e.seq = nextSeq /\ e.ord = pushes + 1 /\ (out # {} => e.rw)
<1>1. \A b \in BOOLEAN :
        LET e == [txn |-> t, seq |-> nextSeq, rw |-> b, ord |-> pushes + 1]
        IN  e.txn = t /\ e.seq = nextSeq /\ e.ord = pushes + 1 /\ e.rw = b
  OBVIOUS
<1>2. PICK b \in BOOLEAN : b = (in # {})
  BY Zenon
<1>3. PICK c \in BOOLEAN : c = (out # {})
  BY Zenon
<1>4. \A e \in NewReader(t, nextSeq, in) :
        e = [txn |-> t, seq |-> nextSeq, rw |-> b, ord |-> pushes + 1]
  BY <1>2, Zenon DEF NewReader
<1>5. \A e \in NewWriter(t, nextSeq, out) :
        e = [txn |-> t, seq |-> nextSeq, rw |-> c, ord |-> pushes + 1]
  BY <1>3, Zenon DEF NewWriter
<1>6. \A e \in NewReader(t, nextSeq, in) :
        e.txn = t /\ e.seq = nextSeq /\ e.ord = pushes + 1
  BY <1>4
<1>7. \A e \in NewWriter(t, nextSeq, out) :
        e.txn = t /\ e.seq = nextSeq /\ e.ord = pushes + 1 /\ e.rw = c
  BY <1>5
<1>8. \A e \in NewWriter(t, nextSeq, out) : out # {} => e.rw
  BY <1>3, <1>7, Zenon
<1>. QED
  BY <1>6, <1>7, <1>8

LEMMA CommitTells ==
    ASSUME IInv, HInv, SInv, NEW t \in Txns, CommitsNow(t), Accepted(t),
           NEW in, NEW out, NEW kept, Prunes(t, nextSeq, in, out, kept),
           Outgoing(t, nextSeq) \subseteq out
    PROVE  HistoryTells'
<1>1. /\ readers' \subseteq readers \cup NewReader(t, nextSeq, in)
      /\ writers' \subseteq writers \cup NewWriter(t, nextSeq, out)
  BY RetainedSubset DEF Prunes
<1>2. ASSUME NEW e \in (readers \cup writers)'
      PROVE  e.txn \in Committed' /\ e.seq = seqOf'[e.txn] /\ e.ord = e.seq
  <2>1. CASE e \in readers \cup writers
    <3>1. e.txn \in Committed /\ e.seq = seqOf[e.txn] /\ e.ord = e.seq
      BY <2>1 DEF SInv, HistoryTells
    <3>. QED
      BY <3>1, LaterSequence DEF CommitsNow
  <2>2. CASE e \in NewReader(t, nextSeq, in) \cup NewWriter(t, nextSeq, out)
    <3>1. e.txn = t /\ e.seq = nextSeq /\ e.ord = pushes + 1
      BY <2>2, NewEntries
    <3>. QED
      BY <3>1 DEF CommitsNow, SInv, Sequenced
  <2>. QED
    BY <1>1, <2>1, <2>2
<1>3. ASSUME NEW w \in writers', NEW c \in Txns, Anti(w.txn, c)', seqOf'[c] < seqOf'[w.txn]
      PROVE  w.rw
  <2>1. CASE w \in writers
    <3>1. w.txn \in Committed
      BY <2>1 DEF SInv, HistoryTells
    <3>2. w.txn # t /\ seqOf'[w.txn] = seqOf[w.txn] /\ seqOf'[w.txn] < seqOf'[t]
          /\ seqOf'[t] \in Nat /\ seqOf[w.txn] \in Nat
      BY <3>1, LaterSequence
    <3>3. c # t
      BY <1>3, <3>2
    <3>4. Anti(w.txn, c)
      BY <1>3, <3>2, <3>3, NewAnti
    <3>5. seqOf'[c] = seqOf[c]
      BY <3>4, LaterSequence DEF Anti
    <3>. QED
      BY <1>3, <2>1, <3>2, <3>4, <3>5 DEF SInv, HistoryTells
  <2>2. CASE w \in NewWriter(t, nextSeq, out)
    <3>1. w.txn = t /\ (out # {} => w.rw)
      BY <2>2, NewEntries
    <3>2. c \in Committed /\ high[t] < seqOf[c] /\ Overlap(reads[t], writes[c])
      BY <1>3, <3>1, NewAnti
    <3>3. Outgoing(t, nextSeq) # {}
      BY <3>2, AcceptedIsSafe
    <3>4. out # {}
      BY <3>3
    <3>. QED
      BY <3>1, <3>4
  <2>. QED
    BY <1>1, <2>1, <2>2
<1>. QED
  BY <1>2, <1>3 DEF HistoryTells

LEMMA NextSInv == IInv /\ HInv /\ SInv /\ [Next]_ssiVars => SInv'
<1>. SUFFICES ASSUME IInv, HInv, SInv, [Next]_ssiVars PROVE SInv'
  OBVIOUS
<1>. USE DEF historyVars
<1>1. ASSUME NEW t \in Txns, BeginConcurrent(t) PROVE SInv'
  <2>1. /\ high'[t] = nextSeq - 1 /\ view'[t] = Len(wal) /\ phase[t] = "idle"
        /\ phase'[t] = "active"
        /\ \A u \in Txns \ {t} : phase'[u] = phase[u] /\ high'[u] = high[u] /\ view'[u] = view[u]
        /\ UNCHANGED <<reads, writes, readers, writers, pushes, nextSeq, seqOf, wal>>
        /\ nextSeq \in Nat /\ wal \in Seq(Txns)
    BY <1>1 DEF BeginConcurrent, SnapshotHigh, IInv, TypeOK
  <2>2. CommitsKept
    BY <2>1 DEF CommitsKept, Committed
  <2>3. ASSUME NEW u \in Txns, phase'[u] = "active"
        PROVE  /\ high'[u] < nextSeq /\ view'[u] <= Len(wal)
               /\ \A i \in DOMAIN wal : i <= view'[u] <=> seqOf[wal[i]] <= high'[u]
    <3>1. CASE u = t
      <4>1. \A i \in DOMAIN wal : i <= Len(wal) /\ seqOf[wal[i]] <= nextSeq - 1
        <5>. SUFFICES ASSUME NEW i \in DOMAIN wal
                      PROVE  i <= Len(wal) /\ seqOf[wal[i]] <= nextSeq - 1
          OBVIOUS
        <5>1. wal[i] \in Txns /\ i \in 1 .. Len(wal)
          BY <2>1
        <5>2. seqOf[wal[i]] \in Nat /\ seqOf[wal[i]] < nextSeq
          BY <5>1 DEF HInv, IInv, TypeOK
        <5>. QED
          BY <2>1, <5>1, <5>2
      <4>. QED
        BY <2>1, <3>1, <4>1
    <3>2. CASE u # t
      BY <2>1, <2>3, <3>2 DEF SInv, ViewIsHigh
    <3>. QED
      BY <3>1, <3>2
  <2>. QED
    BY <2>2, <2>3, KeepsSInv
<1>2. ASSUME NEW t \in Txns, NEW p \in Pages, RecordRead(t, p) \/ ConcurrentWritePage(t, p)
      PROVE  SInv'
  <2>1. /\ UNCHANGED <<phase, high, view, readers, writers, pushes, nextSeq, seqOf, wal>>
        /\ phase[t] = "active"
        /\ \A u \in Txns \ {t} : reads'[u] = reads[u] /\ writes'[u] = writes[u]
    BY <1>2 DEF RecordRead, ConcurrentWritePage, IInv, TypeOK
  <2>2. CommitsKept
    BY <2>1 DEF CommitsKept, Committed
  <2>. QED
    BY <2>1, <2>2, KeepsSInv DEF SInv, ViewIsHigh
<1>3. ASSUME NEW t \in Txns, phase[t] = "active", Discard(t) PROVE SInv'
  <2>1. /\ UNCHANGED <<readers, writers, pushes, nextSeq, seqOf, wal>>
        /\ phase'[t] = "aborted"
        /\ \A u \in Txns \ {t} : /\ phase'[u] = phase[u] /\ high'[u] = high[u]
                                 /\ view'[u] = view[u]
                                 /\ reads'[u] = reads[u] /\ writes'[u] = writes[u]
    BY <1>3 DEF Discard, IInv, TypeOK
  <2>2. CommitsKept
    BY <1>3, <2>1 DEF CommitsKept, Committed
  <2>. QED
    BY <2>1, <2>2, KeepsSInv DEF SInv, ViewIsHigh
<1>4. ASSUME NEW t \in Txns, CommitWithSsi(t) PROVE SInv'
  <2>1. CommitsNow(t) /\ Accepted(t)
    BY <1>4, CommitEffect
  <2>2. PICK in, out, kept : /\ Prunes(t, nextSeq, in, out, kept)
                             /\ Outgoing(t, nextSeq) \subseteq out
    BY <1>4, CommitEffect
  <2>3. Sequenced' /\ ViewIsHigh'
    BY <2>1, CommitSequenced
  <2>4. NoDanger'
    BY <2>1, CommitNoDanger
  <2>5. HistoryTells'
    BY <2>1, <2>2, CommitTells
  <2>. QED
    BY <2>3, <2>4, <2>5 DEF SInv
<1>5. CASE UNCHANGED ssiVars
  <2>1. UNCHANGED <<phase, view, high, reads, writes, readers, writers, pushes, nextSeq, seqOf, wal>>
    BY <1>5 DEF ssiVars, handleVars
  <2>2. CommitsKept
    BY <2>1 DEF CommitsKept, Committed
  <2>. QED
    BY <2>1, <2>2, KeepsSInv DEF SInv, ViewIsHigh
<1>. QED
  BY <1>1, <1>2, <1>3, <1>4, <1>5 DEF Next, RefuseWithSsi, ConcurrentAbort

-----------------------------------------------------------------------------
(* Dependencies and cycles *)

\* The position of a transaction in the log.
LEMMA PositionIs ==
    ASSUME IInv, NEW t
    PROVE  /\ Position(t) \in Nat
           /\ 0 < Position(t) => Position(t) \in DOMAIN wal /\ wal[Position(t)] = t
<1>1. DOMAIN wal \subseteq Nat
  BY DEF IInv, TypeOK
<1>2. CASE \E i \in DOMAIN wal : wal[i] = t
  <2>1. Position(t) = CHOOSE i \in DOMAIN wal : wal[i] = t
    BY <1>2 DEF Position
  <2>2. Position(t) \in DOMAIN wal /\ wal[Position(t)] = t
    BY <1>2, <2>1
  <2>. QED
    BY <1>1, <2>2
<1>3. CASE ~\E i \in DOMAIN wal : wal[i] = t
  <2>1. Position(t) = 0
    BY <1>3 DEF Position
  <2>. QED
    BY <2>1
<1>. QED
  BY <1>2, <1>3

\* A dependency is an antidependency, or leads into a snapshot.
LEMMA Dependency ==
    ASSUME IInv, SInv, NEW a \in Committed, NEW b \in Committed, a # b, DependsOn(a, b)
    PROVE  seqOf[a] <= high[b] \/ Anti(a, b)
<1>1. /\ a \in Txns /\ b \in Txns /\ phase[a] = "committed" /\ phase[b] = "committed"
      /\ view[a] \in Nat /\ view[b] \in Nat
      /\ seqOf[b] \in Nat /\ high[a] \in Nat
  BY DEF Committed, IInv, TypeOK
<1>2. /\ Position(a) \in Nat
      /\ 0 < Position(a) => Position(a) \in DOMAIN wal /\ wal[Position(a)] = a
  BY PositionIs
<1>3. /\ Position(b) \in Nat
      /\ 0 < Position(b) => Position(b) \in DOMAIN wal /\ wal[Position(b)] = b
  BY PositionIs
<1>4. 0 < Position(a) /\ Position(a) <= view[b] => seqOf[a] <= high[b]
  BY <1>1, <1>2 DEF SInv, ViewIsHigh
<1>5. CASE /\ 0 < Position(a) /\ Position(a) < Position(b)
           /\ Overlap(writes[a], writes[b])
  <2>1. 0 < Position(b)
    BY <1>2, <1>3, <1>5
  <2>2. Position(a) <= view[b]
    BY <1>2, <1>3, <1>5, <2>1 DEF IInv, NoLostUpdate
  <2>. QED
    BY <1>4, <1>5, <2>2
<1>6. CASE 0 < Position(a) /\ Position(a) <= view[b]
  BY <1>4, <1>6
<1>7. CASE Position(b) > view[a] /\ Overlap(reads[a], writes[b])
  <2>1. 0 < Position(b)
    BY <1>1, <1>3, <1>7
  <2>2. ~(seqOf[b] <= high[a])
    BY <1>1, <1>3, <1>7, <2>1 DEF SInv, ViewIsHigh
  <2>. QED
    BY <1>1, <1>7, <2>2 DEF Anti
<1>. QED
  BY <1>5, <1>6, <1>7 DEF DependsOn

\* A set in which everybody has a successor.
Cyclic(S) ==
    S \in SUBSET Committed /\ S # {} /\ \A a \in S : \E b \in S \ {a} : DependsOn(a, b)

\* In a smallest one everybody has a predecessor as well.
LEMMA SmallestCycle ==
    ASSUME NEW S, Cyclic(S)
    PROVE  \E T : Cyclic(T) /\ \A b \in T : \E a \in T \ {b} : DependsOn(a, b)
<1>1. \A T \in SUBSET Committed : IsFiniteSet(T) /\ Cardinality(T) \in Nat
  <2>. SUFFICES ASSUME NEW T \in SUBSET Committed
                PROVE  IsFiniteSet(T) /\ Cardinality(T) \in Nat
    OBVIOUS
  <2>1. T \subseteq Txns
    BY DEF Committed
  <2>2. IsFiniteSet(T)
    BY <2>1, TxnsAssumption, FS_Subset
  <2>. QED
    BY <2>2, FS_CardinalityType
<1>. DEFINE All == {T \in SUBSET Committed : Cyclic(T)}
            N == {Cardinality(T) : T \in All}
<1>2. N \in SUBSET Nat /\ N # {}
  BY <1>1 DEF Cyclic
<1>3. PICK n \in N : \A m \in N : n <= m
  BY <1>2, Least
<1>4. PICK T \in All : Cardinality(T) = n
  BY <1>3
<1>5. Cyclic(T) /\ IsFiniteSet(T) /\ Cardinality(T) \in Nat
  BY <1>1, <1>4
<1>6. ASSUME NEW b \in T, \A a \in T \ {b} : ~DependsOn(a, b)
      PROVE  FALSE
  <2>1. PICK c \in T \ {b} : DependsOn(b, c)
    BY <1>5 DEF Cyclic
  <2>2. T \ {b} \in SUBSET Committed /\ T \ {b} # {}
    BY <1>5, <2>1 DEF Cyclic
  <2>3. ASSUME NEW a \in T \ {b}
        PROVE  \E d \in (T \ {b}) \ {a} : DependsOn(a, d)
    <3>1. PICK d \in T \ {a} : DependsOn(a, d)
      BY <1>5 DEF Cyclic
    <3>2. d # b
      BY <1>6, <3>1
    <3>. QED
      BY <3>1, <3>2
  <2>4. Cyclic(T \ {b})
    BY <2>2, <2>3 DEF Cyclic
  <2>5. Cardinality(T \ {b}) \in N
    BY <2>2, <2>4
  <2>6. Cardinality(T \ {b}) = Cardinality(T) - 1
    BY <1>5, FS_RemoveElement
  <2>7. n <= Cardinality(T \ {b})
    BY <1>3, <2>5
  <2>. QED
    BY <1>4, <1>5, <2>6, <2>7
<1>. QED
  BY <1>5, <1>6

\* Without dangerous structures there is no cycle.
LEMMA NoCycle ==
    ASSUME IInv, HInv, SInv
    PROVE  Serializable
<1>. SUFFICES ASSUME NEW S, Cyclic(S) PROVE FALSE
  BY DEF Serializable, Acyclic, Cyclic
<1>1. PICK T : Cyclic(T) /\ \A b \in T : \E a \in T \ {b} : DependsOn(a, b)
  BY SmallestCycle
<1>2. T \subseteq Committed /\ T # {}
  BY <1>1 DEF Cyclic
<1>3. \A u \in Committed : u \in Txns /\ seqOf[u] \in Nat /\ high[u] \in Nat
  BY DEF Committed, IInv, TypeOK
<1>4. PICK c \in T : \A u \in T : seqOf[c] <= seqOf[u]
  <2>. DEFINE N == {seqOf[u] : u \in T}
  <2>1. N \in SUBSET Nat /\ N # {}
    BY <1>2, <1>3
  <2>2. PICK n \in N : \A m \in N : n <= m
    BY <2>1, Least
  <2>. QED
    BY <2>2
<1>5. PICK b \in T \ {c} : DependsOn(b, c)
  BY <1>1
<1>6. high[c] < seqOf[c] /\ seqOf[c] <= seqOf[b] /\ b # c
  BY <1>2, <1>4 DEF SInv, Sequenced
<1>7. Anti(b, c)
  <2>1. ~(seqOf[b] <= high[c])
    BY <1>2, <1>3, <1>6
  <2>. QED
    BY <1>2, <1>5, <1>6, <2>1, Dependency
<1>8. seqOf[c] < seqOf[b]
  BY <1>2, <1>3, <1>6 DEF SInv, Sequenced
<1>9. PICK a \in T \ {b} : DependsOn(a, b)
  BY <1>1
<1>10. seqOf[c] <= seqOf[a] /\ high[b] < seqOf[c]
  BY <1>4, <1>7 DEF Anti
<1>11. Anti(a, b)
  <2>1. ~(seqOf[a] <= high[b])
    BY <1>2, <1>3, <1>10
  <2>. QED
    BY <1>2, <1>9, <2>1, Dependency
<1>. QED
  BY <1>2, <1>3, <1>7, <1>8, <1>10, <1>11 DEF SInv, NoDanger

-----------------------------------------------------------------------------
(* The theorems *)

\* No committed transactions form a dangerous structure whose target committed
\* first, whatever prepare_concurrent_commit_with_ssi accepts, on the fast path
\* or not, and however often the history is pruned.
THEOREM SsiInvariance == Spec => []SInv
<1>1. Spec => []HInv
  BY InitHInv, NextHInv, Invariance, PTL DEF Spec
<1>. QED
  BY <1>1, InitSInv, NextSInv, Invariance, PTL DEF Spec

\* The transactions that concurrent_commit_with_ssi commits, read-only ones
\* included, are serializable: their dependencies contain no cycle.
THEOREM SsiSerializable == Spec => []Serializable
<1>1. Spec => []HInv
  BY InitHInv, NextHInv, Invariance, PTL DEF Spec
<1>2. IInv /\ HInv /\ SInv => Serializable
  BY NoCycle
<1>. QED
  BY <1>1, <1>2, Invariance, SsiInvariance, PTL

=============================================================================
