------------------------ MODULE WalCheckpointProofs ------------------------
(***************************************************************************)
(* Proofs about WalCheckpoint for any connections, pages and bounds: as    *)
(* long as none of the accidents that intact records has happened, WAL     *)
(* over database is the committed history, no update is lost, and under    *)
(* the PerCommit policy acknowledged commits survive.                      *)
(*                                                                         *)
(* The argument: the WAL is the tail of the history, and what the disk may *)
(* hold of a page is what the history before the WAL left or what some WAL *)
(* entry wrote.  A power loss that is no accident finds only synced entries*)
(* among these, so the prefix of the WAL that survives has every page that *)
(* differs, and together they are a prefix of the history with every synced*)
(* commit.  A reset that is no accident finds all of the history synced in *)
(* the database file: other connections may meanwhile have been opened and *)
(* have back-filled, but only the same pages.                              *)
(***************************************************************************)
EXTENDS WalCheckpoint, SequenceTheorems, WellFoundedInduction, TLAPS

-----------------------------------------------------------------------------
(* The inductive invariant: what holds in every state *)

\* Page p is in one of the first n entries of w.
Has(w, n, p) == \E i \in 1 .. n : p \in w[i].pages

\* A transaction's snapshot is of this or of an earlier generation.
TxShape(c) ==
    /\ tx[c].at = "none" <=> tx[c] = NoTx
    /\ tx[c].at # "none" => c \in open /\ ckpt[c] = NoCkpt
    /\ tx[c].at = "active" => tx[c].gen <= gen
    /\ tx[c].at = "active" /\ tx[c].gen = gen => tx[c].n <= Len(wal)

\* A checkpoint of this generation has pages to copy that the WAL has.
CkptShape(c) ==
    /\ ckpt[c].step = "none" <=> ckpt[c] = NoCkpt
    /\ ckpt[c].step # "none" => c \in open /\ tx[c] = NoTx
    /\ ckpt[c].step = "write" => ckpt[c].gen <= gen
    /\ ckpt[c].step = "write" /\ ckpt[c].gen = gen =>
          ckpt[c].upto <= Len(wal) /\ \A p \in ckpt[c].todo : Has(wal, ckpt[c].upto, p)
    /\ ckpt[c].step \in {"fsync", "reset", "header"} => Resets(ckpt[c].mode)

\* At most one checkpoint resets, and those that run beside it copy at least
\* as much.
ResetShape(c) ==
    Resets(ckpt[c].mode) =>
        /\ \A d \in Conns \ {c} : ~Resets(ckpt[d].mode)
        /\ ckpt[c].step \in {"write", "fsync", "reset"} =>
              /\ ckpt[c].gen = gen /\ ckpt[c].upto <= Len(wal)
              /\ \A d \in Conns \ {c} : ckpt[d].step = "write" /\ ckpt[d].gen = gen
                                           => ckpt[c].upto <= ckpt[d].upto

\* Nothing of the WAL has been synced since a reset that is not.
OldShape == old.there => gen > 0 /\ synced = 0

SInv ==
    /\ TypeOK
    /\ OldShape
    /\ \A c \in Conns : TxShape(c) /\ CkptShape(c) /\ ResetShape(c)

-----------------------------------------------------------------------------
(* The inductive invariant: what holds unless there was an accident *)

\* How much of the history the WAL no longer has.
Before == Len(hist) - Len(wal)

\* A WAL is the last entries of the history.
IsTail(w) ==
    /\ Len(w) <= Len(hist)
    /\ \A i \in 1 .. Len(w) : w[i] = hist[Len(hist) - Len(w) + i]

\* Commit numbers increase along the history, and no commit is empty.
Ordered ==
    /\ \A i \in 1 .. Len(hist) : hist[i].id < next /\ hist[i].pages # {}
    /\ \A i, j \in 1 .. Len(hist) : i < j => hist[i].id < hist[j].id

\* What may be on disk of a page: what was before the WAL, or a WAL entry's.
OnDisk(p, v) ==
    \/ v = StateAt(hist, Before)[p]
    \/ \E i \in 1 .. Len(wal) : p \in wal[i].pages /\ v = wal[i].id

DiskOK == \A p \in Pages : db[p] \in disk[p] /\ \A v \in disk[p] : OnDisk(p, v)

\* What was acknowledged is below the synced part's end.
AckedSynced ==
    SyncPolicy = "PerCommit" => \A a \in acked : \E i \in 1 .. Before + synced : hist[i].id = a

\* A transaction pinned the state at its place in the WAL.
TxView(c) ==
    tx[c].at = "active" /\ tx[c].gen = gen => tx[c].view = StateAt(hist, Before + tx[c].n)

\* The database file has all of the history before the WAL goes, unless more
\* was committed.
ResetOK(c) ==
    Resets(ckpt[c].mode) /\ ckpt[c].upto = Len(wal) =>
        /\ ckpt[c].step = "write" =>
              \A p \in Pages \ ckpt[c].todo : db[p] = StateAt(hist, Len(hist))[p]
        /\ ckpt[c].step \in {"fsync", "reset"} =>
              \A p \in Pages : disk[p] = {db[p]} /\ db[p] = StateAt(hist, Len(hist))[p]

\* The generation that may come back lies right before the WAL.
OldOK ==
    old.there => /\ Len(old.wal) <= Before
                 /\ \A i \in 1 .. Len(old.wal) : old.wal[i] = hist[Before - Len(old.wal) + i]

\* Every commit overwrote what its snapshot held.
Updates ==
    \A j \in 1 .. Len(hist) : \A p \in hist[j].pages :
        hist[j].base[p] = StateAt(hist, j - 1)[p]

KInv ==
    /\ IsTail(wal)
    /\ Ordered
    /\ DiskOK
    /\ AckedSynced
    /\ \A c \in Conns : TxView(c) /\ ResetOK(c)
    /\ OldOK
    /\ Updates

IInv == SInv /\ (intact => KInv)

-----------------------------------------------------------------------------
(* The newest content of a page *)

\* v is what the first n entries of w over base leave of page p.
IsLatest(w, n, base, p, v) ==
    \/ ~Has(w, n, p) /\ v = base[p]
    \/ \E i \in 1 .. n : /\ p \in w[i].pages /\ v = w[i].id
                         /\ \A j \in i + 1 .. n : p \notin w[j].pages

\* A nonempty set of numbers up to n has a largest element.
LEMMA MaxExists ==
    ASSUME NEW n \in Nat, NEW S \in SUBSET (0 .. n), S # {}
    PROVE  Max(S) \in S /\ \A y \in S : y <= Max(S)
<1> DEFINE R == OpToRel(<, Nat)
           T == {k \in Nat : n - k \in S}
<1>1. \A x, y \in Nat : <<x, y>> \in R <=> x < y
    BY DEF OpToRel
<1>2. IsWellFoundedOn(R, Nat)
    BY NatLessThanWellFounded, Zenon
<1>3. T # {} /\ T \subseteq Nat
    <2>1. PICK s \in S : TRUE
      OBVIOUS
    <2>2. n - s \in Nat /\ n - (n - s) = s
      OBVIOUS
    <2>3. QED
      BY <2>1, <2>2
<1> HIDE DEF R
<1>4. PICK k \in T : \A y \in T : ~(<<y, k>> \in R)
    BY <1>2, <1>3, WFMin
<1>5. ASSUME NEW y \in S
      PROVE  y <= n - k
    <2>1. n - y \in T
      <3>1. n - y \in Nat /\ n - (n - y) = y
        OBVIOUS
      <3>2. QED
        BY <3>1
    <2>2. ~(n - y < k)
      BY <1>1, <1>4, <2>1
    <2>3. QED
      BY <2>2
<1>6. \E x \in S : \A y \in S : x >= y
    <2>1. n - k \in S /\ \A y \in S : n - k >= y
      BY <1>5
    <2>2. QED
      BY <2>1
<1>7. Max(S) \in S /\ \A y \in S : Max(S) >= y
    BY <1>6 DEF Max
<1>8. QED
    BY <1>7

\* Latest is what it should be.
LEMMA LatestIs ==
    ASSUME NEW w, NEW n \in Nat, NEW base, NEW p
    PROVE  IsLatest(w, n, base, p, Latest(w, n, base, p))
<1> DEFINE at == {i \in 1 .. n : p \in w[i].pages}
<1>1. CASE at = {}
    BY <1>1 DEF IsLatest, Latest, Has
<1>2. CASE at # {}
    <2>1. Max(at) \in at /\ \A y \in at : y <= Max(at)
      <3>1. at \in SUBSET (0 .. n)
        OBVIOUS
      <3> HIDE DEF at
      <3>2. QED
        BY <1>2, <3>1, MaxExists
    <2>2. Latest(w, n, base, p) = w[Max(at)].id
      BY <1>2 DEF Latest
    <2>3. PICK m \in 1 .. n : m = Max(at) /\ p \in w[m].pages
      BY <2>1
    <2>4. \A j \in m + 1 .. n : p \notin w[j].pages
      BY <2>1, <2>3
    <2>5. QED
      BY <2>2, <2>3, <2>4 DEF IsLatest
<1>3. QED
    BY <1>1, <1>2

LEMMA LatestUnique ==
    ASSUME NEW w, NEW n \in Nat, NEW base, NEW p, NEW v, IsLatest(w, n, base, p, v)
    PROVE  Latest(w, n, base, p) = v
<1> DEFINE u == Latest(w, n, base, p)
<1>1. IsLatest(w, n, base, p, u)
    BY LatestIs
<1> HIDE DEF u
<1>2. CASE ~Has(w, n, p)
    BY <1>1, <1>2 DEF IsLatest, Has, u
<1>3. CASE Has(w, n, p)
    <2>1. PICK i \in 1 .. n : /\ p \in w[i].pages /\ u = w[i].id
                              /\ \A j \in i + 1 .. n : p \notin w[j].pages
      BY <1>1, <1>3 DEF IsLatest
    <2>2. PICK k \in 1 .. n : /\ p \in w[k].pages /\ v = w[k].id
                              /\ \A j \in k + 1 .. n : p \notin w[j].pages
      BY <1>3 DEF IsLatest
    <2>3. i = k
      <3>1. ~(i < k) /\ ~(k < i)
        BY <2>1, <2>2
      <3>2. QED
        BY <3>1
    <2>4. QED
      BY <2>1, <2>2, <2>3 DEF u
<1>4. QED
    BY <1>2, <1>3

\* Without an entry for p the base shows through.
LEMMA LatestBase ==
    ASSUME NEW w, NEW n \in Nat, NEW base, NEW p, ~Has(w, n, p)
    PROVE  Latest(w, n, base, p) = base[p]
<1>1. IsLatest(w, n, base, p, base[p])
    BY DEF IsLatest
<1>2. QED
    BY <1>1, LatestUnique

\* The last entry wins.
LEMMA LatestLast ==
    ASSUME NEW w, NEW n \in Nat \ {0}, NEW base, NEW p, p \in w[n].pages
    PROVE  Latest(w, n, base, p) = w[n].id
<1>1. IsLatest(w, n, base, p, w[n].id)
    BY DEF IsLatest
<1>2. QED
    BY <1>1, LatestUnique

\* Only the first n entries count.
LEMMA LatestSame ==
    ASSUME NEW w, NEW x, NEW n \in Nat, NEW base, NEW p, \A i \in 1 .. n : w[i] = x[i]
    PROVE  Latest(w, n, base, p) = Latest(x, n, base, p)
<1>1. IsLatest(x, n, base, p, Latest(x, n, base, p))
    BY LatestIs
<1>2. \A v : IsLatest(x, n, base, p, v) => IsLatest(w, n, base, p, v)
    <2> SUFFICES ASSUME NEW v, IsLatest(x, n, base, p, v)
                 PROVE  IsLatest(w, n, base, p, v)
      OBVIOUS
    <2>1. CASE ~Has(x, n, p) /\ v = base[p]
      BY <2>1 DEF IsLatest, Has
    <2>2. CASE \E i \in 1 .. n : /\ p \in x[i].pages /\ v = x[i].id
                                 /\ \A j \in i + 1 .. n : p \notin x[j].pages
      BY <2>2 DEF IsLatest
    <2>3. QED
      BY <2>1, <2>2 DEF IsLatest
<1>3. QED
    BY <1>1, <1>2, LatestUnique

\* Entries that do not have p make no difference to it.
LEMMA LatestQuiet ==
    ASSUME NEW w, NEW n \in Nat, NEW m \in Nat, n <= m, NEW base, NEW p,
           \A i \in n + 1 .. m : p \notin w[i].pages
    PROVE  Latest(w, m, base, p) = Latest(w, n, base, p)
<1> DEFINE v == Latest(w, n, base, p)
<1>1. IsLatest(w, n, base, p, v)
    BY LatestIs
<1> HIDE DEF v
<1>2. CASE ~Has(w, n, p) /\ v = base[p]
    <2>1. ~Has(w, m, p)
      BY <1>2 DEF Has
    <2>2. QED
      BY <1>2, <2>1, LatestBase DEF v
<1>3. CASE \E i \in 1 .. n : /\ p \in w[i].pages /\ v = w[i].id
                             /\ \A j \in i + 1 .. n : p \notin w[j].pages
    <2>1. PICK i \in 1 .. n : /\ p \in w[i].pages /\ v = w[i].id
                              /\ \A j \in i + 1 .. n : p \notin w[j].pages
      BY <1>3
    <2>2. i \in 1 .. m /\ \A j \in i + 1 .. m : p \notin w[j].pages
      BY <2>1
    <2>3. IsLatest(w, m, base, p, v)
      BY <2>1, <2>2 DEF IsLatest
    <2>4. QED
      BY <2>3, LatestUnique DEF v
<1>4. QED
    BY <1>1, <1>2, <1>3 DEF IsLatest

\* The first m entries of w are those of h after its first b.
Part(w, m, h, b) == \A i \in 1 .. m : w[i] = h[b + i]

\* A WAL over the state before it is the state after it.
LEMMA Compose ==
    ASSUME NEW h, NEW b \in Nat, NEW w, NEW m \in Nat, NEW base, NEW bot, NEW p,
           NEW k \in Nat, k = b + m, Part(w, m, h, b),
           ~Has(w, m, p) => base[p] = Latest(h, b, bot, p)
    PROVE  Latest(w, m, base, p) = Latest(h, k, bot, p)
<1>1. b + m \in Nat /\ b <= b + m
    OBVIOUS
<1>2. CASE ~Has(w, m, p)
    <2>1. ASSUME NEW i \in b + 1 .. b + m
          PROVE  p \notin h[i].pages
      <3>1. i - b \in 1 .. m /\ b + (i - b) = i
        OBVIOUS
      <3>2. w[i - b] = h[i] /\ p \notin w[i - b].pages
        BY <1>2, <3>1 DEF Has, Part
      <3>3. QED
        BY <3>2
    <2>2. Latest(h, b + m, bot, p) = Latest(h, b, bot, p)
      BY <1>1, <2>1, LatestQuiet
    <2>3. QED
      BY <1>2, <2>2, LatestBase
<1>3. CASE Has(w, m, p)
    <2>1. PICK i \in 1 .. m : /\ p \in w[i].pages /\ Latest(w, m, base, p) = w[i].id
                              /\ \A j \in i + 1 .. m : p \notin w[j].pages
      BY <1>3, LatestIs DEF IsLatest
    <2>2. b + i \in 1 .. b + m /\ w[i] = h[b + i]
      BY DEF Part
    <2>3. ASSUME NEW j \in b + i + 1 .. b + m
          PROVE  p \notin h[j].pages
      <3>1. j - b \in i + 1 .. m /\ j - b \in 1 .. m /\ b + (j - b) = j
        OBVIOUS
      <3>2. w[j - b] = h[j] /\ p \notin w[j - b].pages
        BY <2>1, <3>1 DEF Part
      <3>3. QED
        BY <3>2
    <2>4. PICK l \in 1 .. b + m : l = b + i
      BY <2>2
    <2>5. /\ p \in h[l].pages /\ Latest(w, m, base, p) = h[l].id
          /\ \A j \in l + 1 .. b + m : p \notin h[j].pages
      BY <2>1, <2>2, <2>3, <2>4
    <2>6. IsLatest(h, b + m, bot, p, Latest(w, m, base, p))
      BY <2>5 DEF IsLatest
    <2>7. QED
      BY <1>1, <2>6, LatestUnique
<1>4. QED
    BY <1>2, <1>3

\* Contents are commit numbers, or what the base has.
LEMMA LatestType ==
    ASSUME NEW w, NEW n \in Nat, NEW base, NEW p, NEW S, base[p] \in S, \A i \in 1 .. n : w[i].id \in S
    PROVE  Latest(w, n, base, p) \in S
BY LatestIs DEF IsLatest

LEMMA StateAtType ==
    ASSUME NEW h \in Seq(Entries), NEW n \in 0 .. Len(h)
    PROVE  StateAt(h, n) \in [Pages -> 0 .. MaxCommits]
<1>1. ASSUME NEW p \in Pages
      PROVE  Latest(h, n, Blank, p) \in 0 .. MaxCommits
    <2>1. Blank[p] \in 0 .. MaxCommits
      BY BoundsAssumption DEF Blank
    <2>2. \A i \in 1 .. n : h[i].id \in 0 .. MaxCommits
      <3>1. \A i \in 1 .. n : h[i] \in Entries
        OBVIOUS
      <3>2. QED
        BY <3>1, BoundsAssumption DEF Entries
    <2>3. n \in Nat
      OBVIOUS
    <2>4. QED
      BY <2>1, <2>2, <2>3, LatestType
<1>2. QED
    BY <1>1 DEF StateAt

\* No two prefixes of an ordered history leave the same state.
LEMMA StatesDiffer ==
    ASSUME NEW n \in Nat, NEW m \in Nat, n < m, m <= Len(hist), hist \in Seq(Entries), Ordered
    PROVE  StateAt(hist, n) # StateAt(hist, m)
<1>1. m \in 1 .. Len(hist) /\ m \in Nat \ {0} /\ \A i \in 1 .. n : i \in 1 .. Len(hist) /\ i < m
    OBVIOUS
<1>2. \A i \in 1 .. Len(hist) : hist[i] \in Entries
    OBVIOUS
<1>3. PICK p \in Pages : p \in hist[m].pages
    BY <1>1, <1>2 DEF Ordered, Entries
<1>4. StateAt(hist, m)[p] = hist[m].id
    BY <1>1, <1>3, LatestLast DEF StateAt
<1>5. hist[m].id \in Nat \ {0} /\ \A i \in 1 .. n : hist[i].id < hist[m].id /\ hist[i].id \in Nat
    <2>1. \A i \in 1 .. Len(hist) : hist[i].id \in Nat \ {0}
      BY <1>2, BoundsAssumption DEF Entries
    <2>2. QED
      BY <1>1, <2>1 DEF Ordered
<1>6. StateAt(hist, n)[p] # hist[m].id
    <2>1. IsLatest(hist, n, Blank, p, StateAt(hist, n)[p])
      BY LatestIs DEF StateAt
    <2>2. Blank[p] = 0
      BY DEF Blank
    <2>3. QED
      BY <1>5, <2>1, <2>2 DEF IsLatest
<1>7. QED
    BY <1>4, <1>6

-----------------------------------------------------------------------------
(* Consequences of the invariant *)

USE PagesAssumption, ModesAssumption, PolicyAssumption, BoundsAssumption

Views == [Pages -> 0 .. MaxCommits]
TxSet == [at : {"none", "active", "syncing"}, gen : Nat, n : Nat, view : Views]
CkptSet == [step : {"none", "write", "fsync", "reset", "header"},
            mode : {"passive", "full", "restart", "truncate"},
            gen : Nat, upto : Nat, todo : SUBSET Pages]
OldSet == [there : BOOLEAN, wal : Seq(Entries), synced : Nat, cut : BOOLEAN]

LEMMA Types ==
    TypeOK <=> /\ open \subseteq Conns
               /\ wal \in Seq(Entries) /\ hist \in Seq(Entries)
               /\ gen \in Nat /\ synced \in 0 .. Len(wal) /\ old \in OldSet
               /\ db \in Views /\ disk \in [Pages -> SUBSET (0 .. MaxCommits)]
               /\ tx \in [Conns -> TxSet] /\ seen \subseteq Conns
               /\ ckpt \in [Conns -> CkptSet]
               /\ next \in 1 .. MaxCommits + 1 /\ acked \subseteq 1 .. MaxCommits
               /\ intact \in BOOLEAN /\ faults \in 0 .. MaxFaults
BY DEF TypeOK, Views, TxSet, CkptSet, OldSet

LEMMA NullTypes ==
    /\ Blank \in Views
    /\ NoTx \in TxSet /\ NoTx.at = "none"
    /\ NoCkpt \in CkptSet /\ NoCkpt.step = "none" /\ NoCkpt.mode = "passive"
    /\ NoOld \in OldSet /\ ~NoOld.there
BY EmptySeq DEF Blank, Views, NoTx, TxSet, NoCkpt, CkptSet, NoOld, OldSet

LEMMA Sizes ==
    ASSUME TypeOK
    PROVE  /\ Len(hist) \in Nat /\ Len(wal) \in Nat /\ synced \in Nat /\ synced <= Len(wal)
           /\ \A i \in 1 .. Len(wal) : wal[i] \in Entries
           /\ \A i \in 1 .. Len(hist) : hist[i] \in Entries
BY DEF TypeOK

LEMMA WalIsTail ==
    ASSUME TypeOK, IsTail(wal)
    PROVE  /\ Before \in Nat /\ Before + Len(wal) = Len(hist) /\ Before <= Len(hist)
           /\ \A i \in 1 .. Len(wal) : wal[i] = hist[Before + i]
BY Sizes DEF IsTail, Before

\* What is a connection's own at the time.
LEMMA Own ==
    ASSUME SInv, NEW c \in Conns
    PROVE  /\ TypeOK /\ OldShape /\ TxShape(c) /\ CkptShape(c) /\ ResetShape(c)
           /\ tx[c] \in TxSet /\ ckpt[c] \in CkptSet /\ ckpt[c].todo \subseteq Pages
           /\ ckpt[c].upto \in Nat /\ ckpt[c].gen \in Nat /\ gen \in Nat
           /\ tx[c].n \in Nat /\ tx[c].gen \in Nat
<1>1. TypeOK /\ OldShape /\ TxShape(c) /\ CkptShape(c) /\ ResetShape(c)
    BY DEF SInv
<1>2. tx[c] \in TxSet /\ ckpt[c] \in CkptSet /\ gen \in Nat
    BY <1>1, Types
<1>3. QED
    BY <1>1, <1>2 DEF TxSet, CkptSet

LEMMA HasMore ==
    ASSUME NEW w, NEW n \in Nat, NEW m \in Nat, n <= m, NEW p, Has(w, n, p)
    PROVE  Has(w, m, p)
BY DEF Has

LEMMA ContentType ==
    ASSUME TypeOK
    PROVE  Content \in Views
<1>1. ASSUME NEW p \in Pages
      PROVE  Latest(wal, Len(wal), db, p) \in 0 .. MaxCommits
    <2>1. db[p] \in 0 .. MaxCommits
      BY DEF TypeOK
    <2>2. \A i \in 1 .. Len(wal) : wal[i].id \in 0 .. MaxCommits
      BY Sizes DEF Entries
    <2>3. QED
      BY <2>1, <2>2, Sizes, LatestType
<1>2. QED
    BY <1>1 DEF Content, Views

\* WAL over database is the committed history.
LEMMA ContentIs ==
    ASSUME TypeOK, KInv
    PROVE  Content = StateAt(hist, Len(hist))
<1>0. IsTail(wal)
    BY DEF KInv
<1>1. ASSUME NEW p \in Pages
      PROVE  Latest(wal, Len(wal), db, p) = Latest(hist, Len(hist), Blank, p)
    <2>1. ~Has(wal, Len(wal), p) => db[p] = Latest(hist, Before, Blank, p)
      <3>1. OnDisk(p, db[p])
        BY DEF KInv, DiskOK
      <3>2. QED
        BY <3>1 DEF OnDisk, StateAt, Has
    <2>2. PICK b \in Nat, m \in Nat : b = Before /\ m = Len(wal)
      BY <1>0, Sizes, WalIsTail
    <2>3. b + m = Len(hist) /\ Len(hist) \in Nat /\ Part(wal, m, hist, b)
      BY <1>0, <2>2, Sizes, WalIsTail DEF Part
    <2>4. ~Has(wal, m, p) => db[p] = Latest(hist, b, Blank, p)
      BY <2>1, <2>2
    <2>5. QED
      BY <2>2, <2>3, <2>4, Compose
<1>2. QED
    BY <1>1 DEF Content, StateAt

-----------------------------------------------------------------------------
(* Steps that leave the WAL's entries alone *)

\* The others' part of SInv: what is left to show is the connection's own.
LEMMA ShapeFrame ==
    ASSUME SInv, NEW c \in Conns, UNCHANGED <<wal, gen>>, TypeOK', OldShape',
           \A d \in Conns \ {c} : tx'[d] = tx[d] /\ ckpt'[d] = ckpt[d] /\ (d \in open => d \in open'),
           TxShape(c)', CkptShape(c)', ResetShape(c)',
           \A d \in Conns \ {c} : Resets(ckpt[d].mode) =>
               /\ ~Resets(ckpt'[c].mode)
               /\ ckpt[d].step # "header" /\ ckpt'[c].step = "write" /\ ckpt'[c].gen = gen
                     => ckpt[d].upto <= ckpt'[c].upto
    PROVE  SInv'
<1>1. ASSUME NEW d \in Conns \ {c}
      PROVE  TxShape(d)' /\ CkptShape(d)' /\ ResetShape(d)'
    <2>1. TxShape(d) /\ CkptShape(d) /\ ResetShape(d)
      BY DEF SInv
    <2> DEFINE t == tx[d]
               k == ckpt[d]
    <2>0. /\ tx'[d] = t /\ ckpt'[d] = k /\ (d \in open => d \in open')
          /\ gen' = gen /\ Len(wal') = Len(wal) /\ \A n, p : Has(wal', n, p) <=> Has(wal, n, p)
      BY DEF Has
    <2>2. TxShape(d)'
      <3>1. /\ t.at = "none" <=> t = NoTx
            /\ t.at # "none" => d \in open /\ k = NoCkpt
            /\ t.at = "active" => t.gen <= gen
            /\ t.at = "active" /\ t.gen = gen => t.n <= Len(wal)
        BY <2>1 DEF TxShape
      <3> HIDE DEF t, k
      <3>2. QED
        BY <2>0, <3>1 DEF TxShape
    <2>3. CkptShape(d)'
      <3>1. /\ k.step = "none" <=> k = NoCkpt
            /\ k.step # "none" => d \in open /\ t = NoTx
            /\ k.step = "write" => k.gen <= gen
            /\ k.step = "write" /\ k.gen = gen =>
                  k.upto <= Len(wal) /\ \A p \in k.todo : Has(wal, k.upto, p)
            /\ k.step \in {"fsync", "reset", "header"} => Resets(k.mode)
        BY <2>1 DEF CkptShape
      <3> HIDE DEF t, k
      <3>2. QED
        BY <2>0, <3>1 DEF CkptShape
    <2>4. ResetShape(d)'
      <3> SUFFICES ASSUME Resets(ckpt[d].mode)
                   PROVE  ResetShape(d)'
        BY DEF ResetShape
      <3>1. \A e \in Conns \ {d} : ~Resets(ckpt'[e].mode)
        BY <2>1 DEF ResetShape
      <3>2. ASSUME ckpt[d].step \in {"write", "fsync", "reset"}, NEW e \in Conns \ {d},
                   ckpt'[e].step = "write", ckpt'[e].gen = gen
            PROVE  ckpt[d].upto <= ckpt'[e].upto
        <4>1. CASE e = c
          BY <3>2, <4>1
        <4>2. CASE e # c
          BY <2>1, <3>2, <4>2 DEF ResetShape
        <4>3. QED
          BY <4>1, <4>2
      <3>3. QED
        BY <2>1, <3>1, <3>2 DEF ResetShape
    <2>5. QED
      BY <2>2, <2>3, <2>4
<1>2. QED
    BY <1>1 DEF SInv

\* The history's part of KInv.
LEMMA KeepFrame ==
    ASSUME KInv, NEW c \in Conns, UNCHANGED <<wal, gen, hist, next>>,
           DiskOK', AckedSynced', OldOK', TxView(c)', \A d \in Conns : ResetOK(d)',
           \A d \in Conns \ {c} : tx'[d] = tx[d]
    PROVE  KInv'
<1>1. Before' = Before /\ \A n : StateAt(hist', n) = StateAt(hist, n)
    BY DEF Before, StateAt, Latest
<1>2. IsTail(wal)' /\ Ordered'
    BY DEF KInv, IsTail, Ordered
<1>3. Updates'
    BY <1>1 DEF KInv, Updates
<1>4. ASSUME NEW d \in Conns \ {c}
      PROVE  TxView(d)'
    <2>1. TxView(d) /\ tx'[d] = tx[d]
      BY DEF KInv
    <2>2. StateAt(hist', Before' + tx'[d].n) = StateAt(hist, Before + tx[d].n)
      BY <1>1, <2>1
    <2>3. QED
      BY <2>1, <2>2 DEF TxView
<1>5. QED
    BY <1>2, <1>3, <1>4 DEF KInv

\* All of KInv but the connection's own part, when the files stay as they are.
LEMMA FilesFrame ==
    ASSUME KInv, NEW c \in Conns,
           UNCHANGED <<wal, gen, synced, old, db, disk, hist, next, acked>>,
           TxView(c)', ResetOK(c)',
           \A d \in Conns \ {c} : tx'[d] = tx[d] /\ ckpt'[d] = ckpt[d]
    PROVE  KInv'
<1>1. Before' = Before /\ \A n : StateAt(hist', n) = StateAt(hist, n)
    BY DEF Before, StateAt, Latest
<1>2. DiskOK'
    BY <1>1 DEF KInv, DiskOK, OnDisk
<1>3. AckedSynced' /\ OldOK'
    BY <1>1 DEF KInv, AckedSynced, OldOK
<1>4. ASSUME NEW d \in Conns \ {c}
      PROVE  ResetOK(d)'
    <2>1. ResetOK(d) /\ ckpt'[d] = ckpt[d]
      BY DEF KInv
    <2>2. QED
      BY <1>1, <2>1 DEF ResetOK
<1>5. QED
    BY <1>2, <1>3, <1>4, KeepFrame

\* A connection with neither a transaction nor a checkpoint owes nothing.
LEMMA Idle ==
    ASSUME NEW c \in Conns, tx'[c] = NoTx, ckpt'[c] = NoCkpt
    PROVE  /\ TxShape(c)' /\ CkptShape(c)' /\ ResetShape(c)' /\ TxView(c)' /\ ResetOK(c)'
           /\ ~Resets(ckpt'[c].mode) /\ ckpt'[c].step # "write"
<1>1. ~Resets(ckpt'[c].mode) /\ ckpt'[c].step = "none" /\ tx'[c].at = "none"
    BY NullTypes DEF Resets
<1>2. TxShape(c)' /\ TxView(c)'
    BY <1>1 DEF TxShape, TxView
<1>3. CkptShape(c)' /\ ResetShape(c)' /\ ResetOK(c)'
    BY <1>1 DEF CkptShape, ResetShape, ResetOK
<1>4. QED
    BY <1>1, <1>2, <1>3

\* A connection becomes or stays idle, and the files stay as they are.
LEMMA IdleStep ==
    ASSUME IInv, NEW c \in Conns, tx' \in [Conns -> TxSet], ckpt' \in [Conns -> CkptSet],
           tx'[c] = NoTx, ckpt'[c] = NoCkpt,
           \A d \in Conns \ {c} : tx'[d] = tx[d] /\ ckpt'[d] = ckpt[d] /\ (d \in open => d \in open'),
           open' \subseteq Conns, seen' \subseteq Conns, faults' \in 0 .. MaxFaults,
           UNCHANGED <<wal, gen, synced, old, db, disk, hist, next, acked, intact>>
    PROVE  IInv'
<1>1. SInv'
    <2>1. TypeOK'
      BY DEF IInv, SInv, TypeOK, TxSet, CkptSet, Views
    <2>2. OldShape' /\ SInv
      BY DEF IInv, SInv, OldShape
    <2>3. QED
      BY <2>1, <2>2, Idle, ShapeFrame
<1>2. ASSUME KInv
      PROVE  KInv'
    BY <1>2, Idle, FilesFrame
<1>3. QED
    BY <1>1, <1>2 DEF IInv

-----------------------------------------------------------------------------
(* Connections and transactions *)

LEMMA OpenStep ==
    ASSUME IInv, NEW c \in Conns, Open(c)
    PROVE  IInv'
<1>0. SInv /\ TypeOK
    BY DEF IInv, SInv
<1>1. /\ c \notin open /\ open' = open \cup {c} /\ seen' \subseteq seen \cup {c}
      /\ UNCHANGED <<wal, gen, synced, old, db, disk, tx, ckpt, hist, next, acked, intact, faults>>
    BY DEF Open, files, ghosts, Refreshed
<1>2. tx[c] = NoTx /\ ckpt[c] = NoCkpt
    BY <1>0, <1>1, Own DEF TxShape, CkptShape
<1>3. /\ tx \in [Conns -> TxSet] /\ ckpt \in [Conns -> CkptSet] /\ open \subseteq Conns
      /\ seen \subseteq Conns /\ faults \in 0 .. MaxFaults
    BY <1>0, Types
<1>4. QED
    BY <1>1, <1>2, <1>3, IdleStep

LEMMA CloseStep ==
    ASSUME IInv, NEW c \in Conns, Close(c)
    PROVE  IInv'
<1>1. /\ tx[c] = NoTx /\ ckpt[c] = NoCkpt /\ open' = open \ {c} /\ seen' = seen \ {c}
      /\ UNCHANGED <<wal, gen, synced, old, db, disk, tx, ckpt, hist, next, acked, intact, faults>>
    BY DEF Close, files, ghosts
<1>2. /\ tx \in [Conns -> TxSet] /\ ckpt \in [Conns -> CkptSet] /\ open \subseteq Conns
      /\ seen \subseteq Conns /\ faults \in 0 .. MaxFaults
    BY Types DEF IInv, SInv
<1>3. QED
    BY <1>1, <1>2, IdleStep

\* A transaction goes and leaves the files as they are.
LEMMA GoneStep ==
    ASSUME IInv, NEW c \in Conns, tx[c].at # "none", tx' = [tx EXCEPT ![c] = NoTx],
           seen' \subseteq Conns, faults' \in 0 .. MaxFaults,
           UNCHANGED <<open, wal, gen, synced, old, db, disk, ckpt, hist, next, acked, intact>>
    PROVE  IInv'
<1>1. ckpt[c] = NoCkpt
    BY Own DEF IInv, TxShape
<1>2. tx \in [Conns -> TxSet] /\ ckpt \in [Conns -> CkptSet] /\ open \subseteq Conns
    BY Types DEF IInv, SInv
<1>3. tx' \in [Conns -> TxSet] /\ tx'[c] = NoTx /\ \A d \in Conns \ {c} : tx'[d] = tx[d]
    BY <1>2, NullTypes
<1>4. QED
    BY <1>1, <1>2, <1>3, IdleStep

LEMMA EndStep ==
    ASSUME IInv, NEW c \in Conns, End(c)
    PROVE  IInv'
<1>1. /\ tx[c].at # "none" /\ tx' = [tx EXCEPT ![c] = NoTx]
      /\ UNCHANGED <<open, wal, gen, synced, old, db, disk, seen, ckpt, hist, next, acked, intact, faults>>
    BY DEF End, files, ghosts
<1>2. seen \subseteq Conns /\ faults \in 0 .. MaxFaults
    BY DEF IInv, SInv, TypeOK
<1>3. QED
    BY <1>1, <1>2, GoneStep

LEMMA SyncFailsStep ==
    ASSUME IInv, NEW c \in Conns, SyncFails(c)
    PROVE  IInv'
<1>1. /\ tx[c].at # "none" /\ tx' = [tx EXCEPT ![c] = NoTx]
      /\ faults < MaxFaults /\ faults' = faults + 1
      /\ UNCHANGED <<open, wal, gen, synced, old, db, disk, seen, ckpt, hist, next, acked, intact>>
    BY DEF SyncFails, files, ghosts
<1>2. seen \subseteq Conns /\ faults' \in 0 .. MaxFaults
    BY <1>1 DEF IInv, SInv, TypeOK
<1>3. QED
    BY <1>1, <1>2, GoneStep

\* A transaction begins with the whole history in view.
LEMMA BeginStep ==
    ASSUME IInv, NEW c \in Conns, Begin(c)
    PROVE  IInv'
<1> DEFINE t == [at |-> "active", gen |-> gen, n |-> Len(wal), view |-> Content]
<1>0. SInv /\ TypeOK
    BY DEF IInv, SInv
<1>1. /\ c \in open /\ tx[c] = NoTx /\ ckpt[c] = NoCkpt
      /\ tx' = [tx EXCEPT ![c] = t] /\ seen' \subseteq seen \cup {c}
      /\ UNCHANGED <<open, wal, gen, synced, old, db, disk, ckpt, hist, next, acked, intact, faults>>
    BY DEF Begin, files, ghosts, Refreshed
<1>2. t \in TxSet /\ t.at = "active" /\ t.gen = gen /\ t.n = Len(wal) /\ t.view = Content
    BY <1>0, ContentType, Sizes, Types DEF TxSet
<1> HIDE DEF t
<1>3. tx' \in [Conns -> TxSet] /\ tx'[c] = t /\ \A d \in Conns \ {c} : tx'[d] = tx[d]
    BY <1>0, <1>1, <1>2, Types
<1>4. /\ ~Resets(ckpt'[c].mode) /\ ckpt'[c].step = "none" /\ ckpt'[c] = NoCkpt
      /\ \A d \in Conns : ckpt'[d] = ckpt[d]
    BY <1>1, NullTypes DEF Resets
<1>5. SInv'
    <2>1. TypeOK'
      <3>1. open' \subseteq Conns /\ seen' \subseteq Conns /\ faults' \in 0 .. MaxFaults
        BY <1>0, <1>1, Types
      <3>2. QED
        BY <1>0, <1>1, <1>3, <3>1 DEF TypeOK, TxSet, Views
    <2>2. OldShape'
      BY <1>0, <1>1 DEF SInv, OldShape
    <2>3. TxShape(c)'
      <3>1. t # NoTx /\ gen <= gen /\ Len(wal) <= Len(wal)
        BY <1>0, <1>2, NullTypes, Sizes DEF TypeOK
      <3>2. QED
        BY <1>1, <1>2, <1>3, <1>4, <3>1 DEF TxShape
    <2>4. CkptShape(c)' /\ ResetShape(c)'
      BY <1>4 DEF CkptShape, ResetShape
    <2>5. QED
      BY <1>0, <1>1, <1>3, <1>4, <2>1, <2>2, <2>3, <2>4, ShapeFrame
<1>6. ASSUME KInv
      PROVE  KInv'
    <2>1. Content = StateAt(hist, Len(hist)) /\ IsTail(wal)
      BY <1>0, <1>6, ContentIs DEF KInv
    <2>2. (Before + tx[c].n)' = Len(hist)
      BY <1>0, <1>1, <1>2, <1>3, <2>1, Sizes DEF Before
    <2>3. StateAt(hist', Len(hist)) = Content
      BY <1>1, <2>1 DEF StateAt, Latest
    <2>4. TxView(c)'
      BY <1>2, <1>3, <2>2, <2>3 DEF TxView
    <2>5. ResetOK(c)'
      BY <1>4 DEF ResetOK
    <2>6. QED
      BY <1>1, <1>3, <1>4, <1>6, <2>4, <2>5, FilesFrame
<1>7. QED
    BY <1>1, <1>5, <1>6 DEF IInv

LEMMA StateSame ==
    ASSUME NEW h, NEW g, NEW n \in Nat, \A i \in 1 .. n : h[i] = g[i]
    PROVE  StateAt(h, n) = StateAt(g, n)
BY LatestSame DEF StateAt

\* The entry that a commit appends.
LEMMA EntryType ==
    ASSUME TypeOK, NEW c \in Conns, NEW ps \in SUBSET Pages, next <= MaxCommits
    PROVE  /\ Entry(c, ps) \in Entries /\ Entry(c, ps).id = next /\ Entry(c, ps).pages = ps
           /\ \A p \in ps : Entry(c, ps).base[p] = tx[c].view[p]
<1> DEFINE b == [p \in Pages |-> IF p \in ps THEN tx[c].view[p] ELSE 0]
<1>1. next \in 1 .. MaxCommits /\ tx[c].view \in [Pages -> 0 .. MaxCommits]
    BY DEF TypeOK
<1>2. b \in [Pages -> 0 .. MaxCommits] /\ \A p \in ps : b[p] = tx[c].view[p]
    BY <1>1
<1>3. Entry(c, ps) = [id |-> next, pages |-> ps, base |-> b]
    BY DEF Entry
<1> HIDE DEF b
<1>4. QED
    BY <1>1, <1>2, <1>3 DEF Entries

\* What a transaction that meets no conflict has in view of its pages.
LEMMA ViewIsCurrent ==
    ASSUME SInv, KInv, NEW c \in Conns, NEW ps \in SUBSET Pages, tx[c].at = "active",
           ~Conflict(c, ps), NEW p \in ps
    PROVE  tx[c].view[p] = StateAt(hist, Len(hist))[p]
<1>0. TypeOK /\ IsTail(wal)
    BY DEF SInv, KInv
<1>1. /\ tx[c].gen = gen /\ tx[c].n <= Len(wal) /\ tx[c].n \in Nat
      /\ tx[c].view = StateAt(hist, Before + tx[c].n)
    <2>1. tx[c].gen = gen
      BY DEF Conflict
    <2>2. QED
      BY <2>1, Own DEF TxShape, KInv, TxView
<1>2. PICK b \in Nat, n \in Nat, l \in Nat : b = Before /\ n = tx[c].n /\ l = Len(hist)
    BY <1>0, <1>1, Sizes, WalIsTail
<1>3. b + n \in Nat /\ b + n <= l /\ l - b = Len(wal)
    BY <1>0, <1>1, <1>2, Sizes, WalIsTail
<1>4. ASSUME NEW i \in b + n + 1 .. l
      PROVE  p \notin hist[i].pages
    <2>1. i - b \in n + 1 .. Len(wal) /\ i - b \in 1 .. Len(wal) /\ b + (i - b) = i
      BY <1>3
    <2>2. wal[i - b] = hist[i]
      BY <1>0, <1>2, <2>1, WalIsTail
    <2>3. wal[i - b].pages \cap ps = {}
      BY <1>1, <1>2, <2>1 DEF Conflict
    <2>4. QED
      BY <2>2, <2>3
<1>5. Latest(hist, l, Blank, p) = Latest(hist, b + n, Blank, p)
    BY <1>3, <1>4, LatestQuiet
<1>6. QED
    BY <1>1, <1>2, <1>5 DEF StateAt

\* What an append changes: WAL and history get the same entry at their ends.
Appended(e) ==
    /\ wal' \in Seq(Entries) /\ Len(wal') = Len(wal) + 1 /\ wal'[Len(wal) + 1] = e
    /\ \A i \in 1 .. Len(wal) : wal'[i] = wal[i]
    /\ hist' \in Seq(Entries) /\ Len(hist') = Len(hist) + 1 /\ hist'[Len(hist) + 1] = e
    /\ \A i \in 1 .. Len(hist) : hist'[i] = hist[i]

\* An append leaves the states of the earlier history as they were.
LEMMA AppendedSame ==
    ASSUME TypeOK, NEW e, Appended(e)
    PROVE  /\ Before' = Before
           /\ \A n \in 0 .. Len(hist) : StateAt(hist', n) = StateAt(hist, n)
           /\ \A n \in 0 .. Len(wal) : \A p : Has(wal', n, p) <=> Has(wal, n, p)
<1>1. Before' = Before
    BY Sizes DEF Before, Appended
<1>2. ASSUME NEW n \in 0 .. Len(hist)
      PROVE  StateAt(hist', n) = StateAt(hist, n)
    <2>1. n \in Nat /\ \A i \in 1 .. n : hist'[i] = hist[i]
      BY Sizes DEF Appended
    <2>2. QED
      BY <2>1, StateSame
<1>3. ASSUME NEW n \in 0 .. Len(wal), NEW p
      PROVE  Has(wal', n, p) <=> Has(wal, n, p)
    <2>1. n \in Nat /\ \A i \in 1 .. n : wal'[i] = wal[i]
      BY Sizes DEF Appended
    <2>2. QED
      BY <2>1 DEF Has
<1>4. QED
    BY <1>1, <1>2, <1>3

\* The append of a commit without conflict, its shape.
LEMMA AppendShape ==
    ASSUME SInv, NEW c \in Conns, NEW e, NEW t \in TxSet, Appended(e),
           tx[c].at = "active", tx' = [tx EXCEPT ![c] = t],
           t.at = "syncing" \/ t = NoTx, next <= MaxCommits, next' = next + 1,
           acked' \subseteq acked \cup {next}, seen' \subseteq seen \cup {c},
           UNCHANGED <<open, gen, synced, old, db, disk, ckpt, intact, faults>>
    PROVE  SInv'
<1>0. TypeOK
    BY DEF SInv
<1>1. /\ c \in open /\ ckpt[c] = NoCkpt /\ ckpt'[c] = NoCkpt
    BY Own DEF TxShape
<1>2. tx' \in [Conns -> TxSet] /\ tx'[c] = t /\ \A d \in Conns \ {c} : tx'[d] = tx[d]
    BY <1>0, Types
<1>3. TypeOK'
    <2>1. wal' \in Seq(Entries) /\ hist' \in Seq(Entries)
      BY DEF Appended
    <2>2. next \in 1 .. MaxCommits /\ next' \in 1 .. MaxCommits + 1
      BY <1>0 DEF TypeOK
    <2>3. acked' \subseteq 1 .. MaxCommits /\ seen' \subseteq Conns
      BY <1>0, <2>2 DEF TypeOK
    <2>4. synced' \in 0 .. Len(wal')
      BY <1>0, Sizes DEF Appended
    <2>5. QED
      BY <1>0, <1>2, <2>1, <2>2, <2>3, <2>4 DEF TypeOK, TxSet, Views
<1>4. OldShape'
    BY DEF SInv, OldShape
<1>5. Len(wal) \in Nat /\ Len(wal') = Len(wal) + 1
    BY <1>0, Sizes DEF Appended
<1>6. ASSUME NEW d \in Conns
      PROVE  TxShape(d)'
    <2>1. CASE d = c
      <3>1. t.at \in {"syncing", "none"} /\ (t.at = "none" <=> t = NoTx)
        BY NullTypes
      <3>2. QED
        BY <1>1, <1>2, <2>1, <3>1 DEF TxShape
    <2>2. CASE d # c
      <3>1. tx'[d] = tx[d] /\ TxShape(d) /\ tx[d].n \in Nat
        BY <1>2, <2>2, Own
      <3>2. tx[d].n <= Len(wal) => tx[d].n <= Len(wal')
        BY <1>5, <3>1
      <3>3. QED
        BY <3>1, <3>2 DEF TxShape
    <2>3. QED
      BY <2>1, <2>2
<1>7. ASSUME NEW d \in Conns
      PROVE  CkptShape(d)'
    <2>1. CkptShape(d) /\ ckpt'[d] = ckpt[d] /\ ckpt[d].upto \in Nat
      BY Own
    <2>2. tx[d] = NoTx => tx'[d] = NoTx
      BY <1>2, NullTypes
    <2>3. ASSUME ckpt[d].upto <= Len(wal)
          PROVE  /\ ckpt[d].upto <= Len(wal')
                 /\ \A p : Has(wal', ckpt[d].upto, p) <=> Has(wal, ckpt[d].upto, p)
      BY <1>0, <1>5, <2>1, <2>3, AppendedSame
    <2>4. QED
      BY <2>1, <2>2, <2>3 DEF CkptShape
<1>8. ASSUME NEW d \in Conns
      PROVE  ResetShape(d)'
    <2>1. ResetShape(d) /\ ckpt[d].upto \in Nat
      BY Own
    <2>2. ckpt[d].upto <= Len(wal) => ckpt[d].upto <= Len(wal')
      BY <1>5, <2>1
    <2>3. QED
      BY <2>1, <2>2 DEF ResetShape
<1>9. QED
    BY <1>3, <1>4, <1>6, <1>7, <1>8 DEF SInv

\* The append of a commit without conflict, the history.
LEMMA AppendKeep ==
    ASSUME SInv, KInv, NEW c \in Conns, NEW ps \in (SUBSET Pages) \ {{}}, NEW t, Appended(Entry(c, ps)),
           ~Conflict(c, ps), tx[c].at = "active", tx' = [tx EXCEPT ![c] = t], t.at # "active",
           next <= MaxCommits, next' = next + 1,
           SyncPolicy = "PerCommit" => acked' = acked,
           UNCHANGED <<gen, synced, old, db, disk, ckpt>>
    PROVE  KInv'
<1> DEFINE e == Entry(c, ps)
<1>0. TypeOK /\ IsTail(wal)
    BY DEF SInv, KInv
<1>1. /\ e \in Entries /\ e.id = next /\ e.pages = ps
      /\ \A p \in ps : e.base[p] = tx[c].view[p]
    BY <1>0, EntryType
<1>2. Appended(e)
    OBVIOUS
<1> HIDE DEF e
<1>3. /\ Before' = Before /\ Before \in Nat /\ Before + Len(wal) = Len(hist) /\ Before <= Len(hist)
      /\ \A n \in 0 .. Len(hist) : StateAt(hist', n) = StateAt(hist, n)
    BY <1>0, <1>2, AppendedSame, WalIsTail
<1>4. Len(wal') = Len(wal) + 1 /\ Len(hist') = Len(hist) + 1 /\ Len(wal) \in Nat /\ Len(hist) \in Nat
    BY <1>0, <1>2, Sizes DEF Appended
<1>5. IsTail(wal)'
    <2>0. /\ Before \in Nat /\ Before + Len(wal) = Len(hist)
          /\ Len(wal) \in Nat /\ Len(hist) \in Nat
      BY <1>3, <1>4
    <2>1. Len(wal') <= Len(hist') /\ Len(hist') - Len(wal') = Before
      BY <1>3, <1>4
    <2>2. ASSUME NEW i \in 1 .. Len(wal')
          PROVE  wal'[i] = hist'[Before + i]
      <3>1. CASE i = Len(wal) + 1
        <4>1. Before + i = Len(hist) + 1
          BY <2>0, <3>1
        <4>2. QED
          BY <1>2, <3>1, <4>1 DEF Appended
      <3>2. CASE i # Len(wal) + 1
        <4>1. i \in 1 .. Len(wal) /\ Before + i \in 1 .. Len(hist)
          BY <1>3, <1>4, <3>2
        <4>2. QED
          BY <1>0, <1>2, <4>1, WalIsTail DEF Appended
      <3>3. QED
        BY <3>1, <3>2
    <2>3. QED
      BY <2>1, <2>2 DEF IsTail
<1>6. Ordered'
    <2>1. \A i \in 1 .. Len(hist) : hist[i].id < next /\ hist[i].pages # {} /\ hist[i].id \in Nat
      BY <1>0, Sizes DEF KInv, Ordered, Entries
    <2>2. next \in Nat /\ next < next' /\ \A n \in Nat : n < next => n < next'
      BY <1>0 DEF TypeOK
    <2>3. ASSUME NEW i \in 1 .. Len(hist')
          PROVE  hist'[i].id < next' /\ hist'[i].pages # {}
      <3>1. CASE i = Len(hist) + 1
        <4>1. hist'[i] = e
          BY <1>2, <3>1 DEF Appended
        <4>2. hist'[i].id < next'
          BY <1>1, <2>2, <4>1
        <4>3. ps # {}
          OBVIOUS
        <4>4. QED
          BY <1>1, <4>1, <4>2, <4>3
      <3>2. CASE i \in 1 .. Len(hist)
        <4>1. hist'[i] = hist[i]
          BY <1>2, <3>2 DEF Appended
        <4>2. QED
          BY <2>1, <2>2, <3>2, <4>1
      <3>3. QED
        BY <1>4, <3>1, <3>2
    <2>4. ASSUME NEW i \in 1 .. Len(hist'), NEW j \in 1 .. Len(hist'), i < j
          PROVE  hist'[i].id < hist'[j].id
      <3>1. i \in 1 .. Len(hist)
        BY <1>4, <2>4
      <3>2. hist'[i] = hist[i]
        BY <1>2, <3>1 DEF Appended
      <3>3. CASE j = Len(hist) + 1
        <4>1. hist'[j] = e
          BY <1>2, <3>3 DEF Appended
        <4>2. QED
          BY <1>1, <2>1, <3>1, <3>2, <4>1
      <3>4. CASE j \in 1 .. Len(hist)
        <4>1. hist'[j] = hist[j]
          BY <1>2, <3>4 DEF Appended
        <4>2. QED
          BY <2>4, <3>1, <3>2, <3>4, <4>1 DEF KInv, Ordered
      <3>5. QED
        BY <1>4, <3>3, <3>4
    <2>5. QED
      BY <2>3, <2>4 DEF Ordered
<1>7. DiskOK'
    <2>1. StateAt(hist', Before') = StateAt(hist, Before)
      BY <1>3, <1>4
    <2>2. ASSUME NEW p \in Pages, NEW v, OnDisk(p, v)
          PROVE  OnDisk(p, v)'
      <3>1. CASE v = StateAt(hist, Before)[p]
        BY <2>1, <3>1 DEF OnDisk
      <3>2. CASE \E i \in 1 .. Len(wal) : p \in wal[i].pages /\ v = wal[i].id
        <4>1. PICK i \in 1 .. Len(wal) : p \in wal[i].pages /\ v = wal[i].id
          BY <3>2
        <4>2. i \in 1 .. Len(wal') /\ wal'[i] = wal[i]
          BY <1>2, <1>4 DEF Appended
        <4>3. QED
          BY <4>1, <4>2 DEF OnDisk
      <3>3. QED
        BY <2>2, <3>1, <3>2 DEF OnDisk
    <2>3. QED
      BY <2>2 DEF KInv, DiskOK
<1>8. AckedSynced'
    <2> SUFFICES ASSUME SyncPolicy = "PerCommit"
                 PROVE  \A a \in acked' : \E i \in 1 .. Before' + synced' : hist'[i].id = a
      BY DEF AckedSynced
    <2>1. \A i \in 1 .. Before + synced : i \in 1 .. Len(hist)
      BY <1>0, <1>3, <1>4, Sizes
    <2>2. Before' + synced' = Before + synced
      BY <1>3
    <2>3. ASSUME NEW a \in acked
          PROVE  \E i \in 1 .. Before + synced : hist'[i].id = a
      <3>1. PICK i \in 1 .. Before + synced : hist[i].id = a
        BY DEF KInv, AckedSynced
      <3>2. hist'[i] = hist[i]
        BY <1>2, <2>1 DEF Appended
      <3>3. QED
        BY <3>1, <3>2
    <2>4. QED
      BY <2>2, <2>3
<1>9. ASSUME NEW d \in Conns
      PROVE  TxView(d)'
    <2>1. CASE d = c
      BY <1>0, <2>1 DEF TxView, TypeOK
    <2>2. CASE d # c
      <3>1. tx'[d] = tx[d] /\ TxView(d) /\ TxShape(d) /\ tx[d].n \in Nat
        BY <1>0, <2>2, Own DEF KInv, TypeOK
      <3>2. ASSUME tx[d].at = "active", tx[d].gen = gen
            PROVE  StateAt(hist', Before' + tx'[d].n) = StateAt(hist, Before + tx[d].n)
        <4>1. tx[d].n <= Len(wal)
          BY <3>1, <3>2 DEF TxShape
        <4>2. Before + tx[d].n \in 0 .. Len(hist)
          BY <1>3, <1>4, <3>1, <4>1
        <4>3. QED
          BY <1>3, <3>1, <4>2
      <3>3. QED
        BY <3>1, <3>2 DEF TxView
    <2>3. QED
      BY <2>1, <2>2
<1>10. ASSUME NEW d \in Conns
       PROVE  ResetOK(d)'
    <2>1. ckpt[d].upto \in Nat /\ CkptShape(d) /\ ResetShape(d) /\ ckpt'[d] = ckpt[d]
      BY Own
    <2>2. ASSUME Resets(ckpt[d].mode), ckpt[d].step \in {"write", "fsync", "reset"}
          PROVE  ckpt[d].upto # Len(wal')
      <3>1. ckpt[d].upto <= Len(wal)
        BY <2>1, <2>2 DEF ResetShape
      <3>2. QED
        BY <1>4, <2>1, <3>1
    <2>3. QED
      BY <2>1, <2>2 DEF ResetOK
<1>11. OldOK'
    <2> SUFFICES ASSUME old.there
                 PROVE  OldOK'
      BY DEF OldOK
    <2>1. /\ Len(old.wal) <= Before /\ Len(old.wal) \in Nat
          /\ \A i \in 1 .. Len(old.wal) : old.wal[i] = hist[Before - Len(old.wal) + i]
      BY <1>0 DEF KInv, OldOK, TypeOK
    <2>2. ASSUME NEW i \in 1 .. Len(old.wal)
          PROVE  old.wal[i] = hist'[Before - Len(old.wal) + i]
      <3>1. Before - Len(old.wal) + i \in 1 .. Len(hist)
        BY <1>3, <1>4, <2>1
      <3>2. QED
        BY <1>2, <2>1, <3>1 DEF Appended
    <2>3. QED
      BY <1>3, <2>1, <2>2 DEF OldOK
<1>12. Updates'
    <2>1. ASSUME NEW j \in 1 .. Len(hist'), NEW p \in hist'[j].pages
          PROVE  hist'[j].base[p] = StateAt(hist', j - 1)[p]
      <3>1. j - 1 \in 0 .. Len(hist)
        BY <1>4
      <3>2. StateAt(hist', j - 1) = StateAt(hist, j - 1)
        BY <1>3, <3>1
      <3>3. CASE j = Len(hist) + 1
        <4>1. j - 1 = Len(hist) /\ hist'[j] = e
          BY <1>2, <1>4, <3>3 DEF Appended
        <4>2. p \in ps /\ hist'[j].base[p] = tx[c].view[p]
          BY <1>1, <4>1
        <4>3. tx[c].view[p] = StateAt(hist, Len(hist))[p]
          BY <4>2, ViewIsCurrent
        <4>4. QED
          BY <3>2, <4>1, <4>2, <4>3
      <3>4. CASE j \in 1 .. Len(hist)
        <4>1. hist'[j] = hist[j]
          BY <1>2, <3>4 DEF Appended
        <4>2. QED
          BY <3>2, <3>4, <4>1 DEF KInv, Updates
      <3>5. QED
        BY <1>4, <3>3, <3>4
    <2>2. QED
      BY <2>1 DEF Updates
<1>13. QED
    BY <1>5, <1>6, <1>7, <1>8, <1>9, <1>10, <1>11, <1>12 DEF KInv

LEMMA CommitStep ==
    ASSUME IInv, NEW c \in Conns, NEW ps \in (SUBSET Pages) \ {{}}, Commit(c, ps)
    PROVE  IInv'
<1>0. SInv /\ TypeOK
    BY DEF IInv, SInv
<1>1. CASE Conflict(c, ps)
    <2>1. /\ tx[c].at # "none" /\ tx' = [tx EXCEPT ![c] = NoTx] /\ seen' \subseteq seen \cup {c}
          /\ UNCHANGED <<open, wal, gen, synced, old, db, disk, ckpt, hist, next, acked, intact, faults>>
      BY <1>1 DEF Commit, Refreshed
    <2>2. seen' \subseteq Conns /\ faults' \in 0 .. MaxFaults
      BY <1>0, <2>1 DEF TypeOK
    <2>3. QED
      BY <2>1, <2>2, GoneStep
<1>2. CASE ~Conflict(c, ps)
    <2> DEFINE e == Entry(c, ps)
               t == IF SyncPolicy = "PerCommit" THEN [NoTx EXCEPT !.at = "syncing"] ELSE NoTx
    <2>1. /\ tx[c].at = "active" /\ next <= MaxCommits /\ next' = next + 1
          /\ wal' = Append(wal, e) /\ hist' = Append(hist, e) /\ tx' = [tx EXCEPT ![c] = t]
          /\ acked' = IF SyncPolicy = "PerCommit" THEN acked ELSE acked \cup {next}
          /\ seen' \subseteq seen \cup {c}
          /\ UNCHANGED <<open, gen, synced, old, db, disk, ckpt, intact, faults>>
      BY <1>2 DEF Commit, Refreshed
    <2>2. t \in TxSet /\ (t.at = "syncing" \/ t = NoTx) /\ t.at # "active"
      BY NullTypes DEF TxSet, NoTx
    <2>3. Appended(e)
      <3>1. e \in Entries
        BY <1>0, <2>1, EntryType
      <3>2. wal \in Seq(Entries) /\ hist \in Seq(Entries)
        BY <1>0 DEF TypeOK
      <3> HIDE DEF e
      <3>3. QED
        BY <2>1, <3>1, <3>2 DEF Appended
    <2> HIDE DEF e, t
    <2>4. SInv'
      BY <1>0, <2>1, <2>2, <2>3, AppendShape
    <2>5. ASSUME KInv
          PROVE  KInv'
      BY <1>0, <1>2, <2>1, <2>2, <2>3, <2>5, AppendKeep DEF e
    <2>6. QED
      BY <2>1, <2>4, <2>5 DEF IInv
<1>3. QED
    BY <1>1, <1>2

\* A sync of the WAL, by a commit or at the end of a reset: every entry is
\* then on disk, and the generation before it gone.
LEMMA SyncedKeep ==
    ASSUME TypeOK, KInv, NEW c \in Conns, tx'[c] = NoTx, ckpt'[c] = NoCkpt,
           \A d \in Conns \ {c} : tx'[d] = tx[d] /\ ckpt'[d] = ckpt[d],
           synced' = Len(wal), old' = NoOld,
           acked' \subseteq acked \cup {wal[i].id : i \in 1 .. Len(wal)},
           UNCHANGED <<wal, gen, db, disk, hist, next>>
    PROVE  KInv'
<1>0. IsTail(wal)
    BY DEF KInv
<1>1. Before' = Before /\ \A n : StateAt(hist', n) = StateAt(hist, n)
    BY DEF Before, StateAt, Latest
<1>2. DiskOK'
    BY <1>1 DEF KInv, DiskOK, OnDisk
<1>3. AckedSynced'
    <2> SUFFICES ASSUME SyncPolicy = "PerCommit", NEW a \in acked'
                 PROVE  \E i \in 1 .. Before' + synced' : hist'[i].id = a
      BY DEF AckedSynced
    <2>1. \A i \in 1 .. Before + synced : i \in 1 .. Before + Len(wal)
      BY <1>0, Sizes, WalIsTail
    <2>2. \A i \in 1 .. Len(wal) : wal[i] = hist[Before + i] /\ Before + i \in 1 .. Before + Len(wal)
      BY <1>0, Sizes, WalIsTail
    <2>3. \E i \in 1 .. Before + Len(wal) : hist[i].id = a
      <3>1. CASE a \in acked
        BY <2>1, <3>1 DEF KInv, AckedSynced
      <3>2. CASE \E i \in 1 .. Len(wal) : a = wal[i].id
        BY <2>2, <3>2
      <3>3. QED
        BY <3>1, <3>2
    <2>4. QED
      BY <1>1, <2>3
<1>4. OldOK'
    BY NullTypes DEF OldOK
<1>5. ASSUME NEW d \in Conns
      PROVE  ResetOK(d)'
    <2>1. CASE d = c
      BY <2>1, Idle
    <2>2. CASE d # c
      BY <1>1, <2>2 DEF KInv, ResetOK
    <2>3. QED
      BY <2>1, <2>2
<1>6. QED
    BY <1>2, <1>3, <1>4, <1>5, Idle, KeepFrame

\* The same for SInv.
LEMMA SyncedShape ==
    ASSUME SInv, NEW c \in Conns, tx' \in [Conns -> TxSet], ckpt' \in [Conns -> CkptSet],
           tx'[c] = NoTx, ckpt'[c] = NoCkpt,
           \A d \in Conns \ {c} : tx'[d] = tx[d] /\ ckpt'[d] = ckpt[d],
           synced' = Len(wal), old' = NoOld,
           acked' \subseteq acked \cup {wal[i].id : i \in 1 .. Len(wal)}, seen' \subseteq seen,
           UNCHANGED <<open, wal, gen, db, disk, hist, next, intact, faults>>
    PROVE  SInv'
<1>0. TypeOK
    BY DEF SInv
<1>1. TypeOK'
    <2>1. acked' \subseteq 1 .. MaxCommits
      <3>1. \A i \in 1 .. Len(wal) : wal[i].id \in 1 .. MaxCommits
        BY <1>0, Sizes DEF Entries
      <3>2. acked \subseteq 1 .. MaxCommits
        BY <1>0 DEF TypeOK
      <3>3. QED
        BY <3>1, <3>2
    <2>2. synced' \in 0 .. Len(wal') /\ seen' \subseteq Conns
      BY <1>0, Sizes DEF TypeOK
    <2>3. old' \in OldSet
      BY NullTypes
    <2>4. QED
      BY <1>0, <2>1, <2>2, <2>3 DEF TypeOK, TxSet, CkptSet, OldSet, Views
<1>2. OldShape'
    BY NullTypes DEF OldShape
<1>3. QED
    BY <1>1, <1>2, Idle, ShapeFrame

LEMMA SyncWalStep ==
    ASSUME IInv, NEW c \in Conns, SyncWal(c)
    PROVE  IInv'
<1>0. SInv /\ TypeOK
    BY DEF IInv, SInv
<1>1. /\ tx[c].at = "syncing" /\ tx' = [tx EXCEPT ![c] = NoTx] /\ synced' = Len(wal) /\ old' = NoOld
      /\ acked' = acked \cup {wal[i].id : i \in 1 .. Len(wal)}
      /\ UNCHANGED <<open, wal, gen, db, disk, seen, ckpt, hist, next, intact, faults>>
    BY DEF SyncWal
<1>2. ckpt[c] = NoCkpt
    BY <1>0, <1>1, Own DEF TxShape
<1>3. tx \in [Conns -> TxSet] /\ ckpt \in [Conns -> CkptSet]
    BY <1>0, Types
<1>4. tx' \in [Conns -> TxSet] /\ tx'[c] = NoTx /\ \A d \in Conns \ {c} : tx'[d] = tx[d]
    BY <1>1, <1>3, NullTypes
<1>5. SInv'
    BY <1>0, <1>1, <1>2, <1>3, <1>4, SyncedShape
<1>6. KInv => KInv'
    BY <1>0, <1>1, <1>2, <1>4, SyncedKeep
<1>7. QED
    BY <1>1, <1>5, <1>6 DEF IInv

LEMMA ResetSyncStep ==
    ASSUME IInv, NEW c \in Conns, ResetSync(c)
    PROVE  IInv'
<1>0. SInv /\ TypeOK
    BY DEF IInv, SInv
<1>1. /\ ckpt[c].step = "header" /\ old' = NoOld /\ synced' = Len(wal)
      /\ ckpt' = [ckpt EXCEPT ![c] = NoCkpt] /\ seen' = seen \ {c}
      /\ UNCHANGED <<open, wal, gen, db, disk, tx, hist, next, acked, intact, faults>>
    BY DEF ResetSync, ghosts
<1>2. tx[c] = NoTx
    BY <1>0, <1>1, Own DEF CkptShape
<1>3. tx \in [Conns -> TxSet] /\ ckpt \in [Conns -> CkptSet]
    BY <1>0, Types
<1>4. ckpt' \in [Conns -> CkptSet] /\ ckpt'[c] = NoCkpt /\ \A d \in Conns \ {c} : ckpt'[d] = ckpt[d]
    BY <1>1, <1>3, NullTypes
<1>5. SInv'
    BY <1>0, <1>1, <1>2, <1>3, <1>4, SyncedShape
<1>6. KInv => KInv'
    BY <1>0, <1>1, <1>2, <1>4, SyncedKeep
<1>7. QED
    BY <1>1, <1>5, <1>6 DEF IInv

-----------------------------------------------------------------------------
(* Checkpoints *)

LEMMA CheckpointFailsStep ==
    ASSUME IInv, NEW c \in Conns, CheckpointFails(c)
    PROVE  IInv'
<1>0. SInv /\ TypeOK
    BY DEF IInv, SInv
<1>1. /\ ckpt[c].step # "none" /\ ckpt' = [ckpt EXCEPT ![c] = NoCkpt]
      /\ faults < MaxFaults /\ faults' = faults + 1
      /\ UNCHANGED <<open, wal, gen, synced, old, db, disk, tx, seen, hist, next, acked, intact>>
    BY DEF CheckpointFails, files, ghosts
<1>2. tx[c] = NoTx
    BY <1>0, <1>1, Own DEF CkptShape
<1>3. /\ tx \in [Conns -> TxSet] /\ ckpt \in [Conns -> CkptSet]
      /\ open \subseteq Conns /\ seen \subseteq Conns
    BY <1>0, Types
<1>4. ckpt' \in [Conns -> CkptSet] /\ ckpt'[c] = NoCkpt /\ \A d \in Conns \ {c} : ckpt'[d] = ckpt[d]
    BY <1>1, <1>3, NullTypes
<1>5. faults' \in 0 .. MaxFaults
    BY <1>0, <1>1 DEF TypeOK
<1>6. QED
    BY <1>1, <1>2, <1>3, <1>4, <1>5, IdleStep

\* A checkpoint that may reset starts alone, and one that starts beside it
\* plans at least as much.
LEMMA StartCheckpointStep ==
    ASSUME IInv, NEW c \in Conns, NEW m \in Modes, StartCheckpoint(c, m)
    PROVE  IInv'
<1> DEFINE todo == UNION {wal[i].pages : i \in 1 .. Len(wal)}
           k == [step |-> "write", mode |-> Effective(c, m), gen |-> gen,
                 upto |-> Len(wal), todo |-> todo]
<1>0. SInv /\ TypeOK
    BY DEF IInv, SInv
<1>1. /\ c \in open /\ tx[c] = NoTx /\ ckpt[c] = NoCkpt /\ seen' \subseteq seen \cup {c}
      /\ ckpt' = [ckpt EXCEPT ![c] = IF wal = <<>> THEN NoCkpt ELSE k]
      /\ UNCHANGED <<open, wal, gen, synced, old, db, disk, tx, hist, next, acked, intact, faults>>
    BY DEF StartCheckpoint, files, ghosts, Refreshed
<1>2. todo \subseteq Pages /\ \A p \in todo : Has(wal, Len(wal), p)
    BY <1>0, Sizes DEF Has, Entries
<1>3. \A p \in Pages \ todo : ~Has(wal, Len(wal), p)
    BY DEF Has
<1> HIDE DEF todo
<1>4. Effective(c, m) \in {"passive", "full", "restart", "truncate"}
    BY DEF Effective
<1>5. /\ k \in CkptSet /\ k.step = "write" /\ k.mode = Effective(c, m) /\ k.gen = gen
      /\ k.upto = Len(wal) /\ k.todo = todo
    BY <1>0, <1>2, <1>4, Sizes DEF CkptSet, TypeOK
<1> HIDE DEF k
<1>6. /\ tx \in [Conns -> TxSet] /\ ckpt \in [Conns -> CkptSet] /\ open \subseteq Conns
      /\ seen' \subseteq Conns /\ faults \in 0 .. MaxFaults
    BY <1>0, <1>1, Types
<1>7. CASE wal = <<>>
    <2>1. ckpt' = ckpt /\ ckpt'[c] = NoCkpt
      BY <1>1, <1>6, <1>7
    <2>2. QED
      BY <1>1, <1>6, <2>1, IdleStep
<1>8. CASE wal # <<>>
    <2>1. /\ ckpt' \in [Conns -> CkptSet] /\ ckpt'[c] = k
          /\ \A d \in Conns \ {c} : ckpt'[d] = ckpt[d]
      BY <1>1, <1>5, <1>6, <1>8
    <2>2. ASSUME Resets(k.mode), NEW d \in Conns \ {c}
          PROVE  ckpt[d] = NoCkpt /\ ~Resets(ckpt[d].mode) /\ ckpt[d].step = "none"
      <3>1. d \notin open
        BY <1>5, <2>2 DEF Effective, Resets
      <3>2. ckpt[d] = NoCkpt
        BY <1>0, <3>1, Own DEF CkptShape
      <3>3. QED
        BY <3>2, NullTypes DEF Resets
    <2>3. SInv'
      <3>1. TypeOK'
        BY <1>0, <1>1, <1>6, <2>1 DEF TypeOK, CkptSet
      <3>2. OldShape' /\ TxShape(c)'
        <4>1. OldShape'
          BY <1>0, <1>1 DEF SInv, OldShape
        <4>2. TxShape(c)'
          BY <1>1, NullTypes DEF TxShape
        <4>3. QED
          BY <4>1, <4>2
      <3>3. CkptShape(c)'
        <4>1. k # NoCkpt /\ k.step \notin {"none", "fsync", "reset", "header"}
          BY <1>5, NullTypes
        <4>2. k.gen <= gen' /\ k.upto <= Len(wal')
          BY <1>0, <1>1, <1>5, Sizes DEF TypeOK
        <4>3. \A p \in k.todo : Has(wal', k.upto, p)
          BY <1>1, <1>2, <1>5 DEF Has
        <4>4. c \in open' /\ tx'[c] = NoTx
          BY <1>1
        <4>5. QED
          BY <2>1, <4>1, <4>2, <4>3, <4>4 DEF CkptShape
      <3>4. ResetShape(c)'
        <4> SUFFICES ASSUME Resets(k.mode)
                     PROVE  ResetShape(c)'
          BY <2>1 DEF ResetShape
        <4>1. \A d \in Conns \ {c} : ~Resets(ckpt'[d].mode) /\ ckpt'[d].step # "write"
          BY <2>1, <2>2
        <4>2. ckpt'[c].gen = gen' /\ ckpt'[c].upto <= Len(wal')
          BY <1>0, <1>1, <1>5, <2>1, Sizes
        <4>3. QED
          BY <4>1, <4>2 DEF ResetShape
      <3>5. ASSUME NEW d \in Conns \ {c}, Resets(ckpt[d].mode)
            PROVE  /\ ~Resets(ckpt'[c].mode)
                   /\ ckpt[d].step # "header" => ckpt[d].upto <= ckpt'[c].upto
        <4>1. ~Resets(k.mode)
          BY <2>2, <3>5
        <4>2. ckpt[d].step # "header" => ckpt[d].upto <= Len(wal)
          <5>1. ckpt[d].step # "none"
            BY <1>0, <3>5, NullTypes, Own DEF CkptShape, Resets
          <5>2. ckpt[d].step \in {"none", "write", "fsync", "reset", "header"}
            BY <1>6 DEF CkptSet
          <5>3. QED
            BY <1>0, <3>5, <5>1, <5>2, Own DEF ResetShape
        <4>3. QED
          BY <1>5, <2>1, <4>1, <4>2
      <3>6. QED
        BY <1>0, <1>1, <2>1, <3>1, <3>2, <3>3, <3>4, <3>5, ShapeFrame
    <2>4. ASSUME KInv
          PROVE  KInv'
      <3>1. TxView(c)'
        BY <1>1, NullTypes DEF TxView
      <3>2. ASSUME NEW p \in Pages \ todo
            PROVE  db[p] = StateAt(hist, Len(hist))[p]
        <4>1. ~Has(wal, Len(wal), p) /\ Len(wal) \in Nat
          BY <1>0, <1>3, Sizes
        <4>2. Latest(wal, Len(wal), db, p) = db[p]
          BY <4>1, LatestBase
        <4>3. QED
          BY <1>0, <2>4, <4>2, ContentIs DEF Content
      <3>3. StateAt(hist', Len(hist')) = StateAt(hist, Len(hist))
        BY <1>1 DEF StateAt, Latest
      <3>4. ResetOK(c)'
        BY <1>1, <1>5, <2>1, <3>2, <3>3 DEF ResetOK
      <3>5. QED
        BY <1>1, <2>1, <2>4, <3>1, <3>4, FilesFrame
    <2>5. QED
      BY <1>1, <2>3, <2>4 DEF IInv
<1>9. QED
    BY <1>7, <1>8

\* A nonempty set of page numbers has a least element.
LEMMA MinExists ==
    ASSUME NEW S \in SUBSET Nat, S # {}
    PROVE  Min(S) \in S
<1> DEFINE R == OpToRel(<, Nat)
<1>1. \A x, y \in Nat : <<x, y>> \in R <=> x < y
    BY DEF OpToRel
<1>2. IsWellFoundedOn(R, Nat)
    BY NatLessThanWellFounded, Zenon
<1> HIDE DEF R
<1>3. PICK x \in S : \A y \in S : ~(<<y, x>> \in R)
    BY <1>2, WFMin
<1>4. ASSUME NEW y \in S
      PROVE  x <= y
    <2>1. x \in Nat /\ y \in Nat /\ ~(y < x)
      BY <1>1, <1>3
    <2>2. QED
      BY <2>1
<1>5. QED
    BY <1>4 DEF Min

\* One page copied, its shape: of this generation or a stale one.
LEMMA WriteShape ==
    ASSUME SInv, NEW c \in Conns, ckpt[c].step = "write", NEW p \in Pages, NEW v \in 0 .. MaxCommits,
           db' = [db EXCEPT ![p] = v], disk' = [disk EXCEPT ![p] = @ \cup {v}],
           ckpt' = [ckpt EXCEPT ![c].todo = @ \ {p}], intact' \in BOOLEAN,
           UNCHANGED <<open, wal, gen, synced, old, tx, seen, hist, next, acked, faults>>
    PROVE  SInv'
<1> DEFINE k == [ckpt[c] EXCEPT !.todo = @ \ {p}]
<1>0. TypeOK /\ ckpt[c] \in CkptSet
    BY Own
<1>1. /\ k \in CkptSet /\ k.step = "write" /\ k.mode = ckpt[c].mode /\ k.gen = ckpt[c].gen
      /\ k.upto = ckpt[c].upto /\ k.todo = ckpt[c].todo \ {p}
    BY <1>0 DEF CkptSet
<1>2. ckpt' = [ckpt EXCEPT ![c] = k]
    OBVIOUS
<1> HIDE DEF k
<1>3. ckpt' \in [Conns -> CkptSet] /\ ckpt'[c] = k /\ \A d \in Conns \ {c} : ckpt'[d] = ckpt[d]
    BY <1>0, <1>1, <1>2, Types
<1>4. TypeOK'
    <2>1. db' \in [Pages -> 0 .. MaxCommits] /\ disk' \in [Pages -> SUBSET (0 .. MaxCommits)]
      BY <1>0 DEF TypeOK
    <2>2. QED
      BY <1>0, <1>3, <2>1 DEF TypeOK, CkptSet
<1>5. OldShape'
    BY DEF SInv, OldShape
<1>6. tx[c] = NoTx /\ c \in open /\ CkptShape(c) /\ ResetShape(c)
    BY Own DEF CkptShape
<1>7. TxShape(c)'
    BY <1>6, NullTypes DEF TxShape
<1>8. CkptShape(c)'
    <2>1. k # NoCkpt
      BY <1>1, NullTypes
    <2>2. \A n, q : Has(wal', n, q) <=> Has(wal, n, q)
      BY DEF Has
    <2>3. QED
      BY <1>1, <1>3, <1>6, <2>1, <2>2 DEF CkptShape
<1>9. ResetShape(c)'
    BY <1>1, <1>3, <1>6 DEF ResetShape
<1>10. ASSUME NEW d \in Conns \ {c}, Resets(ckpt[d].mode)
       PROVE  /\ ~Resets(ckpt'[c].mode)
              /\ ckpt[d].step # "header" /\ ckpt'[c].step = "write" /\ ckpt'[c].gen = gen
                    => ckpt[d].upto <= ckpt'[c].upto
    <2>1. ResetShape(d) /\ CkptShape(d) /\ ckpt[d] \in CkptSet
      BY Own
    <2>2. ckpt[d].step # "none"
      BY <1>10, <2>1, NullTypes DEF CkptShape, Resets
    <2>3. ckpt[d].step \in {"none", "write", "fsync", "reset", "header"}
      BY <2>1 DEF CkptSet
    <2>4. QED
      BY <1>1, <1>3, <1>10, <2>1, <2>2, <2>3 DEF ResetShape
<1>11. QED
    BY <1>3, <1>4, <1>5, <1>7, <1>8, <1>9, <1>10, ShapeFrame

LEMMA StaleWriteStep ==
    ASSUME IInv, NEW c \in Conns, StaleWrite(c)
    PROVE  IInv'
<1> DEFINE q == Min(ckpt[c].todo)
<1>0. SInv /\ TypeOK
    BY DEF IInv, SInv
<1>1. PICK v \in 1 .. next - 1 :
         /\ ckpt[c].step = "write" /\ ckpt[c].todo # {}
         /\ db' = [db EXCEPT ![q] = v] /\ disk' = [disk EXCEPT ![q] = @ \cup {v}]
         /\ ckpt' = [ckpt EXCEPT ![c].todo = @ \ {q}] /\ intact' = FALSE
         /\ UNCHANGED <<open, wal, gen, synced, old, tx, seen, hist, next, acked, faults>>
    BY DEF StaleWrite
<1>2. q \in Pages
    <2>1. ckpt[c].todo \subseteq Pages
      BY <1>0, Own
    <2>2. QED
      BY <1>1, <2>1, MinExists
<1> HIDE DEF q
<1>3. v \in 0 .. MaxCommits /\ intact' \in BOOLEAN
    <2>1. next \in 1 .. MaxCommits + 1
      BY <1>0 DEF TypeOK
    <2>2. v \in 0 .. MaxCommits
      BY <2>1
    <2>3. QED
      BY <1>1, <2>2
<1>4. SInv'
    BY <1>0, <1>1, <1>2, <1>3, WriteShape
<1>5. QED
    BY <1>1, <1>4 DEF IInv

\* One page of the back-fill.  Beside a checkpoint that will reset, and that
\* nothing was committed after, the page can only be the newest.
LEMMA WritePageStep ==
    ASSUME IInv, NEW c \in Conns, WritePage(c)
    PROVE  IInv'
<1> DEFINE q == Min(ckpt[c].todo)
           u == Latest(wal, ckpt[c].upto, db, q)
<1>0. SInv /\ TypeOK
    BY DEF IInv, SInv
<1>1. /\ ckpt[c].step = "write" /\ ckpt[c].todo # {} /\ ckpt[c].gen = gen
      /\ db' = [db EXCEPT ![q] = u] /\ disk' = [disk EXCEPT ![q] = @ \cup {u}]
      /\ ckpt' = [ckpt EXCEPT ![c].todo = @ \ {q}]
      /\ UNCHANGED <<open, wal, gen, synced, old, tx, seen, hist, next, acked, intact, faults>>
    BY DEF WritePage, ghosts
<1>2. /\ CkptShape(c) /\ ckpt[c] \in CkptSet /\ ckpt[c].todo \subseteq Pages /\ ckpt[c].upto \in Nat
      /\ Len(wal) \in Nat
    BY <1>0, Own, Sizes
<1>3. PICK p \in Pages : p = q /\ p \in ckpt[c].todo
    BY <1>1, <1>2, MinExists
<1>4. PICK v : v = u
    OBVIOUS
<1>5. v = Latest(wal, ckpt[c].upto, db, p)
    BY <1>3, <1>4
<1> HIDE DEF q, u
<1>6. /\ ckpt[c].upto <= Len(wal) /\ Has(wal, ckpt[c].upto, p) /\ tx[c] = NoTx
    BY <1>1, <1>2, <1>3 DEF CkptShape
<1>7. PICK i \in 1 .. Len(wal) : p \in wal[i].pages /\ v = wal[i].id
    <2>1. IsLatest(wal, ckpt[c].upto, db, p, v)
      BY <1>2, <1>5, LatestIs
    <2>2. PICK i \in 1 .. ckpt[c].upto : p \in wal[i].pages /\ v = wal[i].id
      BY <1>6, <2>1 DEF IsLatest
    <2>3. i \in 1 .. Len(wal)
      BY <1>2, <1>6, <2>2
    <2>4. QED
      BY <2>2, <2>3
<1>8. v \in 0 .. MaxCommits
    BY <1>0, <1>7, Sizes DEF Entries
<1>9. /\ db' = [db EXCEPT ![p] = v] /\ disk' = [disk EXCEPT ![p] = @ \cup {v}]
      /\ ckpt' = [ckpt EXCEPT ![c].todo = @ \ {p}] /\ intact' \in BOOLEAN
    BY <1>0, <1>1, <1>3, <1>4 DEF TypeOK
<1>10. SInv'
    BY <1>0, <1>1, <1>8, <1>9, WriteShape, ZenonT(60)
<1>11. /\ db'[p] = v /\ disk'[p] = disk[p] \cup {v}
       /\ \A o \in Pages \ {p} : db'[o] = db[o] /\ disk'[o] = disk[o]
    BY <1>0, <1>9 DEF TypeOK
<1>12. /\ ckpt'[c].mode = ckpt[c].mode /\ ckpt'[c].step = "write" /\ ckpt'[c].upto = ckpt[c].upto
       /\ ckpt'[c].todo = ckpt[c].todo \ {p}
       /\ \A d \in Conns \ {c} : ckpt'[d] = ckpt[d]
    <2>1. ckpt' = [ckpt EXCEPT ![c] = [ckpt[c] EXCEPT !.todo = @ \ {p}]] /\ ckpt \in [Conns -> CkptSet]
      BY <1>0, <1>9, Types
    <2>2. /\ ckpt'[c] = [ckpt[c] EXCEPT !.todo = @ \ {p}]
          /\ \A d \in Conns \ {c} : ckpt'[d] = ckpt[d]
      BY <2>1
    <2>3. QED
      BY <1>1, <1>2, <2>2 DEF CkptSet
<1>13. ASSUME KInv
       PROVE  KInv'
    <2>1. Before' = Before /\ \A n : StateAt(hist', n) = StateAt(hist, n)
      BY <1>1 DEF Before, StateAt, Latest
    <2>2. DiskOK'
      <3>1. \A o, x : OnDisk(o, x)' <=> OnDisk(o, x)
        BY <1>1, <2>1 DEF OnDisk
      <3>2. OnDisk(p, v)
        BY <1>7 DEF OnDisk
      <3>3. ASSUME NEW o \in Pages
            PROVE  db'[o] \in disk'[o] /\ \A x \in disk'[o] : OnDisk(o, x)
        BY <1>11, <1>13, <3>2 DEF KInv, DiskOK
      <3>4. QED
        BY <3>1, <3>3 DEF DiskOK
    <2>3. AckedSynced' /\ OldOK'
      BY <1>1, <1>13, <2>1 DEF KInv, AckedSynced, OldOK
    <2>4. TxView(c)'
      BY <1>1, <1>6, NullTypes DEF TxView
    <2>5. ckpt[c].upto = Len(wal) => v = StateAt(hist, Len(hist))[p]
      BY <1>0, <1>5, <1>13, ContentIs DEF Content
    <2>6. ASSUME NEW d \in Conns, Resets(ckpt[d].mode), ckpt[d].upto = Len(wal),
                 ckpt[d].step \in {"write", "fsync", "reset"}
          PROVE  v = StateAt(hist, Len(hist))[p]
      <3>1. CASE d = c
        BY <2>5, <2>6, <3>1
      <3>2. CASE d # c
        <4>1. ckpt[d].upto <= ckpt[c].upto
          BY <1>0, <1>1, <2>6, <3>2, Own DEF ResetShape
        <4>2. ckpt[c].upto = Len(wal)
          BY <1>2, <1>6, <2>6, <4>1
        <4>3. QED
          BY <2>5, <4>2
      <3>3. QED
        BY <3>1, <3>2
    <2>7. ASSUME NEW d \in Conns
          PROVE  ResetOK(d)'
      <3> DEFINE k == ckpt'[d]
      <3>0. ResetOK(d)
        BY <1>13 DEF KInv
      <3>1. /\ k.mode = ckpt[d].mode /\ k.step = ckpt[d].step /\ k.upto = ckpt[d].upto
            /\ d = c => k.todo = ckpt[d].todo \ {p} /\ k.step = "write"
            /\ d # c => k.todo = ckpt[d].todo
        BY <1>1, <1>12
      <3> HIDE DEF k
      <3> SUFFICES ASSUME Resets(ckpt[d].mode), ckpt[d].upto = Len(wal)
                   PROVE  /\ k.step = "write" =>
                                \A o \in Pages \ k.todo : db'[o] = StateAt(hist, Len(hist))[o]
                          /\ k.step \in {"fsync", "reset"} =>
                                \A o \in Pages : disk'[o] = {db'[o]} /\ db'[o] = StateAt(hist, Len(hist))[o]
        BY <1>1, <2>1, <3>1 DEF ResetOK, k
      <3>2. ASSUME k.step = "write", NEW o \in Pages \ k.todo
            PROVE  db'[o] = StateAt(hist, Len(hist))[o]
        <4>1. CASE o = p
          BY <1>11, <2>6, <3>1, <3>2, <4>1
        <4>2. CASE o # p
          BY <1>11, <3>0, <3>1, <3>2, <4>2 DEF ResetOK
        <4>3. QED
          BY <4>1, <4>2
      <3>3. ASSUME k.step \in {"fsync", "reset"}, NEW o \in Pages
            PROVE  disk'[o] = {db'[o]} /\ db'[o] = StateAt(hist, Len(hist))[o]
        <4>1. disk[o] = {db[o]} /\ db[o] = StateAt(hist, Len(hist))[o]
          BY <3>0, <3>1, <3>3 DEF ResetOK
        <4>2. CASE o = p
          <5>1. v = db[o]
            BY <2>6, <3>1, <3>3, <4>1, <4>2
          <5>2. QED
            BY <1>11, <4>1, <4>2, <5>1
        <4>3. CASE o # p
          BY <1>11, <4>1, <4>3
        <4>4. QED
          BY <4>2, <4>3
      <3>4. QED
        BY <3>2, <3>3
    <2>8. QED
      BY <1>1, <1>13, <2>2, <2>3, <2>4, <2>7, KeepFrame
<1>14. QED
    BY <1>1, <1>10, <1>13 DEF IInv

\* The sync of the database file: a resetting checkpoint that has back-filled
\* everything has then all of the history on disk.
LEMMA SyncDbStep ==
    ASSUME IInv, NEW c \in Conns, SyncDb(c)
    PROVE  IInv'
<1> DEFINE s == IF ckpt[c].mode = "truncate" /\ ckpt[c].step = "write" THEN "fsync" ELSE "reset"
           k == IF ~Resets(ckpt[c].mode) THEN NoCkpt ELSE [ckpt[c] EXCEPT !.step = s]
<1>0. SInv /\ TypeOK
    BY DEF IInv, SInv
<1>1. /\ ckpt[c].step = "fsync" \/ (ckpt[c].step = "write" /\ ckpt[c].todo = {})
      /\ disk' = [p \in Pages |-> {db[p]}] /\ ckpt' = [ckpt EXCEPT ![c] = k]
      /\ UNCHANGED <<open, wal, gen, synced, old, db, tx, seen, hist, next, acked, intact, faults>>
    BY DEF SyncDb, ghosts
<1>2. /\ CkptShape(c) /\ ResetShape(c) /\ ckpt[c] \in CkptSet /\ tx[c] = NoTx /\ c \in open
      /\ tx'[c] = NoTx /\ tx \in [Conns -> TxSet]
    <2>1. CkptShape(c) /\ ResetShape(c) /\ ckpt[c] \in CkptSet /\ tx \in [Conns -> TxSet]
      BY <1>0, Own, Types
    <2>2. QED
      BY <1>1, <2>1 DEF CkptShape
<1>3. s \in {"fsync", "reset"}
    OBVIOUS
<1> HIDE DEF s
<1>4. /\ k \in CkptSet
      /\ Resets(ckpt[c].mode) => /\ k.step \in {"fsync", "reset"} /\ k.mode = ckpt[c].mode /\ k # NoCkpt
                                 /\ k.gen = ckpt[c].gen /\ k.upto = ckpt[c].upto
      /\ ~Resets(ckpt[c].mode) => k = NoCkpt
    <2>1. CASE ~Resets(ckpt[c].mode)
      BY <2>1, NullTypes
    <2>2. CASE Resets(ckpt[c].mode)
      <3>1. /\ k \in CkptSet /\ k.step = s /\ k.mode = ckpt[c].mode
            /\ k.gen = ckpt[c].gen /\ k.upto = ckpt[c].upto
        BY <1>2, <1>3, <2>2 DEF CkptSet
      <3>2. QED
        BY <1>3, <2>2, <3>1, NullTypes
    <2>3. QED
      BY <2>1, <2>2
<1> HIDE DEF k
<1>5. ckpt' \in [Conns -> CkptSet] /\ ckpt'[c] = k /\ \A d \in Conns \ {c} : ckpt'[d] = ckpt[d]
    BY <1>0, <1>1, <1>4, Types
<1>6. disk' \in [Pages -> SUBSET (0 .. MaxCommits)] /\ \A p \in Pages : disk'[p] = {db[p]}
    BY <1>0, <1>1 DEF TypeOK
<1>7. SInv'
    <2>1. TypeOK'
      BY <1>0, <1>1, <1>5, <1>6 DEF TypeOK, CkptSet
    <2>2. OldShape'
      BY <1>0, <1>1 DEF SInv, OldShape
    <2>3. CASE ~Resets(ckpt[c].mode)
      BY <1>0, <1>1, <1>2, <1>4, <1>5, <2>1, <2>2, <2>3, Idle, ShapeFrame
    <2>4. CASE Resets(ckpt[c].mode)
      <3>1. /\ k.step \in {"fsync", "reset"} /\ k.mode = ckpt[c].mode /\ k # NoCkpt
            /\ k.gen = ckpt[c].gen /\ k.upto = ckpt[c].upto
        BY <1>4, <2>4
      <3>2. TxShape(c)' /\ CkptShape(c)'
        BY <1>1, <1>2, <1>5, <2>4, <3>1, NullTypes DEF TxShape, CkptShape
      <3>3. ResetShape(c)'
        BY <1>1, <1>2, <1>5, <2>4, <3>1 DEF ResetShape
      <3>4. \A d \in Conns \ {c} : ~Resets(ckpt[d].mode)
        BY <1>2, <2>4 DEF ResetShape
      <3>5. QED
        BY <1>0, <1>1, <1>5, <2>1, <2>2, <3>2, <3>3, <3>4, ShapeFrame
    <2>5. QED
      BY <2>3, <2>4
<1>8. ASSUME KInv
      PROVE  KInv'
    <2>1. Before' = Before /\ \A n : StateAt(hist', n) = StateAt(hist, n)
      BY <1>1 DEF Before, StateAt, Latest
    <2>2. DiskOK'
      <3>1. \A o, x : OnDisk(o, x)' <=> OnDisk(o, x)
        BY <1>1, <2>1 DEF OnDisk
      <3>2. QED
        BY <1>1, <1>6, <1>8, <3>1 DEF KInv, DiskOK
    <2>3. AckedSynced' /\ OldOK'
      BY <1>1, <1>8, <2>1 DEF KInv, AckedSynced, OldOK
    <2>4. TxView(c)'
      BY <1>2, NullTypes DEF TxView
    <2>5. ASSUME NEW d \in Conns
          PROVE  ResetOK(d)'
      <3>0. ResetOK(d)
        BY <1>8 DEF KInv
      <3>1. CASE d # c
        BY <1>1, <1>5, <1>6, <2>1, <3>0, <3>1 DEF ResetOK
      <3>2. CASE d = c /\ ~Resets(ckpt[c].mode)
        BY <1>2, <1>4, <1>5, <3>2, Idle
      <3>3. CASE d = c /\ Resets(ckpt[c].mode)
        <4>1. /\ k.step \in {"fsync", "reset"} /\ k.mode = ckpt[c].mode /\ k.upto = ckpt[c].upto
          BY <1>4, <3>3
        <4>2. ckpt[c].upto = Len(wal) => \A o \in Pages : db[o] = StateAt(hist, Len(hist))[o]
          BY <1>1, <3>0, <3>3 DEF ResetOK
        <4>3. QED
          BY <1>1, <1>5, <1>6, <2>1, <3>3, <4>1, <4>2 DEF ResetOK
      <3>4. QED
        BY <3>1, <3>2, <3>3
    <2>6. QED
      BY <1>1, <1>8, <2>2, <2>3, <2>4, <2>5, KeepFrame
<1>9. QED
    BY <1>1, <1>7, <1>8 DEF IInv

\* A reset empties the WAL.  Unless a commit was made since the plan, all of
\* the history is then in the database file.
LEMMA ResetHeaderStep ==
    ASSUME IInv, NEW c \in Conns, ResetHeader(c)
    PROVE  IInv'
<1> DEFINE k == [ckpt[c] EXCEPT !.step = "header"]
           o == [there |-> TRUE, wal |-> wal, synced |-> synced,
                 cut |-> (ckpt[c].mode = "truncate")]
<1>0. SInv /\ TypeOK
    BY DEF IInv, SInv
<1>1. /\ ckpt[c].step = "reset" /\ old' = o /\ wal' = <<>> /\ gen' = gen + 1 /\ synced' = 0
      /\ ckpt' = [ckpt EXCEPT ![c] = k]
      /\ UNCHANGED <<open, db, disk, tx, seen, hist, next, acked, faults>>
    BY DEF ResetHeader
<1>2. CkptShape(c) /\ ResetShape(c) /\ ckpt[c] \in CkptSet
    BY <1>0, Own
<1>3. k \in CkptSet /\ k.step = "header" /\ k.mode = ckpt[c].mode /\ k # NoCkpt
    <2>1. k \in CkptSet /\ k.step = "header" /\ k.mode = ckpt[c].mode
      BY <1>2 DEF CkptSet
    <2>2. QED
      BY <2>1, NullTypes
<1>4. o \in OldSet /\ o.wal = wal
    <2>1. PICK b \in BOOLEAN : b = (ckpt[c].mode = "truncate")
      BY Zenon
    <2>2. wal \in Seq(Entries) /\ synced \in Nat
      BY <1>0, Sizes DEF TypeOK
    <2>3. o = [there |-> TRUE, wal |-> wal, synced |-> synced, cut |-> b]
      BY <2>1, Zenon
    <2>4. QED
      BY <2>2, <2>3 DEF OldSet
<1> HIDE DEF k, o
<1>5. tx[c] = NoTx /\ c \in open /\ Resets(ckpt[c].mode)
    BY <1>1, <1>2 DEF CkptShape
<1>6. ckpt' \in [Conns -> CkptSet] /\ ckpt'[c] = k /\ \A d \in Conns \ {c} : ckpt'[d] = ckpt[d]
    BY <1>0, <1>1, <1>3, Types
<1>7. Len(wal') = 0 /\ wal' \in Seq(Entries) /\ gen \in Nat /\ gen' \in Nat /\ gen' > 0 /\ gen < gen'
    BY <1>0, <1>1, EmptySeq DEF TypeOK
<1>8. intact' \in BOOLEAN /\ (intact' => intact /\ Discardable(c))
    <2>1. intact' = (intact /\ Discardable(c))
      BY DEF ResetHeader
    <2>2. QED
      BY <2>1, Zenon
<1>9. SInv'
    <2>1. TypeOK'
      <3>1. synced' \in 0 .. Len(wal') /\ old' \in OldSet
        BY <1>1, <1>4, <1>7
      <3>2. QED
        BY <1>0, <1>1, <1>6, <1>7, <1>8, <3>1 DEF TypeOK, CkptSet, OldSet
    <2>2. OldShape'
      BY <1>1, <1>7 DEF OldShape
    <2>3. ASSUME NEW d \in Conns
          PROVE  TxShape(d)' /\ CkptShape(d)' /\ ResetShape(d)'
      <3>1. TxShape(d) /\ CkptShape(d) /\ ResetShape(d) /\ tx[d].gen \in Nat /\ ckpt[d].gen \in Nat
        BY <1>0, Own
      <3>2. TxShape(d)'
        <4>1. tx'[d] = tx[d] /\ (tx[d].at # "none" => d # c)
          BY <1>1, <1>5, NullTypes
        <4>2. tx[d].at = "active" => tx[d].gen <= gen' /\ tx[d].gen # gen'
          BY <1>7, <3>1 DEF TxShape
        <4>3. tx[d].at # "none" => d \in open' /\ ckpt'[d] = NoCkpt
          BY <1>1, <1>6, <3>1, <4>1 DEF TxShape
        <4>4. QED
          BY <3>1, <4>1, <4>2, <4>3 DEF TxShape
      <3>3. CASE d = c
        <4>1. CkptShape(c)'
          BY <1>1, <1>3, <1>5, <1>6 DEF CkptShape
        <4>2. ResetShape(c)'
          BY <1>2, <1>3, <1>5, <1>6 DEF ResetShape
        <4>3. QED
          BY <3>2, <3>3, <4>1, <4>2
      <3>4. CASE d # c
        <4>1. ckpt'[d] = ckpt[d] /\ ~Resets(ckpt[d].mode)
          BY <1>2, <1>5, <1>6, <3>4 DEF ResetShape
        <4>2. ckpt[d].step = "write" => ckpt[d].gen <= gen' /\ ckpt[d].gen # gen'
          BY <1>7, <3>1 DEF CkptShape
        <4>3. CkptShape(d)'
          BY <1>1, <3>1, <4>1, <4>2 DEF CkptShape
        <4>4. ResetShape(d)'
          BY <4>1 DEF ResetShape
        <4>5. QED
          BY <3>2, <4>3, <4>4
      <3>5. QED
        BY <3>3, <3>4
    <2>4. QED
      BY <2>1, <2>2, <2>3 DEF SInv
<1>10. ASSUME KInv, Discardable(c)
       PROVE  KInv'
    <2>0. IsTail(wal) /\ Len(wal) \in Nat /\ Len(hist) \in Nat
      BY <1>0, <1>10, Sizes DEF KInv
    <2>1. \A p \in Pages : disk[p] = {db[p]} /\ db[p] = StateAt(hist, Len(hist))[p]
      BY <1>1, <1>5, <1>10 DEF KInv, ResetOK, Discardable
    <2>2. Before' = Len(hist) /\ \A n : StateAt(hist', n) = StateAt(hist, n)
      <3>1. Before' = Len(hist)
        BY <1>1, <1>7, <2>0 DEF Before
      <3>2. QED
        BY <1>1, <3>1 DEF StateAt, Latest
    <2>3. IsTail(wal)' /\ Ordered'
      <3>1. IsTail(wal)'
        BY <1>1, <1>7, <2>0 DEF IsTail
      <3>2. Ordered'
        BY <1>1, <1>10 DEF KInv, Ordered
      <3>3. QED
        BY <3>1, <3>2
    <2>4. DiskOK'
      <3>1. ASSUME NEW p \in Pages
            PROVE  /\ disk'[p] = {db'[p]}
                   /\ db'[p] = StateAt(hist', Before')[p]
        <4>1. disk'[p] = disk[p] /\ db'[p] = db[p]
          BY <1>1
        <4>2. StateAt(hist', Before')[p] = StateAt(hist, Len(hist))[p]
          BY <2>2
        <4>3. QED
          BY <2>1, <4>1, <4>2
      <3>2. ASSUME NEW p \in Pages
            PROVE  db'[p] \in disk'[p] /\ \A v \in disk'[p] : OnDisk(p, v)'
        BY <3>1 DEF OnDisk
      <3>3. QED
        BY <3>2 DEF DiskOK
    <2>5. AckedSynced'
      <3>1. Before' + synced' = Len(hist)
        BY <1>1, <2>0, <2>2
      <3>2. \A i \in 1 .. Before + synced : i \in 1 .. Len(hist)
        BY <1>0, <2>0, Sizes, WalIsTail
      <3>3. QED
        BY <1>1, <1>10, <3>1, <3>2 DEF KInv, AckedSynced
    <2>6. ASSUME NEW d \in Conns
          PROVE  TxView(d)' /\ ResetOK(d)'
      <3>1. TxView(d)'
        <4>1. tx'[d] = tx[d] /\ TxShape(d) /\ tx[d].gen \in Nat
          BY <1>0, <1>1, Own
        <4>2. tx[d].at = "active" => tx[d].gen # gen'
          BY <1>7, <4>1 DEF TxShape
        <4>3. QED
          BY <4>1, <4>2 DEF TxView
      <3>2. ResetOK(d)'
        <4>1. CASE d = c
          BY <1>3, <1>6, <4>1 DEF ResetOK
        <4>2. CASE d # c
          BY <1>2, <1>5, <1>6, <4>2 DEF ResetShape, ResetOK
        <4>3. QED
          BY <4>1, <4>2
      <3>3. QED
        BY <3>1, <3>2
    <2>7. OldOK'
      BY <1>1, <1>4, <2>0, <2>2 DEF OldOK, IsTail
    <2>8. Updates'
      <3>1. Updates /\ hist' = hist
        BY <1>1, <1>10 DEF KInv
      <3>2. ASSUME NEW j \in 1 .. Len(hist), NEW p \in hist[j].pages
            PROVE  hist'[j].base[p] = StateAt(hist', j - 1)[p]
        <4>1. hist[j].base[p] = StateAt(hist, j - 1)[p]
          BY <3>1 DEF Updates
        <4>2. StateAt(hist', j - 1) = StateAt(hist, j - 1)
          BY <2>2
        <4>3. QED
          BY <3>1, <4>1, <4>2
      <3>3. QED
        BY <3>1, <3>2 DEF Updates
    <2>9. QED
      BY <2>3, <2>4, <2>5, <2>6, <2>7, <2>8 DEF KInv
<1>11. QED
    BY <1>8, <1>9, <1>10 DEF IInv

-----------------------------------------------------------------------------
(* Power loss *)

\* The history that explains the files after a power loss is unique.
LEMMA OneFits ==
    ASSUME hist \in Seq(Entries), Ordered, NEW m \in 0 .. Len(hist), NEW now,
           now = StateAt(hist, m)
    PROVE  LET fits == {n \in 0 .. Len(hist) : now = StateAt(hist, n)}
           IN  fits # {} /\ Max(fits) = m
<1> DEFINE fits == {n \in 0 .. Len(hist) : now = StateAt(hist, n)}
<1>1. ASSUME NEW n \in 0 .. Len(hist), now = StateAt(hist, n)
      PROVE  n = m
    <2>1. n \in Nat /\ m \in Nat /\ n <= Len(hist) /\ m <= Len(hist)
      OBVIOUS
    <2>2. ~(n < m)
      BY <1>1, <2>1, StatesDiffer
    <2>3. ~(m < n)
      BY <1>1, <2>1, StatesDiffer
    <2>4. QED
      BY <2>1, <2>2, <2>3
<1>2. fits = {m}
    BY <1>1
<1> HIDE DEF fits
<1>3. \E x \in fits : \A y \in fits : x >= y
    BY <1>2
<1>4. Max(fits) \in fits
    BY <1>3 DEF Max
<1>5. QED
    BY <1>2, <1>4, Zenon DEF fits

\* The first m entries of a sequence.
LEMMA PrefixIs ==
    ASSUME NEW S, NEW s \in Seq(S), NEW m \in Nat, m <= Len(s)
    PROVE  /\ SubSeq(s, 1, m) \in Seq(S) /\ Len(SubSeq(s, 1, m)) = m
           /\ \A i \in 1 .. m : SubSeq(s, 1, m)[i] = s[i] /\ i \in 1 .. Len(s)
<1>1. Len(s) \in Nat /\ \A i \in 1 .. m : i \in 1 .. Len(s) /\ s[i] \in S
    OBVIOUS
<1>2. SubSeq(s, 1, m) = [i \in 1 .. m |-> s[i]]
    BY <1>1
<1>3. [i \in 1 .. m |-> s[i]] \in Seq(S) /\ Len([i \in 1 .. m |-> s[i]]) = m
    BY <1>1
<1>4. QED
    BY <1>1, <1>2, <1>3

\* What a power loss leaves of a WAL has its type.
LEMMA SurvivorsType ==
    ASSUME NEW w \in Seq(Entries), NEW n \in Nat, NEW x \in Survivors(w, n)
    PROVE  x \in Seq(Entries)
<1>1. PICK k \in n .. Len(w) : x = SubSeq(w, 1, k)
    BY DEF Survivors
<1>2. k \in Nat /\ k <= Len(w)
    OBVIOUS
<1>3. QED
    BY <1>1, <1>2, PrefixIs

LEMMA CrashShape ==
    ASSUME SInv, Crash
    PROVE  SInv' /\ db' \in Views /\ \A p \in Pages : db'[p] \in disk[p]
<1> DEFINE now == [p \in Pages |-> Latest(wal', Len(wal'), db', p)]
           fits == {n \in 0 .. Len(hist) : now = StateAt(hist, n)}
<1>0. TypeOK /\ OldShape
    BY DEF SInv
<1>1. /\ faults < MaxFaults /\ faults' = faults + 1 /\ open' = {}
      /\ tx' = [c \in Conns |-> NoTx] /\ seen' = {} /\ ckpt' = [c \in Conns |-> NoCkpt]
      /\ synced' = Len(wal') /\ old' = NoOld /\ disk' = [p \in Pages |-> {db'[p]}]
      /\ hist' = IF fits = {} THEN hist ELSE SubSeq(hist, 1, Max(fits))
      /\ next' = next /\ acked' = acked
    BY DEF Crash
<1>2. db' \in Views /\ \A p \in Pages : db'[p] \in disk[p]
    <2>1. /\ db' \in [Pages -> UNION {disk[p] : p \in Pages}]
          /\ \A p \in Pages : db'[p] \in disk[p]
      BY DEF Crash
    <2>2. \A p \in Pages : disk[p] \subseteq 0 .. MaxCommits
      BY <1>0 DEF TypeOK
    <2>3. QED
      BY <2>1, <2>2 DEF Views
<1>3. wal' \in Seq(Entries) /\ gen' \in Nat
    <2>1. CASE wal' \in Survivors(wal, synced) /\ gen' = gen
      BY <1>0, <2>1, Sizes, SurvivorsType DEF TypeOK
    <2>2. CASE old.there /\ wal' \in OldSurvivors /\ gen' = gen - 1
      <3>1. old.wal \in Seq(Entries) /\ old.synced \in Nat /\ gen' \in Nat
        BY <1>0, <2>2 DEF TypeOK, OldShape
      <3>2. PICK n \in Nat : n = IF wal = <<>> THEN old.synced ELSE 0
        BY <3>1
      <3>3. wal' \in Survivors(old.wal, n) \/ wal' = <<>>
        BY <2>2, <3>2 DEF OldSurvivors
      <3>4. QED
        BY <3>1, <3>3, EmptySeq, SurvivorsType
    <2>3. QED
      BY <2>1, <2>2 DEF Crash
<1>4. hist' \in Seq(Entries)
    <2>1. hist \in Seq(Entries) /\ Len(hist) \in Nat /\ fits \in SUBSET (0 .. Len(hist))
      BY <1>0 DEF TypeOK
    <2> HIDE DEF fits
    <2>2. CASE fits = {}
      BY <1>1, <2>1, <2>2
    <2>3. CASE fits # {}
      <3>1. Max(fits) \in 0 .. Len(hist)
        BY <2>1, <2>3, MaxExists
      <3>2. Max(fits) \in Nat /\ Max(fits) <= Len(hist)
        BY <3>1
      <3>3. QED
        BY <1>1, <2>1, <2>3, <3>2, PrefixIs
    <2>4. QED
      BY <2>2, <2>3
<1> HIDE DEF fits
<1>5. intact' \in BOOLEAN
    BY Zenon DEF Crash
<1>6. TypeOK'
    <2>1. synced' \in 0 .. Len(wal') /\ faults' \in 0 .. MaxFaults
      BY <1>0, <1>1, <1>3 DEF TypeOK
    <2>2. disk' \in [Pages -> SUBSET (0 .. MaxCommits)]
      BY <1>1, <1>2 DEF Views
    <2>3. tx' \in [Conns -> TxSet] /\ ckpt' \in [Conns -> CkptSet] /\ old' \in OldSet
      BY <1>1, NullTypes
    <2>4. QED
      BY <1>0, <1>1, <1>2, <1>3, <1>4, <1>5, <2>1, <2>2, <2>3 DEF TypeOK, TxSet, CkptSet, OldSet, Views
<1>7. OldShape'
    BY <1>1, NullTypes DEF OldShape
<1>8. \A c \in Conns : TxShape(c)' /\ CkptShape(c)' /\ ResetShape(c)'
    <2>1. \A c \in Conns : tx'[c] = NoTx /\ ckpt'[c] = NoCkpt
      BY <1>1
    <2>2. QED
      BY <2>1, Idle
<1>9. QED
    BY <1>2, <1>6, <1>7, <1>8 DEF SInv

\* v is what the first b commits left of page p, or what an entry of w wrote.
Left(p, v, w, b) ==
    \/ v = StateAt(hist, b)[p]
    \/ \E i \in 1 .. Len(w) : p \in w[i].pages /\ v = w[i].id

\* What a power loss leaves when the history is cut after m commits, none of
\* the synced ones lost, the WAL its tail, and the database file made of what
\* was before the WAL and of what it has.
LEMMA CrashResult ==
    ASSUME SInv, KInv, Crash, NEW m \in 0 .. Len(hist), Before + synced <= m,
           Part(wal', Len(wal'), hist, m - Len(wal')), Len(wal') <= m,
           \A p \in Pages : Left(p, db'[p], wal', m - Len(wal'))
    PROVE  KInv'
<1> DEFINE now == [p \in Pages |-> Latest(wal', Len(wal'), db', p)]
           fits == {n \in 0 .. Len(hist) : now = StateAt(hist, n)}
<1>0. TypeOK /\ TypeOK' /\ IsTail(wal)
    BY CrashShape DEF SInv, KInv
<1>1. /\ tx' = [c \in Conns |-> NoTx] /\ ckpt' = [c \in Conns |-> NoCkpt]
      /\ synced' = Len(wal') /\ old' = NoOld /\ disk' = [p \in Pages |-> {db'[p]}]
      /\ hist' = IF fits = {} THEN hist ELSE SubSeq(hist, 1, Max(fits))
      /\ next' = next /\ acked' = acked
    BY DEF Crash
<1>2. PICK l \in Nat, b \in Nat : l = Len(wal') /\ b = m - l /\ b + l = m /\ m \in Nat
    <2>1. Len(wal') \in Nat /\ m \in Nat
      BY <1>0 DEF TypeOK
    <2>2. QED
      BY <2>1
<1>3. now = StateAt(hist, m)
    <2>1. ASSUME NEW p \in Pages
          PROVE  Latest(wal', l, db', p) = Latest(hist, m, Blank, p)
      <3>1. ~Has(wal', l, p) => db'[p] = Latest(hist, b, Blank, p)
        BY <1>2 DEF StateAt, Left, Has
      <3>2. Part(wal', l, hist, b) /\ m = b + l /\ m \in Nat
        BY <1>2
      <3>3. PICK w, d, h, z : w = wal' /\ d = db' /\ h = hist /\ z = Blank
        OBVIOUS
      <3>4. ~Has(w, l, p) => d[p] = Latest(h, b, z, p)
        BY <3>1, <3>3
      <3>5. Latest(w, l, d, p) = Latest(h, m, z, p)
        BY <3>2, <3>3, <3>4, Compose
      <3>6. QED
        BY <3>3, <3>5
    <2>2. QED
      BY <1>2, <2>1 DEF StateAt
<1>4. fits # {} /\ Max(fits) = m
    <2>1. hist \in Seq(Entries) /\ Ordered
      BY <1>0 DEF KInv, TypeOK
    <2> HIDE DEF now
    <2>2. QED
      BY <1>3, <2>1, OneFits
<1> HIDE DEF fits
<1>5. hist' = SubSeq(hist, 1, m)
    BY <1>1, <1>4
<1>6. /\ Len(hist') = m /\ m <= Len(hist)
      /\ \A i \in 1 .. m : hist'[i] = hist[i] /\ i \in 1 .. Len(hist)
    <2>1. hist \in Seq(Entries) /\ m \in Nat /\ m <= Len(hist)
      BY <1>0, <1>2, Sizes DEF TypeOK
    <2>2. QED
      BY <1>5, <2>1, PrefixIs
<1>7. \A n \in 0 .. m : StateAt(hist', n) = StateAt(hist, n)
    <2> SUFFICES ASSUME NEW n \in 0 .. m PROVE StateAt(hist', n) = StateAt(hist, n)
      OBVIOUS
    <2>1. n \in Nat /\ \A i \in 1 .. n : hist'[i] = hist[i]
      BY <1>6
    <2>2. QED
      BY <2>1, StateSame
<1>8. Before' = b /\ \A i \in 1 .. l : wal'[i] = hist[b + i] /\ b + i \in 1 .. m
    BY <1>2, <1>6 DEF Before, Part
<1>9. IsTail(wal)'
    <2>1. Len(wal') <= Len(hist') /\ Len(hist') - Len(wal') = b
      BY <1>2, <1>6
    <2>2. \A i \in 1 .. Len(wal') : wal'[i] = hist'[b + i]
      BY <1>2, <1>6, <1>8
    <2>3. QED
      BY <2>1, <2>2 DEF IsTail
<1>10. Ordered'
    BY <1>1, <1>6 DEF KInv, Ordered
<1>11. DiskOK'
    <2>1. b \in 0 .. m
      BY <1>2
    <2>2. StateAt(hist', Before') = StateAt(hist, b)
      BY <1>7, <1>8, <2>1
    <2>3. \A p \in Pages : OnDisk(p, db[p])'
      BY <1>2, <2>2 DEF OnDisk, Left
    <2>4. QED
      BY <1>1, <2>3 DEF DiskOK
<1>12. AckedSynced'
    <2> SUFFICES ASSUME SyncPolicy = "PerCommit", NEW a \in acked
                 PROVE  \E i \in 1 .. Before' + synced' : hist'[i].id = a
      BY <1>1 DEF AckedSynced
    <2>1. Before' + synced' = m
      BY <1>1, <1>2, <1>8
    <2>2. PICK i \in 1 .. Before + synced : hist[i].id = a
      BY DEF KInv, AckedSynced
    <2>3. i \in 1 .. m
      BY <1>0, <1>2, Sizes, WalIsTail
    <2>4. QED
      BY <1>6, <2>1, <2>2, <2>3
<1>13. OldOK'
    BY <1>1, NullTypes DEF OldOK
<1>14. \A c \in Conns : TxView(c)' /\ ResetOK(c)'
    <2>1. \A c \in Conns : tx'[c] = NoTx /\ ckpt'[c] = NoCkpt
      BY <1>1
    <2>2. QED
      BY <2>1, Idle
<1>15. Updates'
    <2>1. ASSUME NEW j \in 1 .. m, NEW p \in hist'[j].pages
          PROVE  hist'[j].base[p] = StateAt(hist', j - 1)[p]
      <3>1. hist'[j] = hist[j] /\ j \in 1 .. Len(hist)
        BY <1>6
      <3>2. j - 1 \in 0 .. m
        OBVIOUS
      <3>3. StateAt(hist', j - 1) = StateAt(hist, j - 1)
        BY <1>7, <3>2
      <3>4. QED
        BY <3>1, <3>3 DEF KInv, Updates
    <2>2. QED
      BY <1>6, <2>1 DEF Updates
<1>16. QED
    BY <1>9, <1>10, <1>11, <1>12, <1>13, <1>14, <1>15 DEF KInv

\* What b + l commits left of a page is what b did or what one of the last l
\* wrote.
LEMMA LatestSplit ==
    ASSUME NEW h, NEW b \in Nat, NEW w, NEW l \in Nat, NEW bot, NEW p, Part(w, l, h, b)
    PROVE  \/ Latest(h, b + l, bot, p) = Latest(h, b, bot, p)
           \/ \E i \in 1 .. l : p \in w[i].pages /\ Latest(h, b + l, bot, p) = w[i].id
<1>1. PICK k \in Nat : k = b + l
    OBVIOUS
<1>2. CASE ~Has(w, l, p)
    <2>1. ASSUME NEW i \in b + 1 .. k
          PROVE  p \notin h[i].pages
      <3>1. i - b \in 1 .. l /\ b + (i - b) = i
        BY <1>1
      <3>2. w[i - b] = h[i] /\ p \notin w[i - b].pages
        BY <1>2, <3>1 DEF Has, Part
      <3>3. QED
        BY <3>2
    <2>2. Latest(h, k, bot, p) = Latest(h, b, bot, p)
      BY <1>1, <2>1, LatestQuiet
    <2>3. QED
      BY <1>1, <2>2
<1>3. CASE Has(w, l, p)
    <2>1. Latest(w, l, bot, p) = Latest(h, k, bot, p)
      BY <1>1, <1>3, Compose
    <2>2. IsLatest(w, l, bot, p, Latest(w, l, bot, p))
      BY LatestIs
    <2>3. QED
      BY <1>1, <1>3, <2>1, <2>2 DEF IsLatest
<1>4. QED
    BY <1>2, <1>3

\* A power loss that is no accident.
LEMMA CrashKeep ==
    ASSUME SInv, KInv, Crash, ~Exposed,
           wal' \in Survivors(wal, synced) \/ (old.there /\ wal' \in {<<>>, old.wal})
    PROVE  KInv'
<1>0. TypeOK /\ IsTail(wal) /\ OldShape
    BY DEF SInv, KInv
<1>1. \A p \in Pages : db'[p] \in disk[p]
    BY CrashShape
<1>2. /\ Before \in Nat /\ Len(wal) \in Nat /\ synced \in Nat /\ synced <= Len(wal)
      /\ Before + Len(wal) = Len(hist) /\ Len(hist) \in Nat
    BY <1>0, Sizes, WalIsTail
<1>3. ASSUME NEW p \in Pages
      PROVE  \/ db'[p] = StateAt(hist, Before)[p]
             \/ \E i \in 1 .. synced : p \in wal[i].pages /\ db'[p] = wal[i].id
    <2>1. OnDisk(p, db'[p])
      BY <1>1 DEF KInv, DiskOK
    <2>2. ASSUME NEW i \in 1 .. Len(wal), p \in wal[i].pages, db'[p] = wal[i].id
          PROVE  i \in 1 .. synced
      <3>1. ~(i \in synced + 1 .. Len(wal))
        BY <1>1, <2>2 DEF Exposed
      <3>2. QED
        BY <1>2, <3>1
    <2>3. QED
      BY <2>1, <2>2 DEF OnDisk
<1>4. CASE wal' \in Survivors(wal, synced)
    <2>1. PICK k \in synced .. Len(wal) : wal' = SubSeq(wal, 1, k)
      BY <1>4 DEF Survivors
    <2>2. k \in Nat /\ k <= Len(wal) /\ synced <= k
      BY <1>2
    <2>3. Len(wal') = k /\ \A i \in 1 .. k : wal'[i] = wal[i] /\ i \in 1 .. Len(wal)
      <3>1. wal \in Seq(Entries)
        BY <1>0 DEF TypeOK
      <3>2. QED
        BY <2>1, <2>2, <3>1, PrefixIs
    <2>4. PICK m \in 0 .. Len(hist) : m = Before + k
      BY <1>2, <2>2
    <2>5. m - Len(wal') = Before /\ Len(wal') <= m /\ Before + synced <= m
      BY <1>2, <2>2, <2>3, <2>4
    <2>6. Part(wal', Len(wal'), hist, m - Len(wal'))
      BY <1>0, <2>3, <2>5, WalIsTail DEF Part
    <2>7. ASSUME NEW p \in Pages
          PROVE  Left(p, db'[p], wal', m - Len(wal'))
      <3>1. CASE db'[p] = StateAt(hist, Before)[p]
        BY <2>5, <3>1 DEF Left
      <3>2. CASE \E i \in 1 .. synced : p \in wal[i].pages /\ db'[p] = wal[i].id
        <4>1. PICK i \in 1 .. synced : p \in wal[i].pages /\ db'[p] = wal[i].id
          BY <3>2
        <4>2. i \in 1 .. k
          BY <1>2, <2>2
        <4>3. i \in 1 .. Len(wal') /\ wal'[i] = wal[i]
          BY <2>3, <4>2
        <4>4. QED
          BY <4>1, <4>3 DEF Left
      <3>3. QED
        BY <1>3, <3>1, <3>2
    <2>8. QED
      BY <2>5, <2>6, <2>7, CrashResult
<1>5. CASE old.there /\ wal' \in {<<>>, old.wal}
    <2>1. synced = 0 /\ \A p \in Pages : db'[p] = StateAt(hist, Before)[p]
      BY <1>0, <1>3, <1>5 DEF OldShape
    <2>2. /\ Len(old.wal) \in Nat /\ Len(old.wal) <= Before
          /\ \A i \in 1 .. Len(old.wal) : old.wal[i] = hist[Before - Len(old.wal) + i]
      BY <1>0, <1>5 DEF TypeOK, KInv, OldOK
    <2>3. PICK m \in 0 .. Len(hist) : m = Before
      BY <1>2
    <2>4. PICK l \in Nat, b \in Nat : l = Len(wal') /\ b = m - l /\ b + l = m /\ l <= m /\ m \in Nat
      <3>1. Len(wal') \in Nat /\ Len(wal') <= Before
        BY <1>2, <1>5, <2>2, EmptySeq
      <3>2. QED
        BY <1>2, <2>3, <3>1
    <2>5. Part(wal', l, hist, b)
      <3>1. CASE wal' = old.wal
        BY <2>2, <2>3, <2>4, <3>1 DEF Part
      <3>2. CASE wal' = <<>>
        BY <2>4, <3>2 DEF Part
      <3>3. QED
        BY <1>5, <3>1, <3>2
    <2>6. ASSUME NEW p \in Pages
          PROVE  Left(p, db'[p], wal', b)
      <3>1. db'[p] = Latest(hist, b + l, Blank, p) /\ StateAt(hist, b)[p] = Latest(hist, b, Blank, p)
        BY <2>1, <2>3, <2>4 DEF StateAt
      <3>2. PICK w, h, z : w = wal' /\ h = hist /\ z = Blank
        OBVIOUS
      <3>3. \/ Latest(h, b + l, z, p) = Latest(h, b, z, p)
            \/ \E i \in 1 .. l : p \in w[i].pages /\ Latest(h, b + l, z, p) = w[i].id
        BY <2>5, <3>2, LatestSplit
      <3>4. QED
        BY <2>4, <3>1, <3>2, <3>3 DEF Left
    <2>7. Before + synced <= m
      BY <1>2, <2>1, <2>3
    <2>8. QED
      BY <2>4, <2>5, <2>6, <2>7, CrashResult
<1>6. QED
    BY <1>4, <1>5

LEMMA CrashStep ==
    ASSUME IInv, Crash
    PROVE  IInv'
<1>1. SInv /\ (intact => KInv)
    BY DEF IInv
<1>2. SInv'
    BY <1>1, CrashShape
<1>3. \/ wal' \in Survivors(wal, synced) /\ intact' = (intact /\ ~Exposed)
      \/ old.there /\ intact' = (intact /\ ~Exposed /\ wal' \in {<<>>, old.wal})
    BY DEF Crash
<1>4. intact' => /\ intact /\ ~Exposed
                 /\ wal' \in Survivors(wal, synced) \/ (old.there /\ wal' \in {<<>>, old.wal})
    BY <1>3, Zenon
<1>5. intact' => KInv'
    BY <1>1, <1>4, CrashKeep
<1>6. QED
    BY <1>2, <1>5 DEF IInv

-----------------------------------------------------------------------------
(* The theorems *)

LEMMA InitIInv ==
    Init => IInv
<1> SUFFICES ASSUME Init PROVE IInv
    OBVIOUS
<1>1. /\ open = {} /\ wal = <<>> /\ gen = 0 /\ synced = 0 /\ old = NoOld /\ db = Blank
      /\ disk = [p \in Pages |-> {0}] /\ tx = [c \in Conns |-> NoTx] /\ seen = {}
      /\ ckpt = [c \in Conns |-> NoCkpt] /\ hist = <<>> /\ next = 1 /\ acked = {}
      /\ intact = TRUE /\ faults = 0
    BY DEF Init
<1>2. Len(wal) = 0 /\ Len(hist) = 0 /\ wal \in Seq(Entries) /\ hist \in Seq(Entries) /\ Before = 0
    BY <1>1, EmptySeq DEF Before
<1>3. TypeOK
    <2>1. /\ open \subseteq Conns /\ gen \in Nat /\ synced \in 0 .. Len(wal)
          /\ disk \in [Pages -> SUBSET (0 .. MaxCommits)] /\ seen \subseteq Conns
          /\ next \in 1 .. MaxCommits + 1 /\ acked \subseteq 1 .. MaxCommits
          /\ faults \in 0 .. MaxFaults
      BY <1>1, <1>2
    <2>2. tx \in [Conns -> TxSet] /\ ckpt \in [Conns -> CkptSet] /\ old \in OldSet /\ db \in Views
      BY <1>1, NullTypes
    <2>3. intact \in BOOLEAN
      BY <1>1
    <2>4. QED
      BY <1>2, <2>1, <2>2, <2>3, Types
<1>4. \A c \in Conns : tx[c] = NoTx /\ ckpt[c] = NoCkpt
    BY <1>1
<1>5. SInv
    <2>1. OldShape
      BY <1>1, NullTypes DEF OldShape
    <2>2. \A c \in Conns : TxShape(c) /\ CkptShape(c) /\ ResetShape(c)
      BY <1>4, NullTypes DEF TxShape, CkptShape, ResetShape, Resets
    <2>3. QED
      BY <1>3, <2>1, <2>2 DEF SInv
<1>6. IsTail(wal) /\ Ordered /\ AckedSynced /\ OldOK /\ Updates
    BY <1>1, <1>2, NullTypes DEF IsTail, Ordered, AckedSynced, OldOK, Updates
<1>7. DiskOK
    <2>1. ASSUME NEW p \in Pages
          PROVE  db[p] = 0 /\ disk[p] = {0} /\ StateAt(hist, Before)[p] = 0
      <3>1. ~Has(hist, 0, p) /\ 0 \in Nat
        BY DEF Has
      <3>2. Latest(hist, 0, Blank, p) = Blank[p]
        BY <3>1, LatestBase
      <3>3. QED
        BY <1>1, <1>2, <3>2 DEF StateAt, Blank
    <2>2. QED
      BY <2>1 DEF DiskOK, OnDisk
<1>8. \A c \in Conns : TxView(c) /\ ResetOK(c)
    BY <1>4, NullTypes DEF TxView, ResetOK, Resets
<1>9. QED
    BY <1>5, <1>6, <1>7, <1>8 DEF IInv, KInv

LEMMA NextIInv ==
    ASSUME IInv, [Next]_vars
    PROVE  IInv'
<1>1. CASE Crash
    BY <1>1, CrashStep
<1>2. ASSUME NEW c \in Conns, NEW ps \in (SUBSET Pages) \ {{}}, Commit(c, ps)
      PROVE  IInv'
    BY <1>2, CommitStep
<1>3. ASSUME NEW c \in Conns, NEW m \in Modes, StartCheckpoint(c, m)
      PROVE  IInv'
    BY <1>3, StartCheckpointStep
<1>4. ASSUME NEW c \in Conns,
             \/ Open(c) \/ Close(c) \/ Begin(c) \/ End(c) \/ SyncWal(c) \/ SyncFails(c)
             \/ WritePage(c) \/ StaleWrite(c) \/ SyncDb(c) \/ ResetHeader(c) \/ ResetSync(c)
             \/ CheckpointFails(c)
      PROVE  IInv'
    BY <1>4, OpenStep, CloseStep, BeginStep, EndStep, SyncWalStep, SyncFailsStep, WritePageStep,
       StaleWriteStep, SyncDbStep, ResetHeaderStep, ResetSyncStep, CheckpointFailsStep
<1>5. CASE UNCHANGED vars
    <2>1. UNCHANGED <<open, wal, gen, synced, old, db, disk, tx, seen, ckpt,
                      hist, next, acked, intact, faults>>
      BY <1>5 DEF vars
    <2>2. SInv'
      <3>1. TypeOK' /\ OldShape'
        BY <2>1 DEF IInv, SInv, TypeOK, OldShape
      <3>2. ASSUME NEW c \in Conns
            PROVE  TxShape(c)' /\ CkptShape(c)' /\ ResetShape(c)'
        BY <2>1, Own DEF IInv, TxShape, CkptShape, ResetShape, Has
      <3>3. QED
        BY <3>1, <3>2 DEF SInv
    <2>3. ASSUME KInv
          PROVE  KInv'
      <3>1. Before' = Before /\ \A n : StateAt(hist', n) = StateAt(hist, n)
        BY <2>1 DEF Before, StateAt, Latest
      <3>2. IsTail(wal)' /\ Ordered' /\ DiskOK'
        BY <2>1, <2>3, <3>1 DEF KInv, IsTail, Ordered, DiskOK, OnDisk
      <3>3. AckedSynced' /\ OldOK' /\ Updates'
        BY <2>1, <2>3, <3>1 DEF KInv, AckedSynced, OldOK, Updates
      <3>4. \A c \in Conns : TxView(c)' /\ ResetOK(c)'
        BY <2>1, <2>3, <3>1 DEF KInv, TxView, ResetOK
      <3>5. QED
        BY <3>2, <3>3, <3>4 DEF KInv
    <2>4. QED
      BY <2>1, <2>2, <2>3 DEF IInv
<1>6. QED
    BY <1>1, <1>2, <1>3, <1>4, <1>5 DEF Next

\* The inductive invariant holds in every state, under either sync policy.
THEOREM Invariance ==
    Spec => []IInv
<1>1. Init => IInv
    BY InitIInv
<1>2. IInv /\ [Next]_vars => IInv'
    BY NextIInv
<1>3. QED
    BY <1>1, <1>2, PTL DEF Spec

\* Every variable keeps its type.
THEOREM TypeCorrect ==
    Spec => []TypeOK
<1>1. IInv => TypeOK
    BY DEF IInv, SInv
<1>2. QED
    BY <1>1, Invariance, PTL

\* WAL over database is exactly the committed history, whatever checkpoints,
\* failed syncs and power losses have done to either (checkpoint_executor.rs
\* and the recovery of WalFile::open), as long as none of the accidents that
\* ResetHeader, StaleWrite and Crash record has happened.
THEOREM FilesMatchHistory ==
    Spec => []FilesAreHistory
<1>1. IInv => FilesAreHistory
    BY ContentIs DEF IInv, SInv, FilesAreHistory
<1>2. QED
    BY <1>1, Invariance, PTL

\* Under PerCommit a commit whose COMMIT has returned is in every later state,
\* with the same exceptions, a reset by a checkpoint that was planned before the
\* commit among them.
THEOREM AckedCommitsSurvive ==
    ASSUME SyncPolicy = "PerCommit"
    PROVE  Spec => []AckedSurvive
<1>1. IInv => AckedSurvive
    <2> SUFFICES ASSUME IInv, intact, NEW a \in acked
                 PROVE  a \in {hist[i].id : i \in 1 .. Len(hist)}
      BY DEF AckedSurvive
    <2>0. TypeOK /\ IsTail(wal)
      BY DEF IInv, SInv, KInv
    <2>1. PICK i \in 1 .. Before + synced : hist[i].id = a
      BY DEF IInv, KInv, AckedSynced
    <2>2. i \in 1 .. Len(hist)
      BY <2>0, Sizes, WalIsTail
    <2>3. QED
      BY <2>1, <2>2
<1>2. QED
    BY <1>1, Invariance, PTL

\* A commit overwrites only what its own snapshot read, also when the WAL was
\* reset between the two, under either sync policy and with the same
\* exceptions.
THEOREM UpdatesAreNotLost ==
    Spec => []NoLostUpdate
<1>1. IInv => NoLostUpdate
    BY DEF IInv, KInv, Updates, NoLostUpdate
<1>2. QED
    BY <1>1, Invariance, PTL

=============================================================================
