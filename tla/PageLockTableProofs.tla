------------------------- MODULE PageLockTableProofs -------------------------
(***************************************************************************)
(* Proofs about PageLockTable for any finite number of threads and pages:  *)
(* a page has one owner over both tables, the waiter count is exact, no    *)
(* wake-up is lost and no entry is left in a queue that nobody will sweep. *)
(*                                                                         *)
(* Exclusion rests on the draining table being empty outside rebuilds, for *)
(* fast pages, and for a page whose insertion is half done.  The wake-up   *)
(* argument follows one registered waiter: as long as its entry is in the  *)
(* queue, the holder that it saw is still there, or has gone and whoever   *)
(* made it go has not yet swept the queue.  That a sweep is not skipped    *)
(* for want of waiters is where the exact count is needed.                 *)
(***************************************************************************)
EXTENDS PageLockTable, FiniteSetTheorems, TLAPS

-----------------------------------------------------------------------------
(* The inductive invariant *)

\* A lock is held exactly if it is in a table, and it is in one of them.
HeldIsTabled ==
    \A p \in Pages :
        /\ \A t \in Threads : p \in held[t] <=> t \in {active[p], draining[p]}
        /\ active[p] = NoTxn \/ draining[p] = NoTxn

\* Where the draining table has no entry: outside rebuilds, for fast pages,
\* and for the page of a half-done try_acquire.
DrainingIsFree ==
    /\ ~rebuilding => \A p \in Pages : draining[p] = NoTxn
    /\ \A p \in Fast : draining[p] = NoTxn
    /\ \A t \in Threads : pc[t] = "insert" => draining[want[t].page] = NoTxn

\* Entries are drained and still counted only in the middle of a sweep.
DrainedWhileSweeping == \A a \in Actors : pc[a] # "sweep" => note[a].drained = 0

Waiting == {"look", "register", "recheck", "parked", "woken", "withdraw", "again"}

\* A waiter waits for a thread, and its look is half done only where it looks.
WaitsForHolder ==
    \A t \in Threads :
        /\ pc[t] \in Waiting => want[t].seen \in Threads
        /\ want[t].mid => pc[t] \in {"look", "recheck", "woken"}

\* A registered waiter has its entry in the queue or a token.
EntryOrToken ==
    \A t \in Threads :
        pc[t] \in {"recheck", "parked"} => queue[want[t].page][t] > 0 \/ t \in token

\* Somebody is on the way to remove the queue of t's page.
Assured(t) ==
    \/ \E a \in Actors : WillSweep(a, want[t].page)
    \/ pc[want[t].seen] = "releasing"

\* While a waiter's entry is in the queue, the holder it saw has the page or
\* a sweep of the queue is on its way.
WaiterOK(t) ==
    pc[t] \in {"parked", "woken"} /\ queue[want[t].page][t] > 0 =>
        \/ want[t].mid /\ draining[want[t].page] = want[t].seen
        \/ ~want[t].mid /\ HolderOf(want[t].page) = want[t].seen
        \/ Assured(t)

HolderOrSweep == \A t \in Threads : WaiterOK(t)

\* The steps in which a waiter's entry is its own to withdraw.
Registered == {"recheck", "parked", "woken", "withdraw", "again"}

\* Some notification is going to remove the queue of p.
IsSwept(p) == \E a \in Actors : WillSweep(a, p) \/ (a \in Threads /\ pc[a] = "releasing")

\* LeftEntriesAreSwept for one thread and page.
LeftOK(t, p) ==
    queue[p][t] > 0 /\ ~(want[t].page = p /\ pc[t] \in Registered) => IsSwept(p)

IInv ==
    /\ TypeOK
    /\ HeldIsTabled
    /\ DrainingIsFree
    /\ DrainedWhileSweeping
    /\ CountIsExact
    /\ WaitsForHolder
    /\ EntryOrToken
    /\ HolderOrSweep
    /\ LeftEntriesAreSwept

-----------------------------------------------------------------------------
(* Sums as cardinalities *)

Marks(f) == UNION {{x} \X (1 .. f[x]) : x \in DOMAIN f}

\* The marks of x are as many as f[x].
LEMMA MarksOfOne ==
    ASSUME NEW x, NEW n \in Nat
    PROVE  IsFiniteSet({x} \X (1 .. n)) /\ Cardinality({x} \X (1 .. n)) = n
<1> DEFINE I == 1 .. n
<1>1. IsFiniteSet({x}) /\ Cardinality({x}) = 1
    BY FS_Singleton
<1>2. IsFiniteSet(I) /\ Cardinality(I) = n
    BY FS_Interval
<1> HIDE DEF I
<1>3. IsFiniteSet({x} \X I) /\ Cardinality({x} \X I) = Cardinality({x}) * Cardinality(I)
    BY <1>1, <1>2, FS_Product
<1>4. QED
    BY <1>1, <1>2, <1>3 DEF I

\* The marks of a function on a finite set are a finite set.
LEMMA MarksFinite ==
    ASSUME NEW S, IsFiniteSet(S), NEW f \in [S -> Nat]
    PROVE  IsFiniteSet(Marks(f))
<1> DEFINE F == [x \in S |-> {x} \X (1 .. f[x])]
           R == {{x} \X (1 .. f[x]) : x \in DOMAIN f}
<1>1. F \in Surjection(S, R)
    BY DEF Surjection
<1>2. IsFiniteSet(R)
    BY <1>1, FS_Surjection
<1>3. ASSUME NEW T \in R
      PROVE  IsFiniteSet(T)
    <2>1. PICK x \in S : T = {x} \X (1 .. f[x])
      OBVIOUS
    <2>2. f[x] \in Nat
      OBVIOUS
    <2>3. QED
      BY <2>1, <2>2, MarksOfOne
<1>4. QED
    BY <1>2, <1>3, FS_UNION DEF Marks

\* A total is a number, at least as large as each value.
LEMMA TotalBound ==
    ASSUME NEW S, IsFiniteSet(S), NEW f \in [S -> Nat]
    PROVE  Total(f) \in Nat /\ \A x \in S : f[x] <= Total(f)
<1>1. IsFiniteSet(Marks(f)) /\ Total(f) = Cardinality(Marks(f))
    BY MarksFinite DEF Total, Marks
<1>2. ASSUME NEW x \in S
      PROVE  f[x] <= Total(f)
    <2>1. {x} \X (1 .. f[x]) \in SUBSET Marks(f)
      BY DEF Marks
    <2>2. f[x] \in Nat
      OBVIOUS
    <2>3. Cardinality({x} \X (1 .. f[x])) = f[x]
      BY <2>2, MarksOfOne
    <2>4. Cardinality({x} \X (1 .. f[x])) <= Cardinality(Marks(f))
      BY <1>1, <2>1, FS_Subset
    <2>5. QED
      BY <1>1, <2>3, <2>4
<1>3. QED
    BY <1>1, <1>2, FS_CardinalityType

\* Changing one value changes the total by the difference.
LEMMA TotalUpdate ==
    ASSUME NEW S, IsFiniteSet(S), NEW f \in [S -> Nat], NEW y \in S, NEW n \in Nat
    PROVE  Total([f EXCEPT ![y] = n]) = Total(f) - f[y] + n
<1> DEFINE g == [f EXCEPT ![y] = n]
           F == {y} \X (1 .. f[y])
           G == {y} \X (1 .. n)
           Rest == Marks(f) \ F
<1>1. g \in [S -> Nat] /\ g[y] = n /\ \A x \in S \ {y} : g[x] = f[x]
    OBVIOUS
<1>2. IsFiniteSet(Marks(f)) /\ IsFiniteSet(Rest)
    BY MarksFinite, FS_Difference
<1>3. IsFiniteSet(F) /\ Cardinality(F) = f[y] /\ IsFiniteSet(G) /\ Cardinality(G) = n
    BY MarksOfOne
<1>4. Marks(g) = Rest \cup G /\ Rest \cap G = {} /\ Marks(f) \cap F = F
    BY <1>1 DEF Marks
<1>5. Cardinality(Rest) = Cardinality(Marks(f)) - f[y]
    <2>1. Cardinality(Rest) = Cardinality(Marks(f)) - Cardinality(Marks(f) \cap F)
      BY <1>2, FS_Difference
    <2>2. QED
      BY <1>3, <1>4, <2>1
<1>6. Cardinality(Marks(g)) = Cardinality(Rest) + n - Cardinality(Rest \cap G)
    BY <1>2, <1>3, <1>4, FS_Union
<1>7. Cardinality(Rest \cap G) = 0
    BY <1>4, FS_EmptySet
<1>8. Cardinality(Rest) \in Nat /\ Cardinality(Marks(f)) \in Nat
    BY <1>2, FS_CardinalityType
<1>9. QED
    BY <1>5, <1>6, <1>7, <1>8 DEF Total, Marks

\* A function that is zero everywhere has total zero.
LEMMA TotalZero ==
    ASSUME NEW S, NEW f \in [S -> Nat], \A x \in S : f[x] = 0
    PROVE  Total(f) = 0
<1>1. Marks(f) = {}
    BY DEF Marks
<1>2. QED
    BY <1>1, FS_EmptySet DEF Total, Marks

-----------------------------------------------------------------------------
(* Steps *)

USE KeeperAssumption, FastAssumption, FreeAssumption, FiniteAssumption

Labels == {"idle", "insert", "look", "register", "recheck", "parked", "woken",
           "withdraw", "again", "retry", "releasing", "notify", "sweep", "dead"}
Wants == [page : Pages, seen : Threads \cup {NoTxn}, mid : BOOLEAN]
Notes == [todo : SUBSET Pages, drained : Nat]

\* The types as the proofs use them.
LEMMA Types ==
    TypeOK <=> /\ active \in [Pages -> Threads \cup {NoTxn}]
               /\ draining \in [Pages -> Threads \cup {NoTxn}]
               /\ rebuilding \in BOOLEAN
               /\ queue \in [Pages -> [Threads -> Nat]]
               /\ count \in Nat
               /\ token \subseteq Threads
               /\ pc \in [Actors -> Labels]
               /\ want \in [Threads -> Wants]
               /\ note \in [Actors -> Notes]
               /\ held \in [Threads -> SUBSET Pages]
BY DEF TypeOK, Labels, Wants, Notes

LEMMA NoWantType == NoWant \in Wants /\ ~NoWant.mid
BY DEF NoWant, Wants

\* A null notification.
LEMMA NoteTypes ==
    /\ NoNote \in Notes /\ NoNote.drained = 0
    /\ \A ps \in SUBSET Pages, n \in Nat : [todo |-> ps, drained |-> n] \in Notes
BY DEF NoNote, Notes

LEMMA LeftByThread ==
    LeftEntriesAreSwept <=> \A t \in Threads, p \in Pages : LeftOK(t, p)
BY DEF LeftEntriesAreSwept, LeftOK, Registered, IsSwept

\* Steps that leave the queues, the count and the drained numbers alone.
LEMMA CountFrame ==
    ASSUME CountIsExact, queue' = queue, count' = count,
           \A a \in Actors : note'[a].drained = note[a].drained
    PROVE  CountIsExact'
<1>1. [a \in Actors |-> note'[a].drained] = [a \in Actors |-> note[a].drained]
    OBVIOUS
<1>2. QED
    BY <1>1 DEF CountIsExact, Entries

\* What the total of all queues becomes when one queue is replaced.
LEMMA QueueUpdate ==
    ASSUME TypeOK, NEW p \in Pages, NEW r \in [Threads -> Nat],
           queue' = [queue EXCEPT ![p] = r]
    PROVE  /\ Total([x \in Pages |-> Entries(x)]) \in Nat
           /\ Entries(p) \in Nat /\ Total(r) \in Nat
           /\ Entries(p) <= Total([x \in Pages |-> Entries(x)])
           /\ Total([x \in Pages |-> Entries(x)]') =
                  Total([x \in Pages |-> Entries(x)]) - Entries(p) + Total(r)
<1> DEFINE E == [x \in Pages |-> Entries(x)]
<1>1. \A x \in Pages : queue[x] \in [Threads -> Nat]
    BY DEF TypeOK
<1>2. \A x \in Pages : Entries(x) \in Nat
    BY <1>1, TotalBound DEF Entries
<1>3. E \in [Pages -> Nat] /\ Total(r) \in Nat
    BY <1>2, TotalBound
<1>4. [x \in Pages |-> Entries(x)]' = [E EXCEPT ![p] = Total(r)]
    BY DEF Entries, TypeOK
<1>5. Total(E) \in Nat /\ E[p] <= Total(E)
    BY <1>3, TotalBound
<1>6. Total([E EXCEPT ![p] = Total(r)]) = Total(E) - E[p] + Total(r)
    BY <1>3, TotalUpdate
<1>7. E[p] = Entries(p)
    OBVIOUS
<1>8. QED
    BY <1>2, <1>3, <1>4, <1>5, <1>6, <1>7

\* What the total of the drained entries becomes when one number changes.
LEMMA DrainedUpdate ==
    ASSUME TypeOK, NEW a \in Actors, NEW n \in Nat,
           note'[a].drained = n, \A b \in Actors \ {a} : note'[b].drained = note[b].drained
    PROVE  /\ Total([b \in Actors |-> note[b].drained]) \in Nat
           /\ note[a].drained <= Total([b \in Actors |-> note[b].drained])
           /\ Total([b \in Actors |-> note'[b].drained]) =
                  Total([b \in Actors |-> note[b].drained]) - note[a].drained + n
<1> DEFINE D == [b \in Actors |-> note[b].drained]
<1>1. IsFiniteSet(Actors)
    BY FS_AddElement DEF Actors
<1>2. D \in [Actors -> Nat]
    BY DEF TypeOK
<1>3. [b \in Actors |-> note'[b].drained] = [D EXCEPT ![a] = n]
    OBVIOUS
<1>4. Total(D) \in Nat /\ D[a] <= Total(D)
    BY <1>1, <1>2, TotalBound
<1>5. Total([D EXCEPT ![a] = n]) = Total(D) - D[a] + n
    BY <1>1, <1>2, TotalUpdate
<1>6. QED
    BY <1>3, <1>4, <1>5

\* Nobody is counted only if no queue has an entry.
LEMMA NobodyCounted ==
    ASSUME TypeOK, CountIsExact, count = 0, NEW p \in Pages, NEW t \in Threads
    PROVE  queue[p][t] = 0
<1>1. queue[p] \in [Threads -> Nat] /\ queue[p][t] \in Nat
    BY DEF TypeOK
<1>2. \A x \in Pages : Entries(x) \in Nat
    BY TotalBound DEF Entries, TypeOK
<1>3. [x \in Pages |-> Entries(x)] \in [Pages -> Nat]
    BY <1>2
<1>4. [b \in Actors |-> note[b].drained] \in [Actors -> Nat] /\ IsFiniteSet(Actors)
    BY FS_AddElement DEF TypeOK, Actors
<1>5. Total([x \in Pages |-> Entries(x)]) = 0
    BY <1>3, <1>4, TotalBound DEF CountIsExact
<1>6. [x \in Pages |-> Entries(x)][p] <= 0
    BY <1>3, <1>5, TotalBound
<1>7. queue[p][t] <= Entries(p)
    BY <1>1, TotalBound DEF Entries
<1>8. QED
    BY <1>1, <1>2, <1>6, <1>7

-----------------------------------------------------------------------------
(* Waiters *)

\* What the invariant says of one thread as a waiter.
ThreadOK(t) ==
    /\ pc[t] \in Waiting => want[t].seen \in Threads
    /\ want[t].mid => pc[t] \in {"look", "recheck", "woken"}
    /\ pc[t] \in {"recheck", "parked"} => queue[want[t].page][t] > 0 \/ t \in token
    /\ WaiterOK(t)
    /\ \A p \in Pages : LeftOK(t, p)

LEMMA ByThread ==
    (\A t \in Threads : ThreadOK(t)) <=>
        WaitsForHolder /\ EntryOrToken /\ HolderOrSweep /\ LeftEntriesAreSwept
BY LeftByThread DEF ThreadOK, WaitsForHolder, EntryOrToken, HolderOrSweep

LEMMA ByThreadNext ==
    ASSUME \A t \in Threads : ThreadOK(t)'
    PROVE  WaitsForHolder' /\ EntryOrToken' /\ HolderOrSweep' /\ LeftEntriesAreSwept'
<1>1. WaitsForHolder' /\ EntryOrToken' /\ HolderOrSweep'
    BY DEF ThreadOK, WaitsForHolder, EntryOrToken, HolderOrSweep
<1>2. LeftEntriesAreSwept'
    BY DEF ThreadOK, LeftEntriesAreSwept, LeftOK, Registered, IsSwept
<1>3. QED
    BY <1>1, <1>2

\* A step keeps the sweeps of queues that still have entries, and a thread
\* that was releasing still is or notifies about every page.
SweepsKept ==
    /\ \A p \in Pages, u \in Threads, a \in Actors :
           queue'[p][u] > 0 /\ WillSweep(a, p) => WillSweep(a, p)'
    /\ \A v \in Threads :
           pc[v] = "releasing" => pc'[v] = "releasing" \/ \A p \in Pages : WillSweep(v, p)'

\* A step takes a page from a holder only on the way to a sweep of its queue.
HoldersKept ==
    \A p \in Pages :
        \/ \E a \in Actors : WillSweep(a, p)'
        \/ /\ draining[p] \in Threads => draining'[p] = draining[p] \/ pc'[draining[p]] = "releasing"
           /\ HolderOf(p) \in Threads => HolderOf(p)' = HolderOf(p) \/ pc'[HolderOf(p)] = "releasing"

\* A step keeps an entry, or removes it and leaves its thread a token.
EntriesKept(u) ==
    /\ \A p \in Pages : queue'[p][u] = queue[p][u] \/ (queue'[p][u] = 0 /\ u \in token')
    /\ u \in token => u \in token'

LEMMA SweptKept ==
    ASSUME SweepsKept, NEW p \in Pages, NEW u \in Threads, queue'[p][u] > 0, IsSwept(p)
    PROVE  IsSwept(p)'
<1>1. CASE \E a \in Actors : WillSweep(a, p)
    BY <1>1 DEF SweepsKept, IsSwept
<1>2. CASE \E v \in Threads : pc[v] = "releasing"
    BY <1>2 DEF SweepsKept, IsSwept, Actors
<1>3. QED
    BY <1>1, <1>2 DEF IsSwept

LEMMA AssuredKept ==
    ASSUME TypeOK, SweepsKept, NEW u \in Threads, Assured(u), queue'[want[u].page][u] > 0,
           want[u].seen \in Threads, want'[u].page = want[u].page, want'[u].seen = want[u].seen
    PROVE  Assured(u)'
<1>1. want[u].page \in Pages
    BY DEF TypeOK
<1>2. CASE \E a \in Actors : WillSweep(a, want[u].page)
    <2>1. PICK a \in Actors : WillSweep(a, want[u].page)
      BY <1>2
    <2>2. WillSweep(a, want[u].page)'
      BY <1>1, <2>1 DEF SweepsKept, WillSweep
    <2>3. QED
      BY <2>2 DEF Assured
<1>3. CASE pc[want[u].seen] = "releasing"
    <2>1. CASE pc'[want[u].seen] = "releasing"
      BY <2>1 DEF Assured
    <2>2. CASE \A p \in Pages : WillSweep(want[u].seen, p)'
      <3>1. WillSweep(want[u].seen, want[u].page)'
        BY <1>1, <2>2 DEF WillSweep
      <3>2. want[u].seen \in Actors
        BY DEF Actors
      <3>3. QED
        BY <3>1, <3>2 DEF Assured, WillSweep
    <2>3. QED
      BY <1>3, <2>1, <2>2 DEF SweepsKept
<1>4. QED
    BY <1>2, <1>3 DEF Assured

\* A thread that does not move stays what it should be, whatever another does.
LEMMA ThreadKept ==
    ASSUME TypeOK, SweepsKept, HoldersKept, NEW u \in Threads, EntriesKept(u), ThreadOK(u),
           pc'[u] = pc[u], want'[u] = want[u]
    PROVE  ThreadOK(u)'
<1>1. want[u].page \in Pages /\ \A p \in Pages : queue[p][u] \in Nat
    BY DEF TypeOK
<1>2. WaiterOK(u)'
    <2> SUFFICES ASSUME pc[u] \in {"parked", "woken"}, queue'[want[u].page][u] > 0
                 PROVE  \/ want[u].mid /\ draining'[want[u].page] = want[u].seen
                        \/ ~want[u].mid /\ HolderOf(want[u].page)' = want[u].seen
                        \/ Assured(u)'
      BY DEF WaiterOK, HolderOf
    <2>1. want[u].seen \in Threads
      BY DEF ThreadOK, Waiting
    <2>2. queue[want[u].page][u] > 0
      BY <1>1 DEF EntriesKept
    <2>3. CASE Assured(u)
      BY <2>1, <2>3, AssuredKept
    <2>4. CASE \E a \in Actors : WillSweep(a, want[u].page)'
      BY <2>4 DEF Assured, WillSweep
    <2>5. CASE pc'[want[u].seen] = "releasing"
      BY <2>5 DEF Assured
    <2>6. CASE want[u].mid /\ draining[want[u].page] = want[u].seen
      BY <1>1, <2>1, <2>4, <2>5, <2>6 DEF HoldersKept
    <2>7. CASE ~want[u].mid /\ HolderOf(want[u].page) = want[u].seen
      BY <1>1, <2>1, <2>4, <2>5, <2>7 DEF HoldersKept
    <2>8. QED
      BY <2>2, <2>3, <2>6, <2>7 DEF ThreadOK, WaiterOK
<1>3. ASSUME NEW p \in Pages
      PROVE  LeftOK(u, p)'
    BY <1>1, SweptKept DEF ThreadOK, LeftOK, EntriesKept
<1>4. QED
    BY <1>1, <1>2, <1>3 DEF ThreadOK, EntriesKept

\* Entries of a thread that is not a registered waiter.
LEMMA LeftKept ==
    ASSUME TypeOK, SweepsKept, NEW t \in Threads, ThreadOK(t), pc[t] \notin Registered,
           NEW p \in Pages, queue'[p][t] = queue[p][t] \/ queue'[p][t] = 0
    PROVE  LeftOK(t, p)'
BY SweptKept DEF ThreadOK, LeftOK

\* A waiter that stays registered for its page.
LEMMA StillRegistered ==
    ASSUME TypeOK, SweepsKept, NEW t \in Threads, ThreadOK(t), queue' = queue,
           pc[t] \in Registered, pc'[t] \in Registered, want'[t].page = want[t].page
    PROVE  \A p \in Pages : LeftOK(t, p)'
BY SweptKept DEF ThreadOK, LeftOK

\* A parked waiter that wakes.
LEMMA WakingIsSafe ==
    ASSUME TypeOK, SweepsKept, NEW t \in Threads, ThreadOK(t), pc[t] = "parked", pc'[t] = "woken",
           UNCHANGED <<active, draining, queue, want>>
    PROVE  ThreadOK(t)'
<1>1. \A p \in Pages : LeftOK(t, p)'
    BY StillRegistered DEF Registered
<1>2. want[t].seen \in Threads /\ ~want[t].mid
    BY DEF ThreadOK, Waiting
<1>3. Assured(t) /\ queue[want[t].page][t] > 0 => Assured(t)'
    BY <1>2, AssuredKept
<1>4. WaiterOK(t)'
    BY <1>2, <1>3 DEF ThreadOK, WaiterOK, HolderOf
<1>5. QED
    BY <1>1, <1>2, <1>4 DEF ThreadOK

\* A thread that is not registered, before or after.
LEMMA NotWaiting ==
    ASSUME TypeOK, SweepsKept, NEW t \in Threads, ThreadOK(t), queue' = queue,
           pc[t] \notin Registered, pc'[t] \notin Registered, ~want'[t].mid,
           pc'[t] \in Waiting => want'[t].seen \in Threads
    PROVE  ThreadOK(t)'
<1>1. \A p \in Pages : LeftOK(t, p)'
    BY LeftKept
<1>2. QED
    BY <1>1 DEF ThreadOK, WaiterOK, Registered

\* A step of thread t that notifies nobody: the other threads, and the count.
LEMMA QuietFrame ==
    ASSUME IInv, NEW t \in Threads, UNCHANGED <<draining, queue, count, note>>,
           pc[t] \notin {"notify", "sweep", "releasing"}, pc'[t] # "sweep",
           \A u \in Actors \ {t} : pc'[u] = pc[u],
           \A u \in Threads \ {t} : want'[u] = want[u] /\ (u \in token => u \in token'),
           \A p \in Pages : active[p] \in Threads => active'[p] = active[p],
           \A p \in Pages : draining[p] \in Threads => active'[p] = active[p]
    PROVE  /\ DrainedWhileSweeping' /\ CountIsExact' /\ SweepsKept
           /\ \A u \in Threads : ThreadOK(u)
           /\ \A u \in Threads \ {t} : ThreadOK(u)'
<1>1. t \in Actors /\ \A u \in Threads : u \in Actors
    BY DEF Actors
<1>2. DrainedWhileSweeping'
    BY <1>1 DEF IInv, DrainedWhileSweeping
<1>3. CountIsExact'
    BY CountFrame DEF IInv
<1>4. SweepsKept
    <2>1. ASSUME NEW p \in Pages, NEW a \in Actors, WillSweep(a, p)
          PROVE  WillSweep(a, p)'
      BY <2>1 DEF WillSweep
    <2>2. \A v \in Threads : pc[v] = "releasing" => pc'[v] = "releasing"
      BY <1>1
    <2>3. QED
      BY <2>1, <2>2 DEF SweepsKept
<1>5. HoldersKept
    BY DEF HoldersKept, HolderOf, IInv, TypeOK
<1>6. \A u \in Threads : ThreadOK(u)
    BY ByThread DEF IInv
<1>7. ASSUME NEW u \in Threads \ {t}
      PROVE  ThreadOK(u)'
    <2>1. EntriesKept(u)
      BY DEF EntriesKept
    <2>2. TypeOK /\ pc'[u] = pc[u]
      BY <1>1 DEF IInv
    <2>3. QED
      BY <1>4, <1>5, <1>6, <2>1, <2>2, ThreadKept
<1>8. QED
    BY <1>2, <1>3, <1>4, <1>6, <1>7

-----------------------------------------------------------------------------
(* Looks and acquisitions *)

LEMMA MidOfWant ==
    ASSUME NEW w \in Wants, NEW b \in BOOLEAN
    PROVE  /\ [w EXCEPT !.mid = b] \in Wants /\ [w EXCEPT !.mid = b].mid = b
           /\ [w EXCEPT !.mid = b].page = w.page /\ [w EXCEPT !.mid = b].seen = w.seen
BY DEF Wants

LEMMA SetMid ==
    ASSUME TypeOK, NEW t \in Threads, want' = [want EXCEPT ![t].mid = (Looked(t) = "more")]
    PROVE  /\ want' \in [Threads -> Wants]
           /\ \A u \in Threads \ {t} : want'[u] = want[u]
           /\ want'[t].page = want[t].page /\ want'[t].seen = want[t].seen
           /\ want'[t].mid <=> Looked(t) = "more"
<1>1. PICK b \in BOOLEAN : b = (Looked(t) = "more")
    BY Zenon
<1> DEFINE w == [want[t] EXCEPT !.mid = b]
<1>2. want' = [want EXCEPT ![t] = w]
    BY <1>1
<1>3. want \in [Threads -> Wants]
    BY Types
<1>4. want[t] \in Wants
    BY <1>3
<1>5. w \in Wants /\ w.mid = b /\ w.page = want[t].page /\ w.seen = want[t].seen
    BY <1>4, MidOfWant
<1> HIDE DEF w
<1>6. want'[t] = w /\ want' \in [Threads -> Wants] /\ \A u \in Threads \ {t} : want'[u] = want[u]
    BY <1>2, <1>3, <1>5
<1>7. QED
    BY <1>1, <1>5, <1>6

\* What a look can find.
LEMMA LookedCases ==
    ASSUME TypeOK, HeldIsTabled, DrainingIsFree, NEW t \in Threads, want[t].seen \in Threads
    PROVE  LET p == want[t].page
               s == want[t].seen
           IN  /\ Looked(t) \in {"same", "changed", "more"}
               /\ Looked(t) = "same" => HolderOf(p) = s
               /\ Looked(t) = "changed" /\ ~want[t].mid => HolderOf(p) # s
               /\ Looked(t) = "changed" /\ want[t].mid => draining[p] # s
               /\ Looked(t) = "more" => ~want[t].mid /\ active[p] = NoTxn
<1> DEFINE p == want[t].page
           s == want[t].seen
<1>1. p \in Pages /\ s # NoTxn
    BY DEF TypeOK
<1>2. active[p] = NoTxn \/ draining[p] = NoTxn
    BY <1>1 DEF HeldIsTabled
<1>3. p \in Fast \/ ~rebuilding => draining[p] = NoTxn
    BY <1>1 DEF DrainingIsFree
<1>4. want[t].mid \in BOOLEAN
    BY DEF TypeOK
<1>5. CASE want[t].mid
    BY <1>1, <1>2, <1>4, <1>5 DEF Looked, HolderOf
<1>6. CASE ~want[t].mid
    BY <1>1, <1>2, <1>3, <1>4, <1>6 DEF Looked, HolderOf
<1>7. QED
    BY <1>4, <1>5, <1>6

\* A look is a quiet step: what is left to show is where it leads the waiter.
LEMMA LookFrame ==
    ASSUME IInv, NEW t \in Threads, NEW l \in Labels \ {"sweep", "insert"}, NEW m \in Labels \ {"sweep", "insert"},
           pc[t] \in {"look", "recheck", "woken"},
           Look(t, l, m), UNCHANGED <<locks, waiters, note, held>>
    PROVE  /\ SweepsKept /\ ThreadOK(t)
           /\ ThreadOK(t)' => IInv'
<1>1. want[t].seen \in Threads /\ TypeOK /\ t \in Actors
    BY DEF IInv, WaitsForHolder, Waiting, Actors
<1>2. UNCHANGED <<active, draining, rebuilding, queue, count, token, note, held>>
    BY DEF locks, waiters
<1>3. PICK x \in Labels \ {"sweep", "insert"} : pc' = [pc EXCEPT ![t] = x]
    <2>1. pc[t] \in Labels \ {"sweep", "insert"}
      BY <1>1, Types
    <2>2. CASE Looked(t) = "same"
      BY <2>2 DEF Look, Goto
    <2>3. CASE Looked(t) = "changed"
      BY <2>3 DEF Look, Goto
    <2>4. CASE Looked(t) \notin {"same", "changed"}
      BY <2>1, <2>4 DEF Look, Goto
    <2>5. QED
      BY <2>2, <2>3, <2>4
<1>4. /\ want' \in [Threads -> Wants]
      /\ \A u \in Threads \ {t} : want'[u] = want[u]
    BY <1>1, SetMid DEF Look
<1>5. pc \in [Actors -> Labels]
    BY <1>1, Types
<1>6. pc' \in [Actors -> Labels] /\ pc'[t] = x /\ \A u \in Actors \ {t} : pc'[u] = pc[u]
    BY <1>1, <1>3, <1>5
<1>7. TypeOK'
    BY <1>1, <1>2, <1>4, <1>6, Types DEF TypeOK, Labels, Wants
<1>8. HeldIsTabled'
    BY <1>2 DEF IInv, HeldIsTabled
<1>9. DrainingIsFree'
    BY <1>1, <1>2, <1>3, <1>4, <1>6 DEF IInv, DrainingIsFree, Actors
<1>10. /\ DrainedWhileSweeping' /\ CountIsExact' /\ SweepsKept /\ ThreadOK(t)
       /\ \A u \in Threads \ {t} : ThreadOK(u)'
    BY <1>2, <1>3, <1>4, <1>6, QuietFrame
<1>11. ThreadOK(t)' => IInv'
    BY <1>7, <1>8, <1>9, <1>10, ByThreadNext DEF IInv
<1>12. QED
    BY <1>10, <1>11

\* The look before parking: the waiter has no entry yet.
LEMMA FirstLookStep ==
    ASSUME IInv, NEW t \in Threads, FirstLook(t)
    PROVE  IInv'
<1>1. /\ Look(t, "register", "retry") /\ pc[t] = "look" /\ queue' = queue
      /\ UNCHANGED <<locks, waiters, note, held>>
    BY DEF FirstLook, waiters
<1>2. SweepsKept /\ ThreadOK(t) /\ (ThreadOK(t)' => IInv')
    BY <1>1, LookFrame DEF Labels
<1>3. TypeOK /\ HeldIsTabled /\ DrainingIsFree /\ want[t].seen \in Threads
    BY <1>1 DEF IInv, WaitsForHolder, Waiting
<1>4. /\ want'[t].page = want[t].page /\ want'[t].seen = want[t].seen
      /\ want'[t].mid <=> Looked(t) = "more"
    BY <1>1, <1>3, SetMid DEF Look
<1>5. pc'[t] \in {"register", "retry", "look"} /\ (Looked(t) = "more" => pc'[t] = "look")
    BY <1>1, <1>3, LookedCases DEF Look, Goto, TypeOK, Actors
<1>6. \A p \in Pages : LeftOK(t, p)'
    BY <1>1, <1>2, <1>3, LeftKept DEF Registered
<1>7. ThreadOK(t)'
    BY <1>3, <1>4, <1>5, <1>6 DEF ThreadOK, WaiterOK
<1>8. QED
    BY <1>2, <1>7

\* The look after registration lets the waiter park only if the holder that
\* it saw is there.
LEMMA RecheckStep ==
    ASSUME IInv, NEW t \in Threads, Recheck(t)
    PROVE  IInv'
<1>1. /\ Look(t, "parked", "withdraw") /\ pc[t] = "recheck" /\ queue' = queue /\ token' = token
      /\ UNCHANGED <<locks, waiters, note, held>> /\ active' = active /\ draining' = draining
    BY DEF Recheck, waiters, locks
<1>2. SweepsKept /\ ThreadOK(t) /\ (ThreadOK(t)' => IInv')
    BY <1>1, LookFrame DEF Labels
<1>3. TypeOK /\ HeldIsTabled /\ DrainingIsFree /\ want[t].seen \in Threads
    BY <1>1 DEF IInv, WaitsForHolder, Waiting
<1>4. /\ want'[t].page = want[t].page /\ want'[t].seen = want[t].seen
      /\ want'[t].mid <=> Looked(t) = "more"
    BY <1>1, <1>3, SetMid DEF Look
<1>5. \/ Looked(t) = "same" /\ pc'[t] = "parked" /\ HolderOf(want[t].page) = want[t].seen
      \/ Looked(t) = "changed" /\ pc'[t] = "withdraw"
      \/ Looked(t) = "more" /\ pc'[t] = "recheck"
    BY <1>1, <1>3, LookedCases DEF Look, Goto, TypeOK, Actors
<1>6. \A p \in Pages : LeftOK(t, p)'
    BY <1>1, <1>2, <1>3, <1>4, <1>5, StillRegistered DEF Registered
<1>7. WaiterOK(t)'
    BY <1>1, <1>4, <1>5 DEF WaiterOK, HolderOf
<1>8. ThreadOK(t)'
    BY <1>1, <1>2, <1>3, <1>4, <1>5, <1>6, <1>7 DEF ThreadOK
<1>9. QED
    BY <1>2, <1>8

\* A woken waiter that leaves its entry behind leaves it to a sweep.
LEMMA WokenStep ==
    ASSUME IInv, NEW t \in Threads, Woken(t)
    PROVE  IInv'
<1>1. /\ Look(t, "again", "retry") /\ pc[t] = "woken" /\ queue' = queue /\ token' = token
      /\ UNCHANGED <<locks, waiters, note, held>> /\ active' = active /\ draining' = draining
    BY DEF Woken, waiters, locks
<1>2. SweepsKept /\ ThreadOK(t) /\ (ThreadOK(t)' => IInv')
    BY <1>1, LookFrame DEF Labels
<1>3. TypeOK /\ HeldIsTabled /\ DrainingIsFree /\ want[t].seen \in Threads /\ want[t].page \in Pages
    BY <1>1 DEF IInv, WaitsForHolder, Waiting, TypeOK
<1>4. /\ want'[t].page = want[t].page /\ want'[t].seen = want[t].seen
      /\ want'[t].mid <=> Looked(t) = "more"
    BY <1>1, <1>3, SetMid DEF Look
<1>5. \/ Looked(t) = "same" /\ pc'[t] = "again"
      \/ Looked(t) = "changed" /\ pc'[t] = "retry"
      \/ Looked(t) = "more" /\ pc'[t] = "woken"
    BY <1>1, <1>3, LookedCases DEF Look, Goto, TypeOK, Actors
<1>6. ASSUME queue[want[t].page][t] > 0, ~Assured(t)
      PROVE  \/ want[t].mid /\ draining[want[t].page] = want[t].seen
             \/ ~want[t].mid /\ HolderOf(want[t].page) = want[t].seen
    BY <1>1, <1>2, <1>6 DEF ThreadOK, WaiterOK
<1>7. CASE Looked(t) = "same"
    <2>1. \A p \in Pages : LeftOK(t, p)'
      BY <1>1, <1>2, <1>3, <1>4, <1>5, <1>7, StillRegistered DEF Registered
    <2>2. QED
      BY <1>2, <1>3, <1>4, <1>5, <1>7, <2>1 DEF ThreadOK, WaiterOK
<1>8. CASE Looked(t) = "changed"
    <2>1. queue[want[t].page][t] > 0 => IsSwept(want[t].page)
      <3>1. queue[want[t].page][t] > 0 => Assured(t)
        BY <1>3, <1>6, <1>8, LookedCases
      <3>2. QED
        BY <1>3, <3>1 DEF Assured, IsSwept, Actors
    <2>2. ASSUME NEW p \in Pages, queue[p][t] > 0
          PROVE  IsSwept(p)'
      <3>1. IsSwept(p)
        BY <1>2, <2>1, <2>2 DEF ThreadOK, LeftOK
      <3>2. QED
        BY <1>1, <1>2, <2>2, <3>1, SweptKept
    <2>3. \A p \in Pages : LeftOK(t, p)'
      BY <1>1, <2>2 DEF LeftOK
    <2>4. QED
      BY <1>2, <1>3, <1>4, <1>5, <1>8, <2>3 DEF ThreadOK, WaiterOK, Waiting
<1>9. CASE Looked(t) = "more"
    <2>1. \A p \in Pages : LeftOK(t, p)'
      BY <1>1, <1>2, <1>3, <1>4, <1>5, <1>9, StillRegistered DEF Registered
    <2>2. queue[want[t].page][t] > 0 /\ Assured(t) => Assured(t)'
      BY <1>1, <1>2, <1>3, <1>4, AssuredKept
    <2>3. queue[want[t].page][t] > 0 /\ ~Assured(t) => draining[want[t].page] = want[t].seen
      BY <1>3, <1>6, <1>9, LookedCases DEF HolderOf
    <2>4. WaiterOK(t)'
      BY <1>1, <1>4, <1>9, <2>2, <2>3 DEF WaiterOK
    <2>5. QED
      BY <1>2, <1>3, <1>4, <1>5, <1>9, <2>1, <2>4 DEF ThreadOK
<1>10. QED
    BY <1>5, <1>7, <1>8, <1>9

\* The wait ends with a token, which only a parked waiter needs.
LEMMA UnparkedStep ==
    ASSUME IInv, NEW t \in Threads, Unparked(t)
    PROVE  IInv'
<1>1. /\ pc[t] = "parked" /\ pc' = [pc EXCEPT ![t] = "woken"] /\ token' = token \ {t}
      /\ UNCHANGED <<active, draining, rebuilding, queue, count, want, note, held>>
    BY DEF Unparked, Goto, locks
<1>2. TypeOK /\ t \in Actors
    BY DEF IInv, Actors
<1>3. pc' \in [Actors -> Labels] /\ pc'[t] = "woken" /\ \A u \in Actors \ {t} : pc'[u] = pc[u]
    BY <1>1, <1>2, Types DEF Labels
<1>4. TypeOK'
    BY <1>1, <1>2, <1>3 DEF TypeOK, Labels
<1>5. HeldIsTabled' /\ DrainingIsFree'
    BY <1>1, <1>2, <1>3 DEF IInv, HeldIsTabled, DrainingIsFree, Actors
<1>6. /\ DrainedWhileSweeping' /\ CountIsExact' /\ SweepsKept /\ ThreadOK(t)
      /\ \A u \in Threads \ {t} : ThreadOK(u)'
    BY <1>1, <1>3, QuietFrame
<1>7. ThreadOK(t)'
    BY <1>1, <1>2, <1>3, <1>6, WakingIsSafe
<1>8. QED
    BY <1>4, <1>5, <1>6, <1>7, ByThreadNext DEF IInv

\* The wait ends by itself.
LEMMA ParkTimesOutStep ==
    ASSUME IInv, NEW t \in Threads, ParkTimesOut(t)
    PROVE  IInv'
<1>1. /\ pc[t] = "parked" /\ pc' = [pc EXCEPT ![t] = "woken"]
      /\ UNCHANGED <<active, draining, rebuilding, queue, count, token, want, note, held>>
    BY DEF ParkTimesOut, Goto, locks, waiters
<1>2. TypeOK /\ t \in Actors
    BY DEF IInv, Actors
<1>3. pc' \in [Actors -> Labels] /\ pc'[t] = "woken" /\ \A u \in Actors \ {t} : pc'[u] = pc[u]
    BY <1>1, <1>2, Types DEF Labels
<1>4. TypeOK'
    BY <1>1, <1>2, <1>3 DEF TypeOK, Labels
<1>5. HeldIsTabled' /\ DrainingIsFree'
    BY <1>1, <1>2, <1>3 DEF IInv, HeldIsTabled, DrainingIsFree, Actors
<1>6. /\ DrainedWhileSweeping' /\ CountIsExact' /\ SweepsKept /\ ThreadOK(t)
      /\ \A u \in Threads \ {t} : ThreadOK(u)'
    BY <1>1, <1>3, QuietFrame
<1>7. ThreadOK(t)'
    BY <1>1, <1>2, <1>3, <1>6, WakingIsSafe
<1>8. QED
    BY <1>4, <1>5, <1>6, <1>7, ByThreadNext DEF IInv

\* A waiter gives the page up where it has no entry of its own.
LEMMA GiveUpStep ==
    ASSUME IInv, NEW t \in Threads, GiveUp(t)
    PROVE  IInv'
<1>1. /\ pc[t] \in {"look", "retry"} /\ pc' = [pc EXCEPT ![t] = "idle"]
      /\ want' = [want EXCEPT ![t] = NoWant]
      /\ UNCHANGED <<active, draining, rebuilding, queue, count, token, note, held>>
    BY DEF GiveUp, Goto, locks, waiters
<1>2. TypeOK /\ t \in Actors
    BY DEF IInv, Actors
<1>3. pc' \in [Actors -> Labels] /\ pc'[t] = "idle" /\ \A u \in Actors \ {t} : pc'[u] = pc[u]
    BY <1>1, <1>2, Types DEF Labels
<1>4. /\ want' \in [Threads -> Wants] /\ want'[t] = NoWant
      /\ \A u \in Threads \ {t} : want'[u] = want[u]
    BY <1>1, <1>2, Types, NoWantType
<1>5. TypeOK'
    BY <1>1, <1>2, <1>3, <1>4 DEF TypeOK, Labels, Wants
<1>6. HeldIsTabled' /\ DrainingIsFree'
    BY <1>1, <1>2, <1>3, <1>4 DEF IInv, HeldIsTabled, DrainingIsFree, Actors
<1>7. /\ DrainedWhileSweeping' /\ CountIsExact' /\ SweepsKept /\ ThreadOK(t)
      /\ \A u \in Threads \ {t} : ThreadOK(u)'
    BY <1>1, <1>3, <1>4, QuietFrame
<1>8. ThreadOK(t)'
    BY <1>1, <1>2, <1>3, <1>4, <1>7, NoWantType, NotWaiting DEF Registered, Waiting
<1>9. QED
    BY <1>5, <1>6, <1>7, <1>8, ByThreadNext DEF IInv

\* A thread that dies is neither waiting nor notifying.
LEMMA DieStep ==
    ASSUME IInv, NEW t \in Threads, Die(t)
    PROVE  IInv'
<1>1. /\ pc[t] = "idle" /\ pc' = [pc EXCEPT ![t] = "dead"]
      /\ UNCHANGED <<active, draining, rebuilding, queue, count, token, want, note, held>>
    BY DEF Die, Goto, locks, waiters
<1>2. TypeOK /\ t \in Actors
    BY DEF IInv, Actors
<1>3. pc' \in [Actors -> Labels] /\ pc'[t] = "dead" /\ \A u \in Actors \ {t} : pc'[u] = pc[u]
    BY <1>1, <1>2, Types DEF Labels
<1>4. TypeOK'
    BY <1>1, <1>2, <1>3 DEF TypeOK, Labels
<1>5. HeldIsTabled' /\ DrainingIsFree'
    BY <1>1, <1>2, <1>3 DEF IInv, HeldIsTabled, DrainingIsFree, Actors
<1>6. /\ DrainedWhileSweeping' /\ CountIsExact' /\ SweepsKept /\ ThreadOK(t)
      /\ \A u \in Threads \ {t} : ThreadOK(u)'
    BY <1>1, <1>3, QuietFrame
<1>7. ~want'[t].mid
    BY <1>1, <1>6 DEF ThreadOK
<1>8. ThreadOK(t)'
    BY <1>1, <1>2, <1>3, <1>6, <1>7, NotWaiting DEF Registered, Waiting
<1>9. QED
    BY <1>4, <1>5, <1>6, <1>8, ByThreadNext DEF IInv

\* An acquisition refused: the thread waits for the holder it was told of.
LEMMA RefusedStep ==
    ASSUME IInv, NEW t \in Threads, NEW p \in Pages, NEW h \in Threads,
           pc[t] \in {"idle", "retry", "insert"}, Refused(t, p, h),
           UNCHANGED <<draining, rebuilding, waiters, note>>
    PROVE  IInv'
<1> DEFINE w == [page |-> p, seen |-> h, mid |-> FALSE]
<1>1. /\ pc' = [pc EXCEPT ![t] = "look"] /\ want' = [want EXCEPT ![t] = w]
      /\ UNCHANGED <<active, draining, rebuilding, queue, count, token, note, held>>
    BY DEF Refused, Goto, waiters
<1>2. TypeOK /\ t \in Actors
    BY DEF IInv, Actors
<1>3. pc' \in [Actors -> Labels] /\ pc'[t] = "look" /\ \A u \in Actors \ {t} : pc'[u] = pc[u]
    BY <1>1, <1>2, Types DEF Labels
<1>4. w \in Wants /\ w.seen = h /\ ~w.mid
    BY DEF Wants
<1> HIDE DEF w
<1>5. /\ want' \in [Threads -> Wants] /\ want'[t] = w
      /\ \A u \in Threads \ {t} : want'[u] = want[u]
    BY <1>1, <1>2, <1>4, Types
<1>6. TypeOK'
    BY <1>1, <1>2, <1>3, <1>5 DEF TypeOK, Labels, Wants
<1>7. HeldIsTabled' /\ DrainingIsFree'
    BY <1>1, <1>2, <1>3, <1>5 DEF IInv, HeldIsTabled, DrainingIsFree, Actors
<1>8. /\ DrainedWhileSweeping' /\ CountIsExact' /\ SweepsKept /\ ThreadOK(t)
      /\ \A u \in Threads \ {t} : ThreadOK(u)'
    BY <1>1, <1>3, <1>5, QuietFrame
<1>9. ThreadOK(t)'
    BY <1>1, <1>2, <1>3, <1>4, <1>5, <1>8, NotWaiting DEF Registered, Waiting
<1>10. QED
    BY <1>6, <1>7, <1>8, <1>9, ByThreadNext DEF IInv

\* A page granted: it was free in both tables, or the thread's own.
LEMMA GrantedStep ==
    ASSUME IInv, NEW t \in Threads, NEW p \in Pages,
           pc[t] \in {"idle", "retry", "insert"}, Granted(t, p),
           \/ /\ active[p] \in {NoTxn, t} /\ active' = [active EXCEPT ![p] = t]
              /\ draining[p] = NoTxn
           \/ draining[p] = t /\ active' = active,
           UNCHANGED <<draining, rebuilding, waiters, note>>
    PROVE  IInv'
<1>1. /\ pc' = [pc EXCEPT ![t] = "idle"] /\ want' = [want EXCEPT ![t] = NoWant]
      /\ held' = [held EXCEPT ![t] = @ \cup {p}]
      /\ UNCHANGED <<draining, rebuilding, queue, count, token, note>>
    BY DEF Granted, Goto, waiters
<1>2. TypeOK /\ t \in Actors
    BY DEF IInv, Actors
<1>3. pc' \in [Actors -> Labels] /\ pc'[t] = "idle" /\ \A u \in Actors \ {t} : pc'[u] = pc[u]
    BY <1>1, <1>2, Types DEF Labels
<1>4. /\ want' \in [Threads -> Wants] /\ want'[t] = NoWant
      /\ \A u \in Threads \ {t} : want'[u] = want[u]
    BY <1>1, <1>2, Types, NoWantType
<1>5. active' \in [Pages -> Threads \cup {NoTxn}] /\ \A q \in Pages \ {p} : active'[q] = active[q]
    <2>1. active \in [Pages -> Threads \cup {NoTxn}]
      BY <1>2 DEF TypeOK
    <2>2. CASE active' = [active EXCEPT ![p] = t]
      BY <2>1, <2>2
    <2>3. CASE active' = active
      BY <2>1, <2>3
    <2>4. QED
      BY <2>2, <2>3
<1>6. /\ held' \in [Threads -> SUBSET Pages] /\ held'[t] = held[t] \cup {p}
      /\ \A u \in Threads \ {t} : held'[u] = held[u]
    BY <1>1, <1>2 DEF TypeOK
<1>7. TypeOK'
    BY <1>1, <1>2, <1>3, <1>4, <1>5, <1>6 DEF TypeOK, Labels, Wants
<1>8. HeldIsTabled'
    <2>1. ASSUME NEW q \in Pages \ {p}
          PROVE  /\ \A u \in Threads : q \in held'[u] <=> u \in {active'[q], draining'[q]}
                 /\ active'[q] = NoTxn \/ draining'[q] = NoTxn
      BY <1>1, <1>5, <1>6 DEF IInv, HeldIsTabled
    <2>2. /\ \A u \in Threads : p \in held[u] <=> u \in {active[p], draining[p]}
          /\ active[p] = NoTxn \/ draining[p] = NoTxn
      BY DEF IInv, HeldIsTabled
    <2>3. /\ \A u \in Threads : p \in held'[u] <=> u \in {active'[p], draining'[p]}
          /\ active'[p] = NoTxn \/ draining'[p] = NoTxn
      BY <1>1, <1>2, <1>6, <2>2 DEF TypeOK
    <2>4. QED
      BY <2>1, <2>3 DEF HeldIsTabled
<1>9. DrainingIsFree'
    BY <1>1, <1>2, <1>3, <1>4 DEF IInv, DrainingIsFree, Actors
<1>10. \A q \in Pages : /\ active[q] \in Threads => active'[q] = active[q]
                        /\ draining[q] \in Threads => active'[q] = active[q]
    BY <1>2, <1>5 DEF TypeOK, IInv, HeldIsTabled
<1>11. /\ DrainedWhileSweeping' /\ CountIsExact' /\ SweepsKept /\ ThreadOK(t)
       /\ \A u \in Threads \ {t} : ThreadOK(u)'
    BY <1>1, <1>3, <1>4, <1>10, QuietFrame
<1>12. ThreadOK(t)'
    BY <1>1, <1>2, <1>3, <1>4, <1>11, NoWantType, NotWaiting DEF Registered, Waiting
<1>13. QED
    BY <1>7, <1>8, <1>9, <1>11, <1>12, ByThreadNext DEF IInv

\* The first half of a sharded acquisition in a rebuild: the page is free in
\* the draining table, to which only begin_rebuild adds.
LEMMA HalfAcquireStep ==
    ASSUME IInv, NEW t \in Threads, NEW p \in Pages, pc[t] \in {"idle", "retry"},
           draining[p] = NoTxn, Goto(t, "insert"),
           want' = [want EXCEPT ![t] = [NoWant EXCEPT !.page = p]],
           UNCHANGED <<active, held, draining, rebuilding, waiters, note>>
    PROVE  IInv'
<1> DEFINE w == [NoWant EXCEPT !.page = p]
<1>1. /\ pc' = [pc EXCEPT ![t] = "insert"] /\ want' = [want EXCEPT ![t] = w]
      /\ UNCHANGED <<active, draining, rebuilding, queue, count, token, note, held>>
    BY DEF Goto, waiters
<1>2. TypeOK /\ t \in Actors
    BY DEF IInv, Actors
<1>3. pc' \in [Actors -> Labels] /\ pc'[t] = "insert" /\ \A u \in Actors \ {t} : pc'[u] = pc[u]
    BY <1>1, <1>2, Types DEF Labels
<1>4. w \in Wants /\ w.page = p /\ ~w.mid
    BY DEF Wants, NoWant
<1> HIDE DEF w
<1>5. /\ want' \in [Threads -> Wants] /\ want'[t] = w
      /\ \A u \in Threads \ {t} : want'[u] = want[u]
    BY <1>1, <1>2, <1>4, Types
<1>6. TypeOK'
    BY <1>1, <1>2, <1>3, <1>5 DEF TypeOK, Labels, Wants
<1>7. HeldIsTabled'
    BY <1>1 DEF IInv, HeldIsTabled
<1>8. DrainingIsFree'
    BY <1>1, <1>2, <1>3, <1>4, <1>5 DEF IInv, DrainingIsFree, Actors
<1>9. /\ DrainedWhileSweeping' /\ CountIsExact' /\ SweepsKept /\ ThreadOK(t)
      /\ \A u \in Threads \ {t} : ThreadOK(u)'
    BY <1>1, <1>3, <1>5, QuietFrame
<1>10. ThreadOK(t)'
    BY <1>1, <1>2, <1>3, <1>4, <1>5, <1>9, NotWaiting DEF Registered, Waiting
<1>11. QED
    BY <1>6, <1>7, <1>8, <1>9, <1>10, ByThreadNext DEF IInv

\* The insertion into the active table of a page that the draining table
\* does not have.
LEMMA InsertStep ==
    ASSUME IInv, NEW t \in Threads, NEW p \in Pages, pc[t] \in {"idle", "retry", "insert"},
           draining[p] = NoTxn, Insert(t, p), UNCHANGED <<draining, rebuilding, waiters, note>>
    PROVE  IInv'
<1>1. CASE active[p] \in {NoTxn, t}
    <2>1. active' = [active EXCEPT ![p] = t] /\ Granted(t, p)
      BY <1>1 DEF Insert
    <2>2. QED
      BY <1>1, <2>1, GrantedStep
<1>2. CASE active[p] \notin {NoTxn, t}
    <2>1. Refused(t, p, active[p]) /\ active[p] \in Threads
      BY <1>2 DEF Insert, IInv, TypeOK
    <2>2. PICK h \in Threads : h = active[p]
      BY <2>1
    <2>3. Refused(t, p, h)
      BY <2>1, <2>2
    <2>4. QED
      BY <2>3, RefusedStep
<1>3. QED
    BY <1>1, <1>2

LEMMA TryAcquireStep ==
    ASSUME IInv, NEW t \in Threads, NEW p \in Pages, TryAcquire(t, p)
    PROVE  IInv'
<1>1. pc[t] \in {"idle", "retry"} /\ UNCHANGED <<draining, rebuilding, waiters, note>>
    BY DEF TryAcquire
<1>2. CASE p \in Fast \/ ~rebuilding
    <2>1. Insert(t, p) /\ draining[p] = NoTxn
      BY <1>2 DEF TryAcquire, IInv, DrainingIsFree
    <2>2. QED
      BY <1>1, <2>1, InsertStep
<1>3. CASE ~(p \in Fast \/ ~rebuilding) /\ draining[p] = t
    <2>1. Granted(t, p) /\ active' = active
      BY <1>3 DEF TryAcquire
    <2>2. QED
      BY <1>1, <1>3, <2>1, GrantedStep
<1>4. CASE ~(p \in Fast \/ ~rebuilding) /\ draining[p] # t /\ draining[p] # NoTxn
    <2>1. Refused(t, p, draining[p]) /\ draining[p] \in Threads
      BY <1>4 DEF TryAcquire, IInv, TypeOK
    <2>2. PICK h \in Threads : h = draining[p]
      BY <2>1
    <2>3. Refused(t, p, h)
      BY <2>1, <2>2
    <2>4. QED
      BY <1>1, <2>3, RefusedStep
<1>5. CASE ~(p \in Fast \/ ~rebuilding) /\ draining[p] # t /\ draining[p] = NoTxn
    <2>1. /\ Goto(t, "insert") /\ want' = [want EXCEPT ![t] = [NoWant EXCEPT !.page = p]]
          /\ UNCHANGED <<active, held>>
      BY <1>5 DEF TryAcquire
    <2>2. QED
      BY <1>1, <1>5, <2>1, HalfAcquireStep
<1>6. QED
    BY <1>2, <1>3, <1>4, <1>5

LEMMA TryInsertStep ==
    ASSUME IInv, NEW t \in Threads, TryInsert(t)
    PROVE  IInv'
<1>1. /\ pc[t] = "insert" /\ Insert(t, want[t].page)
      /\ UNCHANGED <<draining, rebuilding, waiters, note>>
    BY DEF TryInsert
<1>2. want[t].page \in Pages /\ draining[want[t].page] = NoTxn
    BY <1>1 DEF IInv, TypeOK, DrainingIsFree
<1>3. PICK p \in Pages : p = want[t].page
    BY <1>2
<1>4. Insert(t, p) /\ draining[p] = NoTxn
    BY <1>1, <1>2, <1>3
<1>5. QED
    BY <1>1, <1>4, InsertStep

-----------------------------------------------------------------------------
(* Registration *)

\* A step of thread t on its own entries of one page: the other threads.
LEMMA OwnEntryFrame ==
    ASSUME IInv, NEW t \in Threads, NEW p \in Pages, NEW n \in Nat, NEW l \in Labels,
           queue' = [queue EXCEPT ![p][t] = n], pc' = [pc EXCEPT ![t] = l], l # "sweep", l # "insert",
           pc[t] \notin {"notify", "sweep", "releasing"}, count' \in Nat,
           UNCHANGED <<active, draining, rebuilding, token, want, note, held>>
    PROVE  /\ TypeOK' /\ HeldIsTabled' /\ DrainingIsFree' /\ DrainedWhileSweeping'
           /\ SweepsKept /\ ThreadOK(t)
           /\ pc'[t] = l /\ queue'[p][t] = n
           /\ \A q \in Pages \ {p} : queue'[q][t] = queue[q][t]
           /\ \A u \in Threads \ {t} : ThreadOK(u)'
<1>1. TypeOK /\ t \in Actors /\ \A u \in Threads : u \in Actors
    BY DEF IInv, Actors
<1>2. /\ pc' \in [Actors -> Labels] /\ pc'[t] = l
      /\ \A u \in Actors \ {t} : pc'[u] = pc[u]
    BY <1>1, Types
<1>3. /\ queue' \in [Pages -> [Threads -> Nat]] /\ queue'[p][t] = n
      /\ \A q \in Pages \ {p} : queue'[q] = queue[q]
      /\ \A u \in Threads \ {t} : queue'[p][u] = queue[p][u]
    BY <1>1 DEF TypeOK
<1>4. TypeOK'
    BY <1>1, <1>2, <1>3 DEF TypeOK, Labels
<1>5. HeldIsTabled' /\ DrainingIsFree' /\ DrainedWhileSweeping'
    BY <1>1, <1>2 DEF IInv, HeldIsTabled, DrainingIsFree, DrainedWhileSweeping
<1>6. SweepsKept
    <2>1. ASSUME NEW q \in Pages, NEW a \in Actors, WillSweep(a, q)
          PROVE  WillSweep(a, q)'
      BY <1>2, <2>1 DEF WillSweep
    <2>2. \A v \in Threads : pc[v] = "releasing" => pc'[v] = "releasing"
      BY <1>1, <1>2
    <2>3. QED
      BY <2>1, <2>2 DEF SweepsKept
<1>7. HoldersKept
    BY DEF HoldersKept, HolderOf
<1>8. \A u \in Threads : ThreadOK(u)
    BY ByThread DEF IInv
<1>9. ASSUME NEW u \in Threads \ {t}
      PROVE  ThreadOK(u)'
    <2>1. EntriesKept(u)
      BY <1>3 DEF EntriesKept
    <2>2. pc'[u] = pc[u]
      BY <1>1, <1>2
    <2>3. QED
      BY <1>1, <1>6, <1>7, <1>8, <2>1, <2>2, ThreadKept
<1>10. QED
    BY <1>2, <1>3, <1>4, <1>5, <1>6, <1>8, <1>9

\* The count that an entry's change asks for.
LEMMA OwnEntryCount ==
    ASSUME TypeOK, CountIsExact, NEW t \in Threads, NEW p \in Pages, NEW n \in Nat,
           queue' = [queue EXCEPT ![p][t] = n], note' = note,
           count' = count - queue[p][t] + n
    PROVE  count' \in Nat /\ CountIsExact'
<1> DEFINE r == [queue[p] EXCEPT ![t] = n]
           Q == Total([x \in Pages |-> Entries(x)])
           D == Total([b \in Actors |-> note[b].drained])
<1>1. queue[p] \in [Threads -> Nat] /\ queue[p][t] \in Nat /\ count \in Nat
    BY DEF TypeOK
<1>2. r \in [Threads -> Nat] /\ queue' = [queue EXCEPT ![p] = r]
    BY <1>1 DEF TypeOK
<1>3. Total(r) = Total(queue[p]) - queue[p][t] + n
    BY <1>1, TotalUpdate
<1>4. queue[p][t] <= Entries(p)
    BY <1>1, TotalBound DEF Entries
<1> HIDE DEF r
<1>5. /\ Q \in Nat /\ Entries(p) \in Nat /\ Entries(p) <= Q
      /\ Total([x \in Pages |-> Entries(x)]') = Q - Entries(p) + Total(r)
    BY <1>2, QueueUpdate
<1>6. D \in Nat
    <2>1. [b \in Actors |-> note[b].drained] \in [Actors -> Nat] /\ IsFiniteSet(Actors)
      BY FS_AddElement DEF TypeOK, Actors
    <2>2. QED
      BY <2>1, TotalBound
<1>7. count = Q + D
    BY DEF CountIsExact
<1>8. Total(queue[p]) = Entries(p)
    BY DEF Entries
<1> HIDE DEF Q, D
<1>9. count' \in Nat
    BY <1>1, <1>4, <1>5, <1>6, <1>7
<1>10. count' = Total([x \in Pages |-> Entries(x)]') + D
    BY <1>1, <1>3, <1>4, <1>5, <1>6, <1>7, <1>8
<1>11. QED
    BY <1>9, <1>10 DEF CountIsExact, D

\* Registration adds one entry and one to the count.
LEMMA RegisterStep ==
    ASSUME IInv, NEW t \in Threads, Register(t)
    PROVE  IInv'
<1> DEFINE p == want[t].page
           n == queue[p][t] + 1
<1>1. /\ pc[t] = "register" /\ pc' = [pc EXCEPT ![t] = "recheck"]
      /\ count' = count + 1
      /\ UNCHANGED <<active, draining, rebuilding, token, want, note, held>>
    BY DEF Register, Goto, locks
<1>2. TypeOK /\ CountIsExact /\ p \in Pages /\ queue[p][t] \in Nat /\ count \in Nat
    BY DEF IInv, TypeOK
<1>3. PICK q \in Pages, m \in Nat : q = p /\ m = n
    BY <1>2
<1>4. queue' = [queue EXCEPT ![q][t] = m]
    BY <1>2, <1>3 DEF Register
<1>5. count' = count - queue[q][t] + m
    BY <1>1, <1>2, <1>3
<1>6. count' \in Nat /\ CountIsExact'
    BY <1>1, <1>2, <1>4, <1>5, OwnEntryCount
<1>7. /\ TypeOK' /\ HeldIsTabled' /\ DrainingIsFree' /\ DrainedWhileSweeping'
      /\ SweepsKept /\ ThreadOK(t)
      /\ pc'[t] = "recheck" /\ queue'[q][t] = m
      /\ \A x \in Pages \ {q} : queue'[x][t] = queue[x][t]
      /\ \A u \in Threads \ {t} : ThreadOK(u)'
    BY <1>1, <1>4, <1>6, OwnEntryFrame DEF Labels
<1>8. ASSUME NEW x \in Pages
      PROVE  LeftOK(t, x)'
    <2>1. CASE x = q
      BY <1>1, <1>3, <1>7, <2>1 DEF LeftOK, Registered
    <2>2. CASE x # q
      BY <1>1, <1>2, <1>7, <2>2, LeftKept DEF Registered
    <2>3. QED
      BY <2>1, <2>2
<1>9. ThreadOK(t)'
    <2>1. want[t].seen \in Threads /\ ~want[t].mid
      BY <1>1, <1>7 DEF ThreadOK, Waiting
    <2>2. queue'[want[t].page][t] > 0
      BY <1>2, <1>3, <1>7
    <2>3. QED
      BY <1>1, <1>7, <1>8, <2>1, <2>2 DEF ThreadOK, WaiterOK
<1>10. QED
    BY <1>6, <1>7, <1>9, ByThreadNext DEF IInv

\* Withdrawal takes a waiter's entries off the queue and off the count.
LEMMA UnregisterStep ==
    ASSUME IInv, NEW t \in Threads, Unregister(t)
    PROVE  IInv'
<1> DEFINE p == want[t].page
<1>1. /\ pc[t] \in {"withdraw", "again"}
      /\ UNCHANGED <<active, draining, rebuilding, token, want, note, held>>
    BY DEF Unregister, locks
<1>2. TypeOK /\ CountIsExact /\ p \in Pages /\ queue[p][t] \in Nat /\ count \in Nat
    BY DEF IInv, TypeOK
<1>3. PICK l \in {"retry", "look"} : pc' = [pc EXCEPT ![t] = l]
    BY DEF Unregister, Goto
<1>4. PICK q \in Pages : q = p
    BY <1>2
<1>5. queue' = [queue EXCEPT ![q][t] = 0] /\ count' = count - queue[q][t] + 0
    <2>1. CASE count = 0
      <3>1. queue[q][t] = 0
        BY <1>2, <2>1, NobodyCounted
      <3>2. queue' = queue /\ count' = count
        BY <2>1 DEF Unregister
      <3>3. queue = [queue EXCEPT ![q][t] = 0]
        BY <1>2, <3>1 DEF TypeOK
      <3>4. QED
        BY <1>2, <3>1, <3>2, <3>3
    <2>2. CASE count # 0
      <3>1. queue' = [queue EXCEPT ![p][t] = 0] /\ count' = count - queue[p][t]
        BY <2>2 DEF Unregister
      <3>2. QED
        BY <1>2, <1>4, <3>1
    <2>3. QED
      BY <2>1, <2>2
<1>6. count' \in Nat /\ CountIsExact'
    BY <1>1, <1>2, <1>5, OwnEntryCount
<1>7. /\ TypeOK' /\ HeldIsTabled' /\ DrainingIsFree' /\ DrainedWhileSweeping'
      /\ SweepsKept /\ ThreadOK(t)
      /\ pc'[t] = l /\ queue'[q][t] = 0
      /\ \A x \in Pages \ {q} : queue'[x][t] = queue[x][t]
      /\ \A u \in Threads \ {t} : ThreadOK(u)'
    BY <1>1, <1>3, <1>5, <1>6, OwnEntryFrame DEF Labels
<1>8. ASSUME NEW x \in Pages
      PROVE  LeftOK(t, x)'
    <2>1. CASE x = q
      BY <1>7, <2>1 DEF LeftOK
    <2>2. CASE x # q
      BY <1>1, <1>4, <1>7, <2>2, SweptKept DEF LeftOK, ThreadOK
    <2>3. QED
      BY <2>1, <2>2
<1>9. ThreadOK(t)'
    BY <1>1, <1>7, <1>8 DEF ThreadOK, WaiterOK, Waiting
<1>10. QED
    BY <1>6, <1>7, <1>9, ByThreadNext DEF IInv

-----------------------------------------------------------------------------
(* Release and notification *)

\* A lock dropped: its thread goes on to sweep the page, or to drop more and
\* then sweep all pages.
LEMMA DropStep ==
    ASSUME IInv, NEW t \in Threads, NEW p \in Pages, pc[t] \in {"idle", "releasing"},
           p \in held[t], Drop(t, p), UNCHANGED <<waiters, want>>,
           NEW l \in {"notify", "releasing"}, pc' = [pc EXCEPT ![t] = l],
           NEW n \in Notes, note' = [note EXCEPT ![t] = n], n.drained = 0,
           l = "notify" => p \in n.todo,
           l = "notify" /\ pc[t] = "releasing" => n.todo = Pages
    PROVE  IInv'
<1>1. /\ active' = [active EXCEPT ![p] = IF @ = t THEN NoTxn ELSE @]
      /\ draining' = [draining EXCEPT ![p] = IF @ = t THEN NoTxn ELSE @]
      /\ held' = [held EXCEPT ![t] = @ \ {p}]
      /\ UNCHANGED <<rebuilding, queue, count, token, want>>
    BY DEF Drop, waiters
<1>2. TypeOK /\ t \in Actors /\ \A u \in Threads : u \in Actors
    BY DEF IInv, Actors
<1>3. /\ pc' \in [Actors -> Labels] /\ pc'[t] = l
      /\ \A u \in Actors \ {t} : pc'[u] = pc[u]
    BY <1>2, Types DEF Labels
<1>4. /\ note' \in [Actors -> Notes] /\ note'[t] = n
      /\ \A u \in Actors \ {t} : note'[u] = note[u]
    BY <1>2, Types
<1>5. /\ active' \in [Pages -> Threads \cup {NoTxn}]
      /\ active'[p] = IF active[p] = t THEN NoTxn ELSE active[p]
      /\ \A q \in Pages \ {p} : active'[q] = active[q]
    BY <1>1, <1>2 DEF TypeOK
<1>6. /\ draining' \in [Pages -> Threads \cup {NoTxn}]
      /\ draining'[p] = IF draining[p] = t THEN NoTxn ELSE draining[p]
      /\ \A q \in Pages \ {p} : draining'[q] = draining[q]
    BY <1>1, <1>2 DEF TypeOK
<1>7. /\ held' \in [Threads -> SUBSET Pages] /\ held'[t] = held[t] \ {p}
      /\ \A u \in Threads \ {t} : held'[u] = held[u]
    BY <1>1, <1>2 DEF TypeOK
<1>8. /\ \A u \in Threads : p \in held[u] <=> u \in {active[p], draining[p]}
      /\ active[p] = NoTxn \/ draining[p] = NoTxn
    BY DEF IInv, HeldIsTabled
<1>9. TypeOK'
    BY <1>1, <1>2, <1>3, <1>4, <1>5, <1>6, <1>7 DEF TypeOK, Labels, Notes
<1>10. HeldIsTabled'
    <2>1. ASSUME NEW q \in Pages \ {p}
          PROVE  /\ \A u \in Threads : q \in held'[u] <=> u \in {active'[q], draining'[q]}
                 /\ active'[q] = NoTxn \/ draining'[q] = NoTxn
      BY <1>5, <1>6, <1>7 DEF IInv, HeldIsTabled
    <2>2. /\ \A u \in Threads : p \in held'[u] <=> u \in {active'[p], draining'[p]}
          /\ active'[p] = NoTxn \/ draining'[p] = NoTxn
      BY <1>5, <1>6, <1>7, <1>8
    <2>3. QED
      BY <2>1, <2>2 DEF HeldIsTabled
<1>11. DrainingIsFree'
    <2>1. \A q \in Pages : draining[q] = NoTxn => draining'[q] = NoTxn
      BY <1>6
    <2>2. \A u \in Threads : pc'[u] = "insert" => pc[u] = "insert" /\ want[u].page \in Pages
      BY <1>2, <1>3 DEF TypeOK
    <2>3. QED
      BY <1>1, <2>1, <2>2 DEF IInv, DrainingIsFree
<1>12. DrainedWhileSweeping'
    BY <1>3, <1>4 DEF IInv, DrainedWhileSweeping
<1>13. CountIsExact'
    <2>1. note[t].drained = 0
      BY <1>2 DEF IInv, DrainedWhileSweeping
    <2>2. \A a \in Actors : note'[a].drained = note[a].drained
      BY <1>4, <2>1
    <2>3. QED
      BY <1>1, <2>2, CountFrame DEF IInv
<1>14. SweepsKept
    <2>1. ASSUME NEW q \in Pages, NEW a \in Actors, WillSweep(a, q)
          PROVE  WillSweep(a, q)'
      BY <1>3, <1>4, <2>1 DEF WillSweep
    <2>2. ASSUME NEW v \in Threads, pc[v] = "releasing"
          PROVE  pc'[v] = "releasing" \/ \A q \in Pages : WillSweep(v, q)'
      BY <1>2, <1>3, <1>4, <2>2 DEF WillSweep
    <2>3. QED
      BY <2>1, <2>2 DEF SweepsKept
<1>15. HoldersKept
    <2>1. ASSUME NEW q \in Pages \ {p}
          PROVE  draining'[q] = draining[q] /\ HolderOf(q)' = HolderOf(q)
      BY <1>5, <1>6 DEF HolderOf
    <2>2. /\ draining[p] \in Threads => draining[p] = t
          /\ HolderOf(p) \in Threads => HolderOf(p) = t
      BY <1>2, <1>8 DEF HolderOf, TypeOK
    <2>3. l = "notify" => WillSweep(t, p)'
      BY <1>3, <1>4 DEF WillSweep
    <2>4. QED
      BY <1>2, <1>3, <2>1, <2>2, <2>3 DEF HoldersKept
<1>16. ASSUME NEW u \in Threads
       PROVE  ThreadOK(u)'
    <2>1. ThreadOK(u) /\ EntriesKept(u)
      BY <1>1, ByThread DEF IInv, EntriesKept
    <2>2. CASE u = t
      BY <1>1, <1>2, <1>3, <1>14, <2>1, <2>2, NotWaiting DEF Registered, Waiting, ThreadOK
    <2>3. CASE u # t
      BY <1>1, <1>2, <1>3, <1>14, <1>15, <2>1, <2>3, ThreadKept
    <2>4. QED
      BY <2>2, <2>3
<1>17. QED
    BY <1>9, <1>10, <1>11, <1>12, <1>13, <1>16, ByThreadNext DEF IInv

LEMMA ReleaseStep ==
    ASSUME IInv, NEW t \in Threads, NEW p \in Pages, Release(t, p)
    PROVE  IInv'
<1> DEFINE n == [todo |-> {p}, drained |-> 0]
<1>1. n \in Notes /\ n.drained = 0 /\ n.todo = {p}
    BY DEF Notes
<1>2. /\ pc[t] = "idle" /\ p \in held[t] /\ Drop(t, p) /\ UNCHANGED <<waiters, want>>
      /\ pc' = [pc EXCEPT ![t] = "notify"] /\ note' = [note EXCEPT ![t] = n]
    BY DEF Release, Goto
<1> HIDE DEF n
<1>3. QED
    BY <1>1, <1>2, DropStep

LEMMA ReleaseSetStep ==
    ASSUME IInv, NEW t \in Threads, NEW p \in Pages, ReleaseSet(t, p)
    PROVE  IInv'
<1> DEFINE n == [todo |-> Pages, drained |-> 0]
<1>1. n \in Notes /\ n.drained = 0 /\ n.todo = Pages
    BY DEF Notes
<1>2. /\ pc[t] \in {"idle", "releasing"} /\ p \in held[t] /\ Drop(t, p)
      /\ UNCHANGED <<waiters, want>>
    BY DEF ReleaseSet
<1>3. CASE held[t] = {p}
    <2>1. pc' = [pc EXCEPT ![t] = "notify"] /\ note' = [note EXCEPT ![t] = n]
      BY <1>3 DEF ReleaseSet, Goto
    <2> HIDE DEF n
    <2>2. QED
      BY <1>1, <1>2, <2>1, DropStep
<1>4. CASE held[t] # {p}
    <2>1. pc' = [pc EXCEPT ![t] = "releasing"] /\ note' = note
      BY <1>4 DEF ReleaseSet, Goto
    <2>2. note \in [Actors -> Notes] /\ t \in Actors /\ note[t].drained = 0
      BY <1>2, Types DEF IInv, DrainedWhileSweeping, Actors
    <2>3. PICK m \in Notes : m = note[t]
      BY <2>2
    <2>4. note' = [note EXCEPT ![t] = m] /\ m.drained = 0
      BY <2>1, <2>2, <2>3
    <2>5. QED
      BY <1>2, <2>1, <2>4, DropStep
<1>5. QED
    BY <1>3, <1>4

\* A notification is over at once only if there is nobody to wake.
LEMMA CountWaitersStep ==
    ASSUME IInv, NEW a \in Actors, CountWaiters(a)
    PROVE  IInv'
<1>1. /\ pc[a] = "notify" /\ note[a].drained = 0
      /\ UNCHANGED <<active, draining, rebuilding, queue, count, token, want, held>>
    BY DEF CountWaiters, locks, waiters, IInv, DrainedWhileSweeping
<1>2. TypeOK /\ \A u \in Threads : u \in Actors
    BY DEF IInv, Actors
<1>3. /\ pc' \in [Actors -> Labels] /\ pc'[a] \in {"sweep", "idle"}
      /\ \A u \in Actors \ {a} : pc'[u] = pc[u]
      /\ count > 0 => pc'[a] = "sweep"
    BY <1>2, Types DEF CountWaiters, Goto, Labels
<1>4. /\ note' \in [Actors -> Notes] /\ note'[a].drained = 0
      /\ \A u \in Actors \ {a} : note'[u] = note[u]
      /\ count > 0 => note' = note
    BY <1>1, <1>2, Types, NoteTypes DEF CountWaiters
<1>5. TypeOK'
    BY <1>1, <1>2, <1>3, <1>4 DEF TypeOK, Labels, Notes
<1>6. HeldIsTabled' /\ DrainingIsFree' /\ DrainedWhileSweeping'
    BY <1>1, <1>2, <1>3, <1>4 DEF IInv, HeldIsTabled, DrainingIsFree, DrainedWhileSweeping
<1>7. CountIsExact'
    <2>1. \A b \in Actors : note'[b].drained = note[b].drained
      BY <1>1, <1>4
    <2>2. QED
      BY <1>1, <2>1, CountFrame DEF IInv
<1>8. SweepsKept
    <2>1. ASSUME NEW q \in Pages, NEW u \in Threads, NEW b \in Actors,
                 queue'[q][u] > 0, WillSweep(b, q)
          PROVE  WillSweep(b, q)'
      <3>1. count > 0
        BY <1>1, <1>2, <2>1, NobodyCounted DEF IInv, TypeOK
      <3>2. QED
        BY <1>3, <1>4, <2>1, <3>1 DEF WillSweep
    <2>2. ASSUME NEW v \in Threads, pc[v] = "releasing"
          PROVE  pc'[v] = "releasing"
      BY <1>1, <1>2, <1>3, <2>2
    <2>3. QED
      BY <2>1, <2>2 DEF SweepsKept
<1>9. HoldersKept
    BY <1>1 DEF HoldersKept, HolderOf
<1>10. ASSUME NEW u \in Threads
       PROVE  ThreadOK(u)'
    <2>1. ThreadOK(u) /\ EntriesKept(u)
      BY <1>1, ByThread DEF IInv, EntriesKept
    <2>2. CASE u = a
      BY <1>1, <1>2, <1>3, <1>8, <2>1, <2>2, NotWaiting DEF Registered, Waiting, ThreadOK
    <2>3. CASE u # a
      BY <1>1, <1>2, <1>3, <1>8, <1>9, <2>1, <2>3, ThreadKept
    <2>4. QED
      BY <2>2, <2>3
<1>11. QED
    BY <1>5, <1>6, <1>7, <1>10, ByThreadNext DEF IInv

\* A sweep takes every entry of the page off the queue, and off the count now
\* or, with those of its other pages, at its end.
LEMMA SweepCount ==
    ASSUME IInv, NEW a \in Actors, NEW p \in Pages, Sweep(a, p)
    PROVE  /\ count' \in Nat /\ note' \in [Actors -> Notes] /\ CountIsExact'
           /\ \A b \in Actors \ {a} : note'[b] = note[b]
           /\ note[a].todo \ {p} # {} => note'[a].todo = note[a].todo \ {p} /\ pc' = pc
           /\ note[a].todo \ {p} = {} => note'[a].drained = 0 /\ pc' = [pc EXCEPT ![a] = "idle"]
<1> DEFINE zero == [t \in Threads |-> 0]
           Q == Total([x \in Pages |-> Entries(x)])
           D == Total([b \in Actors |-> note[b].drained])
           rest == note[a].todo \ {p}
           n == note[a].drained + Entries(p)
           m == [todo |-> rest, drained |-> n]
<1>1. TypeOK /\ note \in [Actors -> Notes] /\ count \in Nat
    BY Types DEF IInv, TypeOK
<1>2. queue' = [queue EXCEPT ![p] = zero] /\ zero \in [Threads -> Nat] /\ Total(zero) = 0
    <2>1. Total(zero) = 0
      BY TotalZero
    <2>2. QED
      BY <2>1 DEF Sweep
<1> HIDE DEF zero
<1>3. /\ Q \in Nat /\ Entries(p) \in Nat /\ Entries(p) <= Q
      /\ Total([x \in Pages |-> Entries(x)]') = Q - Entries(p)
    <2>1. /\ Q \in Nat /\ Entries(p) \in Nat /\ Entries(p) <= Q
          /\ Total([x \in Pages |-> Entries(x)]') = Q - Entries(p) + Total(zero)
      BY <1>1, <1>2, QueueUpdate
    <2> HIDE DEF Q
    <2>2. QED
      BY <1>2, <2>1
<1>4. count = Q + D
    BY DEF IInv, CountIsExact
<1>5. note[a].drained \in Nat /\ note[a] \in Notes /\ rest \in SUBSET Pages /\ n \in Nat
    BY <1>1, <1>3 DEF Notes
<1>6. m \in Notes /\ m.todo = rest /\ m.drained = n
    BY <1>5 DEF Notes
<1>7. D \in Nat /\ note[a].drained <= D
    <2>1. [b \in Actors |-> note[b].drained] \in [Actors -> Nat] /\ IsFiniteSet(Actors)
      BY <1>1, FS_AddElement DEF TypeOK, Actors
    <2>2. D \in Nat /\ [b \in Actors |-> note[b].drained][a] <= D
      BY <2>1, TotalBound
    <2>3. QED
      BY <2>2
<1>8. CASE rest = {}
    <2>1. count' = count - n /\ note' = [note EXCEPT ![a] = NoNote] /\ pc' = [pc EXCEPT ![a] = "idle"]
      BY <1>8 DEF Sweep, Goto
    <2>2. /\ note' \in [Actors -> Notes] /\ note'[a].drained = 0
          /\ \A b \in Actors \ {a} : note'[b] = note[b]
      BY <1>1, <2>1, NoteTypes
    <2>3. Total([b \in Actors |-> note'[b].drained]) = D - note[a].drained + 0
      <3>1. \A b \in Actors \ {a} : note'[b].drained = note[b].drained
        BY <2>2
      <3>2. TypeOK /\ note'[a].drained = 0 /\ 0 \in Nat
        BY <1>1, <2>2
      <3>. HIDE DEF D
      <3>3. Total([b \in Actors |-> note'[b].drained])
              = Total([b \in Actors |-> note[b].drained]) - note[a].drained + 0
        BY <3>1, <3>2, DrainedUpdate
      <3>4. QED
        BY <3>3 DEF D
    <2> HIDE DEF Q, D
    <2>4. count' \in Nat
      BY <1>3, <1>4, <1>5, <1>7, <2>1
    <2>5. count' = Total([x \in Pages |-> Entries(x)]') + Total([b \in Actors |-> note'[b].drained])
      BY <1>3, <1>4, <1>5, <1>7, <2>1, <2>3
    <2>6. CountIsExact'
      BY <2>5 DEF CountIsExact
    <2>7. QED
      BY <1>8, <2>1, <2>2, <2>4, <2>6
<1>9. CASE rest # {}
    <2>1. count' = count /\ pc' = pc /\ note' = [note EXCEPT ![a] = m]
      BY <1>9 DEF Sweep
    <2> HIDE DEF m
    <2>2. /\ note' \in [Actors -> Notes] /\ note'[a] = m
          /\ \A b \in Actors \ {a} : note'[b] = note[b]
      BY <1>1, <1>6, <2>1
    <2>3. note'[a].drained = n /\ note'[a].todo = rest
      BY <1>6, <2>2
    <2>4. Total([b \in Actors |-> note'[b].drained]) = D - note[a].drained + n
      <3>1. PICK k \in Nat : k = n
        BY <1>5
      <3>2. note'[a].drained = k
        BY <2>3, <3>1
      <3>3. \A b \in Actors \ {a} : note'[b].drained = note[b].drained
        BY <2>2
      <3>4. Total([b \in Actors |-> note'[b].drained])
              = Total([b \in Actors |-> note[b].drained]) - note[a].drained + k
        BY <1>1, <3>2, <3>3, DrainedUpdate
      <3>5. QED
        BY <3>1, <3>4
    <2> HIDE DEF Q, D
    <2>5. count' = Total([x \in Pages |-> Entries(x)]') + Total([b \in Actors |-> note'[b].drained])
      BY <1>3, <1>4, <1>5, <1>7, <2>1, <2>4
    <2>6. CountIsExact'
      BY <2>5 DEF CountIsExact
    <2>7. QED
      BY <1>1, <1>9, <2>1, <2>2, <2>3, <2>6
<1>10. QED
    BY <1>8, <1>9

\* A sweep gives every waiter of the page its token.
LEMMA SweepStep ==
    ASSUME IInv, NEW a \in Actors, NEW p \in Pages, Sweep(a, p)
    PROVE  IInv'
<1>1. /\ pc[a] = "sweep" /\ p \in note[a].todo
      /\ queue' = [queue EXCEPT ![p] = [t \in Threads |-> 0]]
      /\ token' = token \cup {t \in Threads : queue[p][t] > 0}
      /\ UNCHANGED <<active, draining, rebuilding, want, held>>
    BY DEF Sweep, locks
<1>2. TypeOK /\ \A u \in Threads : u \in Actors
    BY DEF IInv, Actors
<1>3. /\ count' \in Nat /\ note' \in [Actors -> Notes] /\ CountIsExact'
      /\ \A b \in Actors \ {a} : note'[b] = note[b]
      /\ note[a].todo \ {p} # {} => note'[a].todo = note[a].todo \ {p} /\ pc' = pc
      /\ note[a].todo \ {p} = {} => note'[a].drained = 0 /\ pc' = [pc EXCEPT ![a] = "idle"]
    BY SweepCount
<1>4. /\ pc' \in [Actors -> Labels] /\ pc'[a] \in {"sweep", "idle"}
      /\ \A u \in Actors \ {a} : pc'[u] = pc[u]
      /\ note[a].todo \ {p} # {} => pc'[a] = "sweep"
    <2>1. pc \in [Actors -> Labels]
      BY <1>2, Types
    <2>2. CASE note[a].todo \ {p} = {}
      BY <1>3, <2>1, <2>2 DEF Labels
    <2>3. CASE note[a].todo \ {p} # {}
      BY <1>1, <1>3, <2>1, <2>3
    <2>4. QED
      BY <2>2, <2>3
<1>5. /\ queue' \in [Pages -> [Threads -> Nat]]
      /\ \A u \in Threads : queue'[p][u] = 0
      /\ \A q \in Pages \ {p} : queue'[q] = queue[q]
    BY <1>1, <1>2 DEF TypeOK
<1>6. TypeOK'
    BY <1>1, <1>2, <1>3, <1>4, <1>5 DEF TypeOK, Labels, Notes
<1>7. HeldIsTabled' /\ DrainingIsFree'
    BY <1>1, <1>2, <1>4 DEF IInv, HeldIsTabled, DrainingIsFree
<1>8. DrainedWhileSweeping'
    BY <1>3, <1>4 DEF IInv, DrainedWhileSweeping
<1>9. SweepsKept
    <2>1. ASSUME NEW q \in Pages, NEW u \in Threads, NEW b \in Actors,
                 queue'[q][u] > 0, WillSweep(b, q)
          PROVE  WillSweep(b, q)'
      <3>1. q # p
        BY <1>5, <2>1
      <3>2. CASE b = a
        BY <1>3, <1>4, <2>1, <3>1, <3>2 DEF WillSweep
      <3>3. CASE b # a
        BY <1>3, <1>4, <2>1, <3>3 DEF WillSweep
      <3>4. QED
        BY <3>2, <3>3
    <2>2. ASSUME NEW v \in Threads, pc[v] = "releasing"
          PROVE  pc'[v] = "releasing"
      BY <1>1, <1>2, <1>4, <2>2
    <2>3. QED
      BY <2>1, <2>2 DEF SweepsKept
<1>10. HoldersKept
    BY <1>1 DEF HoldersKept, HolderOf
<1>11. ASSUME NEW u \in Threads
       PROVE  ThreadOK(u)'
    <2>1. ThreadOK(u)
      BY ByThread DEF IInv
    <2>2. EntriesKept(u)
      BY <1>1, <1>2, <1>5 DEF EntriesKept, TypeOK
    <2>3. CASE u = a
      <3>1. \A q \in Pages : LeftOK(u, q)'
        BY <1>1, <1>2, <1>5, <1>9, <2>1, <2>3, LeftKept DEF Registered
      <3>2. QED
        BY <1>1, <1>4, <2>1, <2>3, <3>1 DEF ThreadOK, WaiterOK, Waiting
    <2>4. CASE u # a
      BY <1>1, <1>2, <1>4, <1>9, <1>10, <2>1, <2>2, <2>4, ThreadKept
    <2>5. QED
      BY <2>3, <2>4
<1>12. QED
    BY <1>3, <1>6, <1>7, <1>8, <1>11, ByThreadNext DEF IInv

-----------------------------------------------------------------------------
(* Rebuilds *)

\* A rebuild begins when nobody is between two steps, and moves the sharded
\* locks from one table to the other.
LEMMA BeginRebuildStep ==
    ASSUME IInv, BeginRebuild
    PROVE  IInv'
<1>1. /\ \A t \in Threads : pc[t] \in {"idle", "dead"}
      /\ ~rebuilding /\ rebuilding' = TRUE
      /\ draining' = [p \in Pages |-> IF p \in Fast THEN NoTxn ELSE active[p]]
      /\ active' = [p \in Pages |-> IF p \in Fast THEN active[p] ELSE NoTxn]
      /\ UNCHANGED <<queue, count, token, pc, want, note, held>>
    BY DEF BeginRebuild, waiters
<1>2. \A p \in Pages : draining[p] = NoTxn
    BY <1>1 DEF IInv, DrainingIsFree
<1>3. TypeOK'
    BY <1>1 DEF IInv, TypeOK
<1>4. HeldIsTabled'
    BY <1>1, <1>2 DEF IInv, HeldIsTabled
<1>5. DrainingIsFree'
    BY <1>1 DEF DrainingIsFree
<1>6. DrainedWhileSweeping' /\ CountIsExact'
    BY <1>1, CountFrame DEF IInv, DrainedWhileSweeping
<1>7. SweepsKept
    BY <1>1 DEF SweepsKept, WillSweep
<1>8. HoldersKept
    BY <1>1, <1>2 DEF HoldersKept, HolderOf
<1>9. ASSUME NEW u \in Threads
      PROVE  ThreadOK(u)'
    <2>1. ThreadOK(u) /\ EntriesKept(u) /\ TypeOK
      BY <1>1, ByThread DEF IInv, EntriesKept
    <2>2. QED
      BY <1>1, <1>7, <1>8, <2>1, ThreadKept
<1>10. QED
    BY <1>3, <1>4, <1>5, <1>6, <1>9, ByThreadNext DEF IInv

\* Dead owners' locks go, and every page is swept afterwards.
LEMMA DrainOrphanedStep ==
    ASSUME IInv, DrainOrphaned
    PROVE  IInv'
<1> DEFINE n == [todo |-> Pages, drained |-> 0]
<1>1. /\ pc[Keeper] = "idle"
      /\ draining' = [p \in Pages |-> IF p \in Orphans THEN NoTxn ELSE draining[p]]
      /\ held' = [t \in Threads |-> {p \in held[t] : ~(p \in Orphans /\ draining[p] = t /\ pc[t] = "dead")}]
      /\ pc' = [pc EXCEPT ![Keeper] = "notify"]
      /\ note' = [note EXCEPT ![Keeper] = n]
      /\ UNCHANGED <<active, rebuilding, queue, count, token, want>>
    BY DEF DrainOrphaned, waiters
<1>2. TypeOK /\ Keeper \in Actors /\ \A u \in Threads : u \in Actors /\ u # Keeper
    BY DEF IInv, Actors
<1>3. n \in Notes /\ n.todo = Pages /\ n.drained = 0
    BY DEF Notes
<1> HIDE DEF n
<1>4. /\ pc' \in [Actors -> Labels] /\ pc'[Keeper] = "notify"
      /\ \A u \in Actors \ {Keeper} : pc'[u] = pc[u]
    BY <1>1, <1>2, Types DEF Labels
<1>5. /\ note' \in [Actors -> Notes] /\ note'[Keeper] = n
      /\ \A u \in Actors \ {Keeper} : note'[u] = note[u]
    BY <1>1, <1>2, <1>3, Types
<1>6. TypeOK'
    BY <1>1, <1>2, <1>4, <1>5 DEF TypeOK, Labels, Notes
<1>7. HeldIsTabled'
    <2>1. ASSUME NEW p \in Pages
          PROVE  /\ \A t \in Threads : p \in held'[t] <=> t \in {active'[p], draining'[p]}
                 /\ active'[p] = NoTxn \/ draining'[p] = NoTxn
      <3>1. /\ \A t \in Threads : p \in held[t] <=> t \in {active[p], draining[p]}
            /\ active[p] = NoTxn \/ draining[p] = NoTxn
        BY DEF IInv, HeldIsTabled
      <3>2. CASE p \in Orphans
        <4>1. draining[p] # NoTxn /\ pc[draining[p]] = "dead" /\ draining'[p] = NoTxn
          BY <1>1, <3>2 DEF Orphans
        <4>2. active[p] = NoTxn
          BY <3>1, <4>1
        <4>3. \A t \in Threads : p \in held'[t] <=> p \in held[t] /\ ~(draining[p] = t /\ pc[t] = "dead")
          BY <1>1, <3>2
        <4>4. \A t \in Threads : p \notin held'[t]
          BY <3>1, <4>1, <4>2, <4>3
        <4>5. QED
          BY <1>1, <4>1, <4>2, <4>4
      <3>3. CASE p \notin Orphans
        <4>1. draining'[p] = draining[p]
          BY <1>1, <3>3
        <4>2. \A t \in Threads : p \in held'[t] <=> p \in held[t]
          BY <1>1, <3>3
        <4>3. QED
          BY <1>1, <3>1, <4>1, <4>2
      <3>4. QED
        BY <3>2, <3>3
    <2>2. QED
      BY <2>1 DEF HeldIsTabled
<1>8. DrainingIsFree'
    <2>1. \A q \in Pages : draining[q] = NoTxn => draining'[q] = NoTxn
      BY <1>1
    <2>2. \A u \in Threads : pc'[u] = "insert" => pc[u] = "insert" /\ want[u].page \in Pages
      BY <1>2, <1>4 DEF TypeOK
    <2>3. QED
      BY <1>1, <2>1, <2>2 DEF IInv, DrainingIsFree
<1>9. DrainedWhileSweeping'
    BY <1>3, <1>4, <1>5 DEF IInv, DrainedWhileSweeping
<1>10. CountIsExact'
    <2>1. note[Keeper].drained = 0
      BY <1>1, <1>2 DEF IInv, DrainedWhileSweeping
    <2>2. \A a \in Actors : note'[a].drained = note[a].drained
      BY <1>3, <1>5, <2>1
    <2>3. QED
      BY <1>1, <2>2, CountFrame DEF IInv
<1>11. SweepsKept
    <2>1. ASSUME NEW q \in Pages, NEW a \in Actors, WillSweep(a, q)
          PROVE  WillSweep(a, q)'
      BY <1>1, <1>4, <1>5, <2>1 DEF WillSweep
    <2>2. \A v \in Threads : pc[v] = "releasing" => pc'[v] = "releasing"
      BY <1>2, <1>4
    <2>3. QED
      BY <2>1, <2>2 DEF SweepsKept
<1>12. HoldersKept
    <2>1. \A p \in Pages : WillSweep(Keeper, p)'
      BY <1>3, <1>4, <1>5 DEF WillSweep
    <2>2. QED
      BY <1>2, <2>1 DEF HoldersKept
<1>13. ASSUME NEW u \in Threads
       PROVE  ThreadOK(u)'
    <2>1. ThreadOK(u) /\ EntriesKept(u) /\ pc'[u] = pc[u]
      BY <1>1, <1>2, <1>4, ByThread DEF IInv, EntriesKept
    <2>2. QED
      BY <1>1, <1>2, <1>11, <1>12, <2>1, ThreadKept
<1>14. QED
    BY <1>6, <1>7, <1>8, <1>9, <1>10, <1>13, ByThreadNext DEF IInv

\* A rebuild ends with an empty draining table.
LEMMA FinalizeRebuildStep ==
    ASSUME IInv, FinalizeRebuild
    PROVE  IInv'
<1>1. /\ \A p \in Pages : draining[p] = NoTxn
      /\ rebuilding' = FALSE
      /\ UNCHANGED <<active, draining, queue, count, token, pc, want, note, held>>
    BY DEF FinalizeRebuild, waiters
<1>2. TypeOK' /\ HeldIsTabled'
    BY <1>1 DEF IInv, TypeOK, HeldIsTabled
<1>3. DrainingIsFree'
    BY <1>1 DEF IInv, DrainingIsFree
<1>4. DrainedWhileSweeping' /\ CountIsExact'
    BY <1>1, CountFrame DEF IInv, DrainedWhileSweeping
<1>5. SweepsKept /\ HoldersKept
    BY <1>1 DEF SweepsKept, HoldersKept, HolderOf, WillSweep
<1>6. ASSUME NEW u \in Threads
      PROVE  ThreadOK(u)'
    <2>1. ThreadOK(u) /\ EntriesKept(u) /\ TypeOK
      BY <1>1, ByThread DEF IInv, EntriesKept
    <2>2. QED
      BY <1>1, <1>5, <2>1, ThreadKept
<1>7. QED
    BY <1>2, <1>3, <1>4, <1>6, ByThreadNext DEF IInv

-----------------------------------------------------------------------------
(* Theorems *)

LEMMA InitIInv == Init => IInv
<1> SUFFICES ASSUME Init PROVE IInv
    OBVIOUS
<1>1. /\ \A p \in Pages : active[p] = NoTxn /\ draining[p] = NoTxn
      /\ \A p \in Pages : queue[p] = [t \in Threads |-> 0]
      /\ \A a \in Actors : pc[a] = "idle" /\ note[a] = NoNote
      /\ \A t \in Threads : pc[t] = "idle" /\ want[t] = NoWant /\ held[t] = {}
      /\ ~rebuilding /\ count = 0 /\ \A p \in Pages, t \in Threads : queue[p][t] = 0
    BY DEF Init, Actors
<1>2. TypeOK
    BY NoWantType, NoteTypes DEF Init, TypeOK, Wants, Notes
<1>3. HeldIsTabled /\ DrainingIsFree
    BY <1>1 DEF HeldIsTabled, DrainingIsFree
<1>4. DrainedWhileSweeping
    BY <1>1, NoteTypes DEF DrainedWhileSweeping
<1>5. CountIsExact
    <2>1. \A p \in Pages : Entries(p) = 0
      BY <1>1, TotalZero DEF Entries
    <2>2. Total([p \in Pages |-> Entries(p)]) = 0
      BY <2>1, TotalZero
    <2>3. \A a \in Actors : note[a].drained = 0
      BY <1>1, NoteTypes
    <2>4. Total([a \in Actors |-> note[a].drained]) = 0
      BY <2>3, TotalZero
    <2>5. QED
      BY <1>1, <2>2, <2>4 DEF CountIsExact
<1>6. \A t \in Threads : ThreadOK(t)
    BY <1>1, NoWantType DEF ThreadOK, WaiterOK, LeftOK, Waiting
<1>7. QED
    BY <1>2, <1>3, <1>4, <1>5, <1>6, ByThread DEF IInv

LEMMA NextIInv == IInv /\ [Next]_vars => IInv'
<1> SUFFICES ASSUME IInv, [Next]_vars PROVE IInv'
    OBVIOUS
<1>1. ASSUME NEW t \in Threads, Run(t)
      PROVE  IInv'
    <2>1. CASE TryInsert(t) \/ FirstLook(t) \/ Register(t) \/ Recheck(t) \/ Unparked(t) \/ Woken(t) \/ Unregister(t)
      BY <2>1, TryInsertStep, FirstLookStep, RegisterStep, RecheckStep, UnparkedStep, WokenStep, UnregisterStep
    <2>2. CASE TryAcquire(t, want[t].page)
      <3>1. PICK p \in Pages : p = want[t].page
        BY DEF IInv, TypeOK
      <3>2. TryAcquire(t, p)
        BY <2>2, <3>1
      <3>3. QED
        BY <3>2, TryAcquireStep
    <2>3. CASE \E p \in Pages : ReleaseSet(t, p)
      BY <2>3, ReleaseSetStep
    <2>4. QED
      BY <1>1, <2>1, <2>2, <2>3 DEF Run
<1>2. ASSUME NEW t \in Threads, NEW p \in Pages, TryAcquire(t, p) \/ Release(t, p) \/ ReleaseSet(t, p)
      PROVE  IInv'
    BY <1>2, TryAcquireStep, ReleaseStep, ReleaseSetStep
<1>3. ASSUME NEW t \in Threads, ParkTimesOut(t) \/ GiveUp(t) \/ Die(t)
      PROVE  IInv'
    BY <1>3, ParkTimesOutStep, GiveUpStep, DieStep
<1>4. ASSUME NEW a \in Actors, Notify(a)
      PROVE  IInv'
    BY <1>4, CountWaitersStep, SweepStep DEF Notify
<1>5. CASE BeginRebuild \/ DrainOrphaned \/ FinalizeRebuild
    BY <1>5, BeginRebuildStep, DrainOrphanedStep, FinalizeRebuildStep
<1>6. CASE UNCHANGED vars
    <2>1. UNCHANGED <<active, draining, rebuilding, queue, count, token, pc, want, note, held>>
      BY <1>6 DEF vars
    <2>2. TypeOK' /\ HeldIsTabled' /\ DrainingIsFree' /\ DrainedWhileSweeping'
      BY <2>1 DEF IInv, TypeOK, HeldIsTabled, DrainingIsFree, DrainedWhileSweeping
    <2>3. CountIsExact'
      BY <2>1, CountFrame DEF IInv
    <2>4. SweepsKept /\ HoldersKept
      BY <2>1 DEF SweepsKept, HoldersKept, HolderOf, WillSweep
    <2>5. ASSUME NEW u \in Threads
          PROVE  ThreadOK(u)'
      BY <2>1, <2>4, ByThread, ThreadKept DEF IInv, EntriesKept
    <2>6. QED
      BY <2>2, <2>3, <2>5, ByThreadNext DEF IInv
<1>7. QED
    BY <1>1, <1>2, <1>3, <1>4, <1>5, <1>6 DEF Next

\* The inductive invariant is one.
THEOREM Invariance == Spec => []IInv
BY InitIInv, NextIInv, PTL DEF Spec

\* Every variable of the lock table keeps its type.
THEOREM TypeCorrect == Spec => []TypeOK
<1>1. IInv => TypeOK
    BY DEF IInv
<1>2. QED
    BY <1>1, Invariance, PTL

\* Two transactions are never both granted a page by try_acquire, before,
\* during and after a rebuild, and the tables hold exactly what was granted.
THEOREM LocksAreExclusive == Spec => []Exclusive
<1>1. IInv => Exclusive
    <2> SUFFICES ASSUME IInv, NEW p \in Pages
                 PROVE  Cardinality({t \in Threads : p \in held[t]}) <= 1
      BY DEF IInv, HeldIsTabled, Exclusive
    <2> DEFINE H == {t \in Threads : p \in held[t]}
    <2>1. H = {} \/ \E u \in Threads : H = {u}
      <3>1. /\ \A t \in Threads : p \in held[t] <=> t \in {active[p], draining[p]}
            /\ active[p] = NoTxn \/ draining[p] = NoTxn
        BY DEF IInv, HeldIsTabled
      <3>2. QED
        BY <3>1
    <2>2. Cardinality(H) \in {0, 1}
      <3>1. CASE H = {}
        BY <3>1, FS_EmptySet
      <3>2. CASE \E u \in Threads : H = {u}
        <4>1. PICK u \in Threads : H = {u}
          BY <3>2
        <4>2. Cardinality({u}) = 1
          BY FS_Singleton
        <4>3. QED
          BY <4>1, <4>2
      <3>3. QED
        BY <2>1, <3>1, <3>2
    <2>3. QED
      BY <2>2
<1>2. QED
    BY <1>1, Invariance, PTL

\* The waiter count of the notification fast path is exactly the entries that
\* are queued or drained and not yet taken off.
THEOREM CountStaysExact == Spec => []CountIsExact
<1>1. IInv => CountIsExact
    BY DEF IInv
<1>2. QED
    BY <1>1, Invariance, PTL

\* A parked waiter whose holder is gone has its token, or whoever released the
\* page is still on the way to its queue.
THEOREM WakeupsAreNotLost == Spec => []NoLostWakeup
<1>1. IInv => NoLostWakeup
    <2> SUFFICES ASSUME IInv, NEW t \in Threads, pc[t] = "parked", t \notin token,
                        HolderOf(want[t].page) # want[t].seen
                 PROVE  \/ queue[want[t].page][t] > 0 /\ \E a \in Actors : WillSweep(a, want[t].page)
                        \/ pc[want[t].seen] = "releasing"
      BY DEF NoLostWakeup
    <2>1. ThreadOK(t)
      BY ByThread DEF IInv
    <2>2. queue[want[t].page][t] > 0 /\ ~want[t].mid
      BY <2>1 DEF ThreadOK
    <2>3. QED
      BY <2>1, <2>2 DEF ThreadOK, WaiterOK, Assured
<1>2. QED
    BY <1>1, Invariance, PTL

\* An entry that a waiter left in a queue is always on the list of a
\* notification, or of a bulk release that will notify about every page.
THEOREM LeftEntriesGo == Spec => []LeftEntriesAreSwept
<1>1. IInv => LeftEntriesAreSwept
    BY DEF IInv
<1>2. QED
    BY <1>1, Invariance, PTL
=============================================================================
