---------------------------- MODULE PageLockTable ----------------------------
(***************************************************************************)
(* InProcessPageLockTable: page locks in a flat array (fast pages) and in  *)
(* sharded maps, the draining table of a rolling rebuild, and the waiters  *)
(* that register for a page, look again and park until a release wakes     *)
(* them.                                                                   *)
(*                                                                         *)
(* A thread runs one transaction.  A compare-and-swap and a section under  *)
(* one shard's mutex are one step each; what the code does in between is   *)
(* open to every other thread.  The SeqCst fences make the waiter count    *)
(* and the lock slots sequentially consistent, as they are here.  Only the *)
(* owner removes its own lock from either table (a dead owner's goes with  *)
(* drain_orphaned), so a release looks at both tables in one step.         *)
(***************************************************************************)
EXTENDS Naturals, FiniteSets

CONSTANTS
    Threads,   \* threads, each with its transaction
    Keeper,    \* the thread that runs rebuilds
    Pages,     \* pages, one per shard
    Fast,      \* the pages of the flat array
    NoTxn      \* a free lock

ASSUME KeeperAssumption == Keeper \notin Threads
ASSUME FastAssumption == Fast \subseteq Pages
ASSUME FreeAssumption == NoTxn \notin Threads
ASSUME FiniteAssumption == IsFiniteSet(Threads) /\ IsFiniteSet(Pages) /\ Pages # {}

VARIABLES
    active,      \* fast_locks and shards: page -> holder
    draining,    \* the draining table: page -> holder
    rebuilding,  \* has_draining
    queue,       \* waiter_shards: entries of each thread in a page's queue
    count,       \* waiter_count
    token,       \* threads with an unpark token
    pc,          \* where a thread is
    want,        \* the page it wants, the holder it saw, a half-done look
    note,        \* the notification it does: pages to sweep, entries drained
    held         \* ghost: the pages whose lock a thread was granted

locks == <<active, draining, rebuilding>>
waiters == <<queue, count, token>>
vars == <<active, draining, rebuilding, queue, count, token, pc, want, note, held>>

Actors == Threads \cup {Keeper}
NoWant == [page |-> CHOOSE p \in Pages : TRUE, seen |-> NoTxn, mid |-> FALSE]
NoNote == [todo |-> {}, drained |-> 0]

Init ==
    /\ active = [p \in Pages |-> NoTxn]
    /\ draining = [p \in Pages |-> NoTxn]
    /\ rebuilding = FALSE
    /\ queue = [p \in Pages |-> [t \in Threads |-> 0]]
    /\ count = 0
    /\ token = {}
    /\ pc = [a \in Actors |-> "idle"]
    /\ want = [t \in Threads |-> NoWant]
    /\ note = [a \in Actors |-> NoNote]
    /\ held = [t \in Threads |-> {}]

Goto(a, l) == pc' = [pc EXCEPT ![a] = l]

-----------------------------------------------------------------------------
(* Acquisition *)

\* try_acquire answers the holder h: the caller waits for it to change.
Refused(t, p, h) ==
    /\ Goto(t, "look")
    /\ want' = [want EXCEPT ![t] = [page |-> p, seen |-> h, mid |-> FALSE]]
    /\ UNCHANGED <<active, held>>

Granted(t, p) ==
    /\ Goto(t, "idle")
    /\ held' = [held EXCEPT ![t] = @ \cup {p}]
    /\ want' = [want EXCEPT ![t] = NoWant]

\* The insertion into the active table, or the compare-and-swap of a fast
\* page: granted when it is free or the thread's own.
Insert(t, p) ==
    IF active[p] \in {NoTxn, t}
    THEN active' = [active EXCEPT ![p] = t] /\ Granted(t, p)
    ELSE Refused(t, p, active[p])

\* Fault: a rebuild's draining table is not consulted.
TryAcquireFault(t, p) ==
    /\ pc[t] = "idle" \/ (pc[t] = "retry" /\ want[t].page = p)
    /\ Insert(t, p)
    /\ UNCHANGED <<draining, rebuilding, waiters, note>>

\* try_acquire: during a rebuild a sharded page is first looked up in the
\* draining table, and inserted in the active one in a later step.
TryAcquire(t, p) ==
    /\ pc[t] = "idle" \/ (pc[t] = "retry" /\ want[t].page = p)
    /\ IF p \in Fast \/ ~rebuilding THEN Insert(t, p)
       ELSE IF draining[p] = t THEN Granted(t, p) /\ UNCHANGED active
       ELSE IF draining[p] # NoTxn THEN Refused(t, p, draining[p])
       ELSE /\ Goto(t, "insert")
            /\ want' = [want EXCEPT ![t] = [NoWant EXCEPT !.page = p]]
            /\ UNCHANGED <<active, held>>
    /\ UNCHANGED <<draining, rebuilding, waiters, note>>

\* The second half of try_acquire for a sharded page.
TryInsert(t) ==
    /\ pc[t] = "insert"
    /\ Insert(t, want[t].page)
    /\ UNCHANGED <<draining, rebuilding, waiters, note>>

-----------------------------------------------------------------------------
(* wait_for_holder_change *)

\* holder(page), compared with the holder the waiter saw: the active table,
\* then for a sharded page in a rebuild ("more") the draining one.
Looked(t) ==
    LET p == want[t].page
        s == want[t].seen
    IN  CASE want[t].mid -> IF draining[p] = s THEN "same" ELSE "changed"
          [] ~want[t].mid /\ active[p] = s -> "same"
          [] ~want[t].mid /\ active[p] = NoTxn /\ p \notin Fast /\ rebuilding -> "more"
          [] OTHER -> "changed"

\* One look at the holder: the waiter goes on to l when it is the same, to m
\* when it has changed.
Look(t, l, m) ==
    /\ Goto(t, CASE Looked(t) = "same" -> l
                 [] Looked(t) = "changed" -> m
                 [] OTHER -> pc[t])
    /\ want' = [want EXCEPT ![t].mid = (Looked(t) = "more")]

\* The look before parking.
FirstLook(t) ==
    /\ pc[t] = "look"
    /\ Look(t, "register", "retry")
    /\ UNCHANGED <<locks, waiters, note, held>>

\* Fault: the waiter parks at once, without looking again.
RegisterFault(t) ==
    /\ pc[t] = "register"
    /\ queue' = [queue EXCEPT ![want[t].page][t] = @ + 1]
    /\ count' = count + 1
    /\ Goto(t, "parked")
    /\ UNCHANGED <<locks, token, want, note, held>>

\* register_waiter
Register(t) ==
    /\ pc[t] = "register"
    /\ queue' = [queue EXCEPT ![want[t].page][t] = @ + 1]
    /\ count' = count + 1
    /\ Goto(t, "recheck")
    /\ UNCHANGED <<locks, token, want, note, held>>

\* The look after registration, which decides whether to park.
Recheck(t) ==
    /\ pc[t] = "recheck"
    /\ Look(t, "parked", "withdraw")
    /\ UNCHANGED <<locks, waiters, note, held>>

\* park_timeout returns: a token, which is used up.
Unparked(t) ==
    /\ pc[t] = "parked"
    /\ t \in token
    /\ token' = token \ {t}
    /\ Goto(t, "woken")
    /\ UNCHANGED <<locks, queue, count, want, note, held>>

\* park_timeout returns: the time is up.
ParkTimesOut(t) ==
    /\ pc[t] = "parked"
    /\ Goto(t, "woken")
    /\ UNCHANGED <<locks, waiters, want, note, held>>

\* Fault: a waiter that timed out leaves its entry and waits again.
WokenFault(t) ==
    /\ pc[t] = "woken"
    /\ Look(t, "look", "retry")
    /\ UNCHANGED <<locks, waiters, note, held>>

\* The look after waking: the entry is left to the releaser when the holder
\* has changed, withdrawn when it has not.
Woken(t) ==
    /\ pc[t] = "woken"
    /\ Look(t, "again", "retry")
    /\ UNCHANGED <<locks, waiters, note, held>>

\* Fault: the entries are removed but still counted.
UnregisterFault(t) ==
    LET p == want[t].page IN
    /\ pc[t] \in {"withdraw", "again"}
    /\ IF count = 0 THEN UNCHANGED <<queue, count>>
       ELSE /\ queue' = [queue EXCEPT ![p][t] = 0]
            /\ count' = count - 1
    /\ Goto(t, IF pc[t] = "withdraw" THEN "retry" ELSE "look")
    /\ UNCHANGED <<locks, token, want, note, held>>

\* unregister_waiter, with its way out when no waiter is counted at all; then
\* the wait returns true or starts over.
Unregister(t) ==
    LET p == want[t].page IN
    /\ pc[t] \in {"withdraw", "again"}
    /\ IF count = 0 THEN UNCHANGED <<queue, count>>
       ELSE /\ queue' = [queue EXCEPT ![p][t] = 0]
            /\ count' = count - queue[p][t]
    /\ Goto(t, IF pc[t] = "withdraw" THEN "retry" ELSE "look")
    /\ UNCHANGED <<locks, token, want, note, held>>

\* The wait returns false at its deadline, or the caller gives the page up.
GiveUp(t) ==
    /\ pc[t] \in {"look", "retry"}
    /\ Goto(t, "idle")
    /\ want' = [want EXCEPT ![t] = NoWant]
    /\ UNCHANGED <<locks, waiters, note, held>>

-----------------------------------------------------------------------------
(* Release and notification *)

\* t's entry for p goes from whichever table has it.
Drop(t, p) ==
    /\ active' = [active EXCEPT ![p] = IF @ = t THEN NoTxn ELSE @]
    /\ draining' = [draining EXCEPT ![p] = IF @ = t THEN NoTxn ELSE @]
    /\ held' = [held EXCEPT ![t] = @ \ {p}]
    /\ UNCHANGED rebuilding

\* release: one page, then notify_waiters_for_page.
Release(t, p) ==
    /\ pc[t] = "idle"
    /\ p \in held[t]
    /\ Drop(t, p)
    /\ note' = [note EXCEPT ![t] = [todo |-> {p}, drained |-> 0]]
    /\ Goto(t, "notify")
    /\ UNCHANGED <<waiters, want>>

\* release_set and release_all: page after page, then notify_all_waiters.
ReleaseSet(t, p) ==
    /\ pc[t] \in {"idle", "releasing"}
    /\ p \in held[t]
    /\ Drop(t, p)
    /\ IF held[t] = {p}
       THEN /\ note' = [note EXCEPT ![t] = [todo |-> Pages, drained |-> 0]]
            /\ Goto(t, "notify")
       ELSE Goto(t, "releasing") /\ UNCHANGED note
    /\ UNCHANGED <<waiters, want>>

\* A notification reads the waiter count, and is over when there is none.
CountWaiters(a) ==
    /\ pc[a] = "notify"
    /\ IF count > 0 THEN Goto(a, "sweep") /\ UNCHANGED note
       ELSE Goto(a, "idle") /\ note' = [note EXCEPT ![a] = NoNote]
    /\ UNCHANGED <<locks, waiters, want, held>>

\* The sum of the values of f, counted as the elements of a set.
Total(f) == Cardinality(UNION {{x} \X (1 .. f[x]) : x \in DOMAIN f})

Entries(p) == Total(queue[p])

\* One page's queue is removed under its shard's mutex and its threads are
\* unparked.  The single-page notification takes its entries off the count
\* there, the bulk one after its last shard (one step here: until then the
\* count is only larger, which no reader of it can tell apart).
Sweep(a, p) ==
    LET rest == note[a].todo \ {p}
        n == note[a].drained + Entries(p)
    IN
    /\ pc[a] = "sweep"
    /\ p \in note[a].todo
    /\ queue' = [queue EXCEPT ![p] = [t \in Threads |-> 0]]
    /\ token' = token \cup {t \in Threads : queue[p][t] > 0}
    /\ IF rest = {}
       THEN /\ count' = count - n
            /\ note' = [note EXCEPT ![a] = NoNote]
            /\ Goto(a, "idle")
       ELSE /\ note' = [note EXCEPT ![a] = [todo |-> rest, drained |-> n]]
            /\ UNCHANGED <<count, pc>>
    /\ UNCHANGED <<locks, want, held>>

-----------------------------------------------------------------------------
(* Rebuilds *)

\* A transaction is gone without releasing its locks.
Die(t) ==
    /\ pc[t] = "idle"
    /\ held[t] # {}
    /\ Goto(t, "dead")
    /\ UNCHANGED <<locks, waiters, want, note, held>>

\* begin_rebuild has the table to itself (&mut self): the sharded locks move
\* to the draining table.
BeginRebuild ==
    /\ \A t \in Threads : pc[t] \in {"idle", "dead"}
    /\ pc[Keeper] = "idle"
    /\ ~rebuilding
    /\ rebuilding' = TRUE
    /\ draining' = [p \in Pages |-> IF p \in Fast THEN NoTxn ELSE active[p]]
    /\ active' = [p \in Pages |-> IF p \in Fast THEN active[p] ELSE NoTxn]
    /\ UNCHANGED <<waiters, pc, want, note, held>>

\* The entries of the draining table whose transaction is not active.
Orphans == {p \in Pages : draining[p] # NoTxn /\ pc[draining[p]] = "dead"}

\* drain_orphaned, under the draining mutex; then notify_all_waiters.
DrainOrphaned ==
    /\ pc[Keeper] = "idle"
    /\ rebuilding
    /\ Orphans # {}
    /\ draining' = [p \in Pages |-> IF p \in Orphans THEN NoTxn ELSE draining[p]]
    /\ held' = [t \in Threads |-> {p \in held[t] : ~(p \in Orphans /\ draining[p] = t /\ pc[t] = "dead")}]
    /\ pc' = [pc EXCEPT ![Keeper] = "notify"]
    /\ note' = [note EXCEPT ![Keeper] = [todo |-> Pages, drained |-> 0]]
    /\ UNCHANGED <<active, rebuilding, waiters, want>>

\* finalize_rebuild: refused while the draining table has entries.
FinalizeRebuild ==
    /\ pc[Keeper] = "idle"
    /\ rebuilding
    /\ \A p \in Pages : draining[p] = NoTxn
    /\ rebuilding' = FALSE
    /\ UNCHANGED <<active, draining, waiters, pc, want, note, held>>

-----------------------------------------------------------------------------

\* The steps that are nobody's choice once begun.
Run(t) ==
    \/ TryInsert(t)
    \/ FirstLook(t)
    \/ Register(t)
    \/ Recheck(t)
    \/ Unparked(t)
    \/ Woken(t)
    \/ Unregister(t)
    \/ pc[t] = "retry" /\ TryAcquire(t, want[t].page)
    \/ pc[t] = "releasing" /\ \E p \in Pages : ReleaseSet(t, p)

Notify(a) == CountWaiters(a) \/ \E p \in Pages : Sweep(a, p)

Next ==
    \/ \E t \in Threads :
           \/ Run(t)
           \/ \E p \in Pages : pc[t] = "idle" /\ (TryAcquire(t, p) \/ Release(t, p) \/ ReleaseSet(t, p))
           \/ ParkTimesOut(t)
           \/ GiveUp(t)
           \/ Die(t)
    \/ \E a \in Actors : Notify(a)
    \/ BeginRebuild
    \/ DrainOrphaned
    \/ FinalizeRebuild

Spec == Init /\ [][Next]_vars

-----------------------------------------------------------------------------
(* Properties *)

\* Every variable keeps its type.
TypeOK ==
    /\ active \in [Pages -> Threads \cup {NoTxn}]
    /\ draining \in [Pages -> Threads \cup {NoTxn}]
    /\ rebuilding \in BOOLEAN
    /\ queue \in [Pages -> [Threads -> Nat]]
    /\ count \in Nat
    /\ token \subseteq Threads
    /\ pc \in [Actors -> {"idle", "insert", "look", "register", "recheck", "parked", "woken",
                          "withdraw", "again", "retry", "releasing", "notify", "sweep", "dead"}]
    /\ want \in [Threads -> [page : Pages, seen : Threads \cup {NoTxn}, mid : BOOLEAN]]
    /\ note \in [Actors -> [todo : SUBSET Pages, drained : Nat]]
    /\ held \in [Threads -> SUBSET Pages]

\* Two transactions are never both granted a page, before, during and after a
\* rebuild; and the tables hold what was granted, each lock in one of them.
Exclusive ==
    \A p \in Pages :
        /\ Cardinality({t \in Threads : p \in held[t]}) <= 1
        /\ \A t \in Threads : p \in held[t] <=> t \in {active[p], draining[p]}
        /\ active[p] = NoTxn \/ draining[p] = NoTxn

\* The waiter count is exactly the entries queued plus those that bulk
\* notifications have drained and not yet taken off: a count of zero proves
\* that there is nobody to wake.
CountIsExact ==
    count = Total([p \in Pages |-> Entries(p)]) + Total([a \in Actors |-> note[a].drained])

\* a will still remove the queue of page p.
WillSweep(a, p) == pc[a] \in {"notify", "sweep"} /\ p \in note[a].todo

\* The current holder of p, if any.
HolderOf(p) == IF active[p] # NoTxn THEN active[p] ELSE draining[p]

\* No wake-up is lost: if a parked waiter's holder is gone, the waiter has its
\* token or the releaser is still on its way to it (not yet done with all of
\* its pages, or with its notification).
NoLostWakeup ==
    \A t \in Threads :
        LET p == want[t].page IN
        pc[t] = "parked" /\ t \notin token /\ HolderOf(p) # want[t].seen =>
            \/ queue[p][t] > 0 /\ \E a \in Actors : WillSweep(a, p)
            \/ pc[want[t].seen] = "releasing"

\* An entry that a waiter left behind when it returned is not there for good:
\* some notification is going to remove it.
LeftEntriesAreSwept ==
    \A t \in Threads, p \in Pages :
        queue[p][t] > 0 /\ ~(want[t].page = p /\ pc[t] \in {"recheck", "parked", "woken", "withdraw", "again"}) =>
            \E a \in Actors : WillSweep(a, p) \/ (a \in Threads /\ pc[a] = "releasing")
=============================================================================
