---------------------------- MODULE SessionPages ----------------------------
(***************************************************************************)
(* The per-page state of a concurrent handle (PageTxnState), the page lock *)
(* table behind it, and what the VDBE does around them: first-touch writes,*)
(* frees and conflict-only tracking that wait for a busy page until the    *)
(* busy timeout, restoration when the pager write fails, savepoints and    *)
(* ROLLBACK TO.                                                            *)
(*                                                                         *)
(* Each session is run by one thread; an operation on a handle happens     *)
(* under the handle's mutex and so is one step, but checking a page,       *)
(* acquiring its lock, waiting for it and writing it through the pager are *)
(* steps of their own.                                                     *)
(***************************************************************************)
EXTENDS Naturals, FiniteSets

CONSTANTS
    Txns,       \* sessions
    Pages,      \* page numbers
    NoTxn,      \* the free value of a page lock
    Exemptable, \* pages the caller may mark metadata-exempt
    Freeable    \* pages that statements free and track as well as write

ASSUME NoSessionAssumption == NoTxn \notin Txns
ASSUME ExemptableAssumption == Exemptable \subseteq Pages
ASSUME FreeableAssumption == Freeable \subseteq Pages

VARIABLES
    live,       \* sessions whose handle is Active
    state,      \* state[t][p]: the flags of PageTxnState that are set
    lock,       \* InProcessPageLockTable: page -> holder
    op,         \* the page operation a session's statement is in
    save,       \* the savepoint of a session
    wanted      \* ghost: the staged pages when the savepoint was taken

vars == <<live, state, lock, op, save, wanted>>

Flags == {"held_lock", "staged", "freed", "conflict_only", "exempt"}

\* No operation is under way.
Idle == [step |-> "idle"]

NoSave == [taken |-> FALSE]

\* PageTxnState::tracks_write_conflict
Tracks(f) == "exempt" \notin f /\ f \cap {"staged", "freed", "conflict_only"} # {}

\* remove_page_state_if_empty: an entry that neither holds nor tracks goes.
Tidy(f) == IF "held_lock" \in f \/ Tracks(f) THEN f ELSE {}

Init ==
    /\ live = Txns
    /\ state = [t \in Txns |-> [p \in Pages |-> {}]]
    /\ lock = [p \in Pages |-> NoTxn]
    /\ op = [t \in Txns |-> Idle]
    /\ save = [t \in Txns |-> NoSave]
    /\ wanted = [t \in Txns |-> {}]

-----------------------------------------------------------------------------
(* Page operations *)

\* Fault: a write leaves the page's conflict-only mark.
GrantedFault(kind, f) ==
    CASE kind = "write" -> (f \ {"freed"}) \cup {"held_lock", "staged"}
      [] kind = "free" -> (f \ {"staged", "conflict_only"}) \cup {"held_lock", "freed"}
      [] kind = "track" -> f \cup {"held_lock", "conflict_only"}

\* What a granted operation leaves of the page's flags: concurrent_prepare_
\* write_page and the staging that follows it, concurrent_free_page, and
\* concurrent_track_write_conflict_page.
Granted(kind, f) ==
    CASE kind = "write" -> (f \ {"freed", "conflict_only"}) \cup {"held_lock", "staged"}
      [] kind = "free" -> (f \ {"staged", "conflict_only"}) \cup {"held_lock", "freed"}
      [] kind = "track" -> f \cup {"held_lock"} \cup
                           (IF f \cap {"staged", "freed"} = {} THEN {"conflict_only"}
                            ELSE {})

\* Fault: the slot is left with the raw page number.
ReleaseFault(t, p) == [lock EXCEPT ![p] = IF @ = t THEN p ELSE @]

\* InProcessPageLockTable::release: only the holder's release counts.
Release(t, p) == [lock EXCEPT ![p] = IF @ = t THEN NoTxn ELSE @]

\* concurrent_restore_page_state to the flags captured before the operation.
\* The capture has no exempt flag: the handle's present one stays.
Restore(t) ==
    LET p == op[t].page
        f == (op[t].prior \ {"exempt"}) \cup (state[t][p] \cap {"exempt"})
    IN  /\ state' = [state EXCEPT ![t][p] = Tidy(f)]
        /\ lock' = IF "held_lock" \in op[t].prior THEN lock ELSE Release(t, p)
        /\ op' = [op EXCEPT ![t] = Idle]

\* The operations statements do on a page.
Kinds(p) == IF p \in Freeable THEN {"write", "free", "track"} ELSE {"write"}

\* A statement starts an operation and captures the page's state.
StartOp(t, p, k) ==
    /\ t \in live
    /\ op[t] = Idle
    /\ op' = [op EXCEPT ![t] = [step |-> "check", page |-> p, kind |-> k,
                                prior |-> state[t][p]]]
    /\ UNCHANGED <<live, state, lock, save, wanted>>

\* The snapshot is still good for the page: the commit index has no newer
\* commit, or the session holds the lock already.
CheckPasses(t) ==
    /\ op[t].step = "check"
    /\ op' = [op EXCEPT ![t].step = "acquire"]
    /\ UNCHANGED <<live, state, lock, save, wanted>>

\* BusySnapshot: a newer commit of a page that is not held.
CheckFails(t) ==
    /\ op[t].step = "check"
    /\ "held_lock" \notin state[t][op[t].page]
    /\ Restore(t)
    /\ UNCHANGED <<live, save, wanted>>

\* try_acquire succeeds, or the handle holds the lock.
Acquire(t) ==
    /\ op[t].step = "acquire"
    /\ LET p == op[t].page
       IN  /\ lock[p] \in {NoTxn, t}
           /\ lock' = [lock EXCEPT ![p] = t]
           /\ state' = [state EXCEPT ![t][p] = Granted(op[t].kind, @)]
    /\ op' = [op EXCEPT ![t].step = "pager"]
    /\ UNCHANGED <<live, save, wanted>>

\* try_acquire finds another holder, and the session parks until it changes.
Park(t) ==
    /\ op[t].step = "acquire"
    /\ lock[op[t].page] \notin {NoTxn, t}
    /\ op' = [op EXCEPT ![t] = [step |-> "wait", page |-> @.page, kind |-> @.kind,
                                prior |-> @.prior, holder |-> lock[@.page]]]
    /\ UNCHANGED <<live, state, lock, save, wanted>>

\* The observed holder is gone: the loop starts over with the check.
Wake(t) ==
    /\ op[t].step = "wait"
    /\ lock[op[t].page] # op[t].holder
    /\ op' = [op EXCEPT ![t] = [step |-> "check", page |-> @.page, kind |-> @.kind,
                                prior |-> @.prior]]
    /\ UNCHANGED <<live, state, lock, save, wanted>>

\* Fault: the deadline is only looked at after a wake-up.
TimeOutFault(t) ==
    /\ op[t].step = "wait"
    /\ lock[op[t].page] # op[t].holder
    /\ Restore(t)
    /\ UNCHANGED <<live, save, wanted>>

\* The busy timeout, counted from the start of the operation, has passed, or the
\* statement is cancelled.
TimeOut(t) ==
    /\ op[t].step = "wait"
    /\ Restore(t)
    /\ UNCHANGED <<live, save, wanted>>

\* The pager takes the page ...
PagerOk(t) ==
    /\ op[t].step = "pager"
    /\ op' = [op EXCEPT ![t] = Idle]
    /\ UNCHANGED <<live, state, lock, save, wanted>>

\* ... or fails, and the state captured before the operation comes back.
PagerFails(t) ==
    /\ op[t].step = "pager"
    /\ Restore(t)
    /\ UNCHANGED <<live, save, wanted>>

\* clear_stale_synthetic_pending_commit_surface: a page that is only a conflict
\* surface leaves the handle together with its lock.
ClearSynthetic(t, p) ==
    /\ t \in live
    /\ op[t] = Idle
    /\ "conflict_only" \in state[t][p]
    /\ state[t][p] \cap {"staged", "freed"} = {}
    /\ state' = [state EXCEPT ![t][p] = {}]
    /\ lock' = Release(t, p)
    /\ UNCHANGED <<live, op, save, wanted>>

\* concurrent_mark_metadata_exempt, after concurrent_write_page.
MarkExempt(t, p) ==
    /\ t \in live
    /\ op[t] = Idle
    /\ p \in Exemptable
    /\ "staged" \in state[t][p]
    /\ state' = [state EXCEPT ![t][p] = @ \cup {"exempt"}]
    /\ UNCHANGED <<live, lock, op, save, wanted>>

-----------------------------------------------------------------------------
(* Savepoints and the end of a session *)

\* concurrent_savepoint captures the pages in the write-conflict surface.
Savepoint(t) ==
    /\ t \in live
    /\ op[t] = Idle
    /\ save[t] = NoSave
    /\ save' = [save EXCEPT ![t] =
                  [taken |-> TRUE,
                   pages |-> [p \in {q \in Pages : Tracks(state[t][q])} |->
                                state[t][p] \ {"held_lock"}]]]
    /\ wanted' = [wanted EXCEPT ![t] = {p \in Pages : "staged" \in state[t][p]}]
    /\ UNCHANGED <<live, state, lock, op>>

\* A captured page that is no longer held must be free for ROLLBACK TO.
Reacquirable(t) ==
    \A p \in DOMAIN save[t].pages :
        "held_lock" \in state[t][p] \/ lock[p] \in {NoTxn, t}

\* Fault: pages first touched after the savepoint keep their state.
RolledBackFault(t, p) ==
    IF p \in DOMAIN save[t].pages
    THEN save[t].pages[p] \cup {"held_lock"}
    ELSE state[t][p]

\* The flags ROLLBACK TO leaves: the captured ones, and the locks held since.
RolledBack(t, p) ==
    IF p \in DOMAIN save[t].pages
    THEN save[t].pages[p] \cup {"held_lock"}
    ELSE state[t][p] \cap {"held_lock"}

\* Fault: captured pages that were given up are not locked again.
LocksRolledBackFault(t) == lock

\* Captured pages that were given up meanwhile are locked again.
LocksRolledBack(t) ==
    [p \in Pages |-> IF p \in DOMAIN save[t].pages THEN t ELSE lock[p]]

\* concurrent_rollback_to_savepoint; the savepoint stays.  When a page cannot be
\* reacquired the ones that were are released and nothing has changed.
RollbackTo(t) ==
    /\ t \in live
    /\ op[t] = Idle
    /\ save[t] # NoSave
    /\ Reacquirable(t)
    /\ state' = [state EXCEPT ![t] = [p \in Pages |-> RolledBack(t, p)]]
    /\ lock' = LocksRolledBack(t)
    /\ UNCHANGED <<live, op, save, wanted>>

\* RELEASE forgets the savepoint.
ReleaseSavepoint(t) ==
    /\ t \in live
    /\ op[t] = Idle
    /\ save[t] # NoSave
    /\ save' = [save EXCEPT ![t] = NoSave]
    /\ wanted' = [wanted EXCEPT ![t] = {}]
    /\ UNCHANGED <<live, state, lock, op>>

\* Commit or abort: release_set over the pages the handle says it holds.
Finish(t) ==
    /\ t \in live
    /\ op[t] = Idle
    /\ live' = live \ {t}
    /\ lock' = [p \in Pages |-> IF "held_lock" \in state[t][p] /\ lock[p] = t
                                THEN NoTxn ELSE lock[p]]
    /\ state' = [state EXCEPT ![t] = [p \in Pages |-> {}]]
    /\ save' = [save EXCEPT ![t] = NoSave]
    /\ wanted' = [wanted EXCEPT ![t] = {}]
    /\ UNCHANGED op

Advance(t) ==
    \/ CheckPasses(t) \/ CheckFails(t)
    \/ Acquire(t) \/ Park(t)
    \/ Wake(t)
    \/ PagerOk(t) \/ PagerFails(t)

Next ==
    \E t \in Txns :
        \/ \E p \in Pages : \E k \in Kinds(p) : StartOp(t, p, k)
        \/ Advance(t)
        \/ TimeOut(t)
        \/ \E p \in Pages : ClearSynthetic(t, p)
        \/ \E p \in Pages : MarkExempt(t, p)
        \/ Savepoint(t)
        \/ RollbackTo(t)
        \/ ReleaseSavepoint(t)
        \/ Finish(t)

Spec == Init /\ [][Next]_vars

\* A thread inside an operation runs on.  The deadline is absolute, so a session
\* that waits again and again runs into it however often it wakes up.
FairSpec == Spec /\ \A t \in Txns : WF_vars(Advance(t)) /\ SF_vars(TimeOut(t))

-----------------------------------------------------------------------------
(* Properties *)

\* Every variable keeps its type.
TypeOK ==
    /\ live \subseteq Txns
    /\ state \in [Txns -> [Pages -> SUBSET Flags]]
    /\ lock \in [Pages -> Txns \cup {NoTxn}]
    /\ \A t \in Txns : op[t].step \in {"idle", "check", "acquire", "wait", "pager"}
    /\ \A t \in Txns : wanted[t] \subseteq Pages

\* The handle's held_lock bits and the lock table agree: no operation, failed
\* operation, savepoint rollback or end of session leaks or forgets a lock.
LockTableAgrees ==
    \A t \in Txns, p \in Pages :
        lock[p] = t <=> "held_lock" \in state[t][p]

\* A page with pending work of a session is locked by it, and the work is of one
\* kind: "staged write pages must retain their page lock", "cannot also be
\* marked freed", "cannot also be conflict-only".
PendingPagesAreLocked ==
    \A t \in Txns, p \in Pages :
        LET work == state[t][p] \cap {"staged", "freed", "conflict_only"}
        IN  /\ work # {} => lock[p] = t
            /\ Cardinality(work) <= 1

\* A statement that ran into locks ends, also when sessions wait in a cycle.
OperationsEnd == \A t \in Txns : (op[t] # Idle) ~> (op[t] = Idle)

\* "Restores the write set to the state captured by the savepoint": after
\* ROLLBACK TO the staged pages are those staged when it was taken, whatever
\* was written, freed, tracked, cleared or given up since.  Pages that may be
\* marked exempt are outside the surface that a savepoint captures.
RollbackRestoresWriteSet ==
    [][\A t \in Txns : RollbackTo(t) =>
          {p \in Pages \ Exemptable : "staged" \in state'[t][p]}
              = wanted[t] \ Exemptable]_vars
=============================================================================
