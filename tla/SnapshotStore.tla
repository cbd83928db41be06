--------------------------- MODULE SnapshotStore ---------------------------
(***************************************************************************)
(* What page-level MVCC promises a caller, without sequences, indexes,     *)
(* registries or histories: transactions open on a prefix of one commit    *)
(* log, own the pages they write exclusively while they are open, and may  *)
(* commit only if nobody has committed one of those pages since the prefix *)
(* was taken (first committer wins).  Where commits may fail half-way, one *)
(* that returned an error may have been logged nevertheless.               *)
(***************************************************************************)
EXTENDS Naturals, Sequences

CONSTANTS
    Txns, Pages,
    MayFailLogged   \* whether a commit that failed may be in the log

VARIABLES
    status,     \* of each transaction
    snap,       \* length of the log prefix it reads
    wset,       \* pages it has written
    log         \* the page sets of the commits, in commit order

storeVars == <<status, snap, wset, log>>

StoreInit ==
    /\ status = [t \in Txns |-> "idle"]
    /\ snap = [t \in Txns |-> 0]
    /\ wset = [t \in Txns |-> {}]
    /\ log = << >>

Open(t) ==
    /\ status[t] = "idle"
    /\ status' = [status EXCEPT ![t] = "open"]
    /\ snap' = [snap EXCEPT ![t] = Len(log)]
    /\ UNCHANGED <<wset, log>>

\* A page has at most one open writer.
Touch(t, p) ==
    /\ status[t] = "open"
    /\ \A u \in Txns \ {t} : ~(status[u] = "open" /\ p \in wset[u])
    /\ wset' = [wset EXCEPT ![t] = @ \cup {p}]
    /\ UNCHANGED <<status, snap, log>>

\* Nobody has committed a page of t's since t's prefix of the log.
FirstCommitter(t) ==
    \A i \in DOMAIN log : i > snap[t] => log[i] \cap wset[t] = {}

CommitStore(t) ==
    /\ status[t] = "open"
    /\ FirstCommitter(t)
    /\ status' = [status EXCEPT ![t] = "committed"]
    /\ log' = IF wset[t] = {} THEN log ELSE Append(log, wset[t])
    /\ UNCHANGED <<snap, wset>>

\* The commit is logged but reported as failed.  The transaction stays open; its
\* own entry is beyond its prefix, so that all it can do is abort.
FailLogged(t) ==
    /\ MayFailLogged
    /\ status[t] = "open"
    /\ wset[t] # {}
    /\ FirstCommitter(t)
    /\ log' = Append(log, wset[t])
    /\ UNCHANGED <<status, snap, wset>>

AbortStore(t) ==
    /\ status[t] = "open"
    /\ status' = [status EXCEPT ![t] = "aborted"]
    /\ snap' = [snap EXCEPT ![t] = 0]
    /\ wset' = [wset EXCEPT ![t] = {}]
    /\ UNCHANGED log

StoreNext ==
    \E t \in Txns :
        \/ Open(t)
        \/ \E p \in Pages : Touch(t, p)
        \/ CommitStore(t)
        \/ FailLogged(t)
        \/ AbortStore(t)

StoreSpec == StoreInit /\ [][StoreNext]_storeVars
=============================================================================
