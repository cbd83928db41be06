------------------------- MODULE SessionPagesProofs -------------------------
(***************************************************************************)
(* Proofs about SessionPages for any sessions and pages: a handle's        *)
(* held_lock bits and the lock table agree, a page with pending work is    *)
(* locked and has one kind of it, and ROLLBACK TO brings back the staged   *)
(* pages of the savepoint.                                                 *)
(*                                                                         *)
(* The agreement is not inductive alone: an operation that fails puts back *)
(* the flags that it captured when it began, and ROLLBACK TO those that    *)
(* the savepoint captured.  The invariant says of both captures what it    *)
(* says of the page states, and that a lock which an operation found held  *)
(* is held until the operation ends.                                       *)
(***************************************************************************)
EXTENDS SessionPages, FiniteSetTheorems, TLAPS

-----------------------------------------------------------------------------
(* The inductive invariant *)

Work == {"staged", "freed", "conflict_only"}

\* The pending work of a page is of one kind.
OneKind(f) == f \cap Work \in {{}, {"staged"}, {"freed"}, {"conflict_only"}}

\* What every entry of a handle's page table satisfies.
Proper(f, p) ==
    /\ f \cap Work # {} => "held_lock" \in f
    /\ OneKind(f)
    /\ "exempt" \in f => p \in Exemptable

KindSet == {"write", "free", "track"}
Running == [step : {"check", "acquire", "pager"}, page : Pages, kind : KindSet, prior : SUBSET Flags]
Parked == [step : {"wait"}, page : Pages, kind : KindSet, prior : SUBSET Flags,
           holder : Txns \cup {NoTxn}]
Ops == {Idle} \cup Running \cup Parked

Saves == [taken : {TRUE}, pages : UNION {[D -> SUBSET Flags] : D \in SUBSET Pages}]

Types ==
    /\ live \subseteq Txns
    /\ state \in [Txns -> [Pages -> SUBSET Flags]]
    /\ lock \in [Pages -> Txns \cup {NoTxn}]
    /\ op \in [Txns -> Ops]
    /\ save \in [Txns -> {NoSave} \cup Saves]
    /\ wanted \in [Txns -> SUBSET Pages]

StatesProper == \A t \in Txns, p \in Pages : Proper(state[t][p], p)

\* The state an operation captured can be put back.
OpOK(t) ==
    op[t] # Idle =>
        /\ Proper(op[t].prior, op[t].page)
        /\ "held_lock" \in op[t].prior => "held_lock" \in state[t][op[t].page]

\* The state a savepoint captured can be put back, and has the staged pages.
SaveOK(t) ==
    save[t] # NoSave =>
        /\ \A p \in DOMAIN save[t].pages :
               OneKind(save[t].pages[p]) /\ "exempt" \notin save[t].pages[p]
        /\ \A p \in Pages \ Exemptable :
               p \in wanted[t] <=> p \in DOMAIN save[t].pages /\ "staged" \in save[t].pages[p]

IInv ==
    /\ Types
    /\ LockTableAgrees
    /\ StatesProper
    /\ \A t \in Txns : OpOK(t)
    /\ \A t \in Txns : SaveOK(t)

-----------------------------------------------------------------------------
(* Flags *)

USE NoSessionAssumption, ExemptableAssumption, FreeableAssumption

\* A granted operation leaves the page held, with work of one kind.
LEMMA GrantedProper ==
    ASSUME NEW k \in KindSet, NEW p \in Pages, NEW f \in SUBSET Flags, Proper(f, p)
    PROVE  /\ Granted(k, f) \in SUBSET Flags
           /\ "held_lock" \in Granted(k, f)
           /\ Proper(Granted(k, f), p)
<1>1. CASE k = "write"
    BY <1>1 DEF Granted, Proper, OneKind, Work, Flags
<1>2. CASE k = "free"
    BY <1>2 DEF Granted, Proper, OneKind, Work, Flags
<1>3. CASE k = "track" /\ f \cap {"staged", "freed"} = {}
    BY <1>3 DEF Granted, Proper, OneKind, Work, Flags
<1>4. CASE k = "track" /\ f \cap {"staged", "freed"} # {}
    <2>1. Granted(k, f) = f \cup {"held_lock"}
      BY <1>4 DEF Granted
    <2>2. (f \cup {"held_lock"}) \cap Work = f \cap Work
      BY DEF Work
    <2>3. QED
      BY <2>1, <2>2 DEF Proper, OneKind, Flags
<1>5. QED
    BY <1>1, <1>2, <1>3, <1>4 DEF KindSet

\* Putting back a proper capture, with the present exempt mark, is proper.
LEMMA RestoredProper ==
    ASSUME NEW p \in Pages, NEW f \in SUBSET Flags, NEW g \in SUBSET Flags,
           Proper(f, p), Proper(g, p)
    PROVE  LET r == Tidy((f \ {"exempt"}) \cup (g \cap {"exempt"}))
           IN  r \in SUBSET Flags /\ Proper(r, p) /\ ("held_lock" \in r <=> "held_lock" \in f)
<1> DEFINE h == (f \ {"exempt"}) \cup (g \cap {"exempt"})
<1>1. h \cap Work = f \cap Work /\ h \in SUBSET Flags /\ ("held_lock" \in h <=> "held_lock" \in f)
    BY DEF Work
<1>2. Proper(h, p)
    BY <1>1 DEF Proper, OneKind
<1>3. Proper({}, p)
    BY DEF Proper, OneKind
<1>4. Tidy(h) = h \/ (Tidy(h) = {} /\ "held_lock" \notin h)
    BY DEF Tidy
<1>5. QED
    BY <1>1, <1>2, <1>3, <1>4

-----------------------------------------------------------------------------
(* Steps of an operation *)

\* The parts of an operation's record.
LEMMA OpParts ==
    ASSUME NEW o \in Ops
    PROVE  /\ o = Idle <=> o.step = "idle"
           /\ o # Idle => /\ o.page \in Pages /\ o.kind \in KindSet /\ o.prior \in SUBSET Flags
                          /\ o.step \in {"check", "acquire", "pager", "wait"}
           /\ o.step \in {"check", "acquire", "pager"} => o \in Running
           /\ o.step = "wait" => o \in Parked
BY DEF Ops, Idle, Running, Parked

LEMMA RunningIsOp ==
    /\ Idle \in Ops
    /\ \A o \in Running : o \in Ops /\ o # Idle
    /\ \A o \in Parked : o \in Ops /\ o # Idle
BY DEF Ops, Idle, Running, Parked

\* A step of t that changes nothing but where its operation is.
LEMMA OpStep ==
    ASSUME IInv, NEW t \in Txns, NEW o \in Ops, op' = [op EXCEPT ![t] = o],
           o # Idle => /\ Proper(o.prior, o.page)
                       /\ "held_lock" \in o.prior => "held_lock" \in state[t][o.page],
           UNCHANGED <<live, state, lock, save, wanted>>
    PROVE  IInv'
<1>1. /\ op' \in [Txns -> Ops] /\ op'[t] = o /\ \A u \in Txns \ {t} : op'[u] = op[u]
    BY DEF IInv, Types
<1>2. Types'
    BY <1>1 DEF IInv, Types
<1>3. LockTableAgrees' /\ StatesProper'
    BY DEF IInv, LockTableAgrees, StatesProper
<1>4. ASSUME NEW u \in Txns
      PROVE  OpOK(u)' /\ SaveOK(u)'
    BY <1>1 DEF IInv, OpOK, SaveOK
<1>5. QED
    BY <1>2, <1>3, <1>4 DEF IInv

\* A step of t on its own entry of page p and the lock of p.
LEMMA PageStep ==
    ASSUME IInv, NEW t \in Txns, NEW p \in Pages, NEW g \in SUBSET Flags, NEW o \in Ops,
           state' = [state EXCEPT ![t][p] = g], Proper(g, p),
           lock' \in [Pages -> Txns \cup {NoTxn}],
           \A q \in Pages \ {p} : lock'[q] = lock[q],
           lock'[p] = t <=> "held_lock" \in g,
           \A u \in Txns \ {t} : lock'[p] = u <=> lock[p] = u,
           op' = [op EXCEPT ![t] = o],
           o # Idle => /\ o.page = p /\ Proper(o.prior, p)
                       /\ "held_lock" \in o.prior => "held_lock" \in g,
           UNCHANGED <<live, save, wanted>>
    PROVE  IInv'
<1>1. /\ op' \in [Txns -> Ops] /\ op'[t] = o /\ \A u \in Txns \ {t} : op'[u] = op[u]
    BY DEF IInv, Types
<1>2. /\ state' \in [Txns -> [Pages -> SUBSET Flags]] /\ state'[t][p] = g
      /\ \A u \in Txns \ {t} : state'[u] = state[u]
      /\ \A q \in Pages \ {p} : state'[t][q] = state[t][q]
    BY DEF IInv, Types
<1>3. Types'
    BY <1>1, <1>2 DEF IInv, Types
<1>4. LockTableAgrees'
    <2>1. ASSUME NEW u \in Txns, NEW q \in Pages
          PROVE  lock'[q] = u <=> "held_lock" \in state'[u][q]
      <3>1. lock[q] = u <=> "held_lock" \in state[u][q]
        BY DEF IInv, LockTableAgrees
      <3>2. CASE q # p
        BY <1>2, <3>1, <3>2
      <3>3. CASE q = p /\ u = t
        BY <1>2, <3>3
      <3>4. CASE q = p /\ u # t
        BY <1>2, <3>1, <3>4
      <3>5. QED
        BY <3>2, <3>3, <3>4
    <2>2. QED
      BY <2>1 DEF LockTableAgrees
<1>5. StatesProper'
    <2>1. ASSUME NEW u \in Txns, NEW q \in Pages
          PROVE  Proper(state'[u][q], q)
      <3>1. CASE u = t /\ q = p
        BY <1>2, <3>1
      <3>2. CASE ~(u = t /\ q = p)
        BY <1>2, <3>2 DEF IInv, StatesProper
      <3>3. QED
        BY <3>1, <3>2
    <2>2. QED
      BY <2>1 DEF StatesProper, Proper, OneKind
<1>6. ASSUME NEW u \in Txns
      PROVE  OpOK(u)'
    <2>1. CASE u = t
      BY <1>1, <1>2, <2>1 DEF OpOK, Proper, OneKind
    <2>2. CASE u # t
      BY <1>1, <1>2, <2>2 DEF IInv, OpOK
    <2>3. QED
      BY <2>1, <2>2
<1>7. \A u \in Txns : SaveOK(u)'
    BY DEF IInv, SaveOK
<1>8. QED
    BY <1>3, <1>4, <1>5, <1>6, <1>7 DEF IInv

\* The state captured before an operation comes back: the check, the wait or
\* the pager failed.
LEMMA RestoreStep ==
    ASSUME IInv, NEW t \in Txns, op[t] # Idle, Restore(t), UNCHANGED <<live, save, wanted>>
    PROVE  IInv'
<1>1. PICK p \in Pages : p = op[t].page
    BY OpParts DEF IInv, Types
<1>2. PICK f \in SUBSET Flags : f = op[t].prior
    BY OpParts DEF IInv, Types
<1>3. PICK g \in SUBSET Flags : g = state[t][p]
    BY DEF IInv, Types
<1>4. PICK r \in SUBSET Flags : r = Tidy((f \ {"exempt"}) \cup (g \cap {"exempt"}))
    BY DEF Tidy
<1>5. Proper(f, p) /\ Proper(g, p) /\ ("held_lock" \in f => "held_lock" \in g)
    BY <1>1, <1>2, <1>3 DEF IInv, OpOK, StatesProper
<1>6. Proper(r, p) /\ ("held_lock" \in r <=> "held_lock" \in f)
    BY <1>4, <1>5, RestoredProper
<1>7. /\ state' = [state EXCEPT ![t][p] = r]
      /\ lock' = IF "held_lock" \in f THEN lock ELSE Release(t, p)
      /\ op' = [op EXCEPT ![t] = Idle]
    BY <1>1, <1>2, <1>3, <1>4 DEF Restore
<1>8. lock \in [Pages -> Txns \cup {NoTxn}] /\ (lock[p] = t <=> "held_lock" \in g)
    BY <1>3 DEF IInv, Types, LockTableAgrees
<1>9. /\ lock' \in [Pages -> Txns \cup {NoTxn}]
      /\ \A q \in Pages \ {p} : lock'[q] = lock[q]
      /\ lock'[p] = t <=> "held_lock" \in r
      /\ \A u \in Txns \ {t} : lock'[p] = u <=> lock[p] = u
    <2>1. CASE "held_lock" \in f
      BY <1>5, <1>6, <1>7, <1>8, <2>1
    <2>2. CASE "held_lock" \notin f
      BY <1>6, <1>7, <1>8, <2>2 DEF Release
    <2>3. QED
      BY <2>1, <2>2
<1>10. QED
    BY <1>6, <1>7, <1>9, PageStep, RunningIsOp

LEMMA StartOpStep ==
    ASSUME IInv, NEW t \in Txns, NEW p \in Pages, NEW k \in Kinds(p), StartOp(t, p, k)
    PROVE  IInv'
<1> DEFINE o == [step |-> "check", page |-> p, kind |-> k, prior |-> state[t][p]]
<1>1. k \in KindSet /\ state[t][p] \in SUBSET Flags /\ Proper(state[t][p], p)
    BY DEF Kinds, KindSet, IInv, Types, StatesProper
<1>2. o \in Running /\ o.page = p /\ o.prior = state[t][p]
    BY <1>1 DEF Running
<1>3. op' = [op EXCEPT ![t] = o] /\ UNCHANGED <<live, state, lock, save, wanted>>
    BY DEF StartOp
<1> HIDE DEF o
<1>4. PICK r \in Ops : r = o
    BY <1>2, RunningIsOp
<1>5. QED
    BY <1>1, <1>2, <1>3, <1>4, OpStep

LEMMA CheckPassesStep ==
    ASSUME IInv, NEW t \in Txns, CheckPasses(t)
    PROVE  IInv'
<1>1. op \in [Txns -> Ops] /\ op[t].step = "check" /\ OpOK(t)
    BY DEF IInv, Types, CheckPasses
<1>2. op[t] \in Running /\ op[t] # Idle
    BY <1>1, OpParts, RunningIsOp
<1> DEFINE o == [op[t] EXCEPT !.step = "acquire"]
<1>3. o \in Running /\ o.page = op[t].page /\ o.prior = op[t].prior
    BY <1>2 DEF Running
<1>4. op' = [op EXCEPT ![t] = o] /\ UNCHANGED <<live, state, lock, save, wanted>>
    BY DEF CheckPasses
<1> HIDE DEF o
<1>5. PICK r \in Ops : r = o
    BY <1>3, RunningIsOp
<1>6. Proper(r.prior, r.page) /\ ("held_lock" \in r.prior => "held_lock" \in state[t][r.page])
    BY <1>1, <1>2, <1>3, <1>5 DEF OpOK
<1>7. QED
    BY <1>4, <1>5, <1>6, OpStep

LEMMA AcquireStep ==
    ASSUME IInv, NEW t \in Txns, Acquire(t)
    PROVE  IInv'
<1>1. op \in [Txns -> Ops] /\ op[t].step = "acquire" /\ OpOK(t)
    BY DEF IInv, Types, Acquire
<1>2. op[t] \in Running /\ op[t] # Idle
    BY <1>1, OpParts, RunningIsOp
<1>3. PICK p \in Pages : p = op[t].page
    BY <1>2 DEF Running
<1>4. PICK k \in KindSet : k = op[t].kind
    BY <1>2 DEF Running
<1>5. state[t][p] \in SUBSET Flags /\ Proper(state[t][p], p)
    BY DEF IInv, Types, StatesProper
<1>6. PICK g \in SUBSET Flags : g = Granted(k, state[t][p])
    BY <1>5, GrantedProper
<1>7. Proper(g, p) /\ "held_lock" \in g
    BY <1>5, <1>6, GrantedProper
<1> DEFINE o == [op[t] EXCEPT !.step = "pager"]
<1>8. o \in Running /\ o.page = op[t].page /\ o.prior = op[t].prior
    BY <1>2 DEF Running
<1>9. /\ lock[p] \in {NoTxn, t} /\ lock' = [lock EXCEPT ![p] = t]
      /\ state' = [state EXCEPT ![t][p] = g]
      /\ op' = [op EXCEPT ![t] = o] /\ UNCHANGED <<live, save, wanted>>
    BY <1>3, <1>4, <1>6 DEF Acquire
<1> HIDE DEF o
<1>10. PICK r \in Ops : r = o
    BY <1>8, RunningIsOp
<1>11. r.page = p /\ Proper(r.prior, p)
    BY <1>1, <1>2, <1>3, <1>8, <1>10 DEF OpOK
<1>12. /\ lock' \in [Pages -> Txns \cup {NoTxn}] /\ lock'[p] = t
       /\ \A q \in Pages \ {p} : lock'[q] = lock[q]
       /\ \A u \in Txns \ {t} : lock'[p] = u <=> lock[p] = u
    BY <1>9 DEF IInv, Types
<1>13. QED
    BY <1>7, <1>9, <1>10, <1>11, <1>12, PageStep

LEMMA ParkStep ==
    ASSUME IInv, NEW t \in Txns, Park(t)
    PROVE  IInv'
<1>1. op \in [Txns -> Ops] /\ op[t].step = "acquire" /\ OpOK(t)
    BY DEF IInv, Types, Park
<1>2. op[t] \in Running /\ op[t] # Idle
    BY <1>1, OpParts, RunningIsOp
<1> DEFINE o == [step |-> "wait", page |-> op[t].page, kind |-> op[t].kind,
                 prior |-> op[t].prior, holder |-> lock[op[t].page]]
<1>3. lock[op[t].page] \in Txns \cup {NoTxn}
    BY <1>2 DEF IInv, Types, Running
<1>4. o \in Parked /\ o.page = op[t].page /\ o.prior = op[t].prior
    BY <1>2, <1>3 DEF Running, Parked
<1>5. op' = [op EXCEPT ![t] = o] /\ UNCHANGED <<live, state, lock, save, wanted>>
    BY <1>1 DEF Park
<1> HIDE DEF o
<1>6. PICK r \in Ops : r = o
    BY <1>4, RunningIsOp
<1>7. Proper(r.prior, r.page) /\ ("held_lock" \in r.prior => "held_lock" \in state[t][r.page])
    BY <1>1, <1>2, <1>4, <1>6 DEF OpOK
<1>8. QED
    BY <1>5, <1>6, <1>7, OpStep

LEMMA WakeStep ==
    ASSUME IInv, NEW t \in Txns, Wake(t)
    PROVE  IInv'
<1>1. op \in [Txns -> Ops] /\ op[t].step = "wait" /\ OpOK(t)
    BY DEF IInv, Types, Wake
<1>2. op[t] \in Parked /\ op[t] # Idle
    BY <1>1, OpParts, RunningIsOp
<1> DEFINE o == [step |-> "check", page |-> op[t].page, kind |-> op[t].kind, prior |-> op[t].prior]
<1>3. o \in Running /\ o.page = op[t].page /\ o.prior = op[t].prior
    BY <1>2 DEF Running, Parked
<1>4. op' = [op EXCEPT ![t] = o] /\ UNCHANGED <<live, state, lock, save, wanted>>
    BY <1>1 DEF Wake
<1> HIDE DEF o
<1>5. PICK r \in Ops : r = o
    BY <1>3, RunningIsOp
<1>6. Proper(r.prior, r.page) /\ ("held_lock" \in r.prior => "held_lock" \in state[t][r.page])
    BY <1>1, <1>2, <1>3, <1>5 DEF OpOK
<1>7. QED
    BY <1>4, <1>5, <1>6, OpStep

LEMMA PagerOkStep ==
    ASSUME IInv, NEW t \in Txns, PagerOk(t)
    PROVE  IInv'
BY OpStep, RunningIsOp DEF PagerOk

\* A page that is only a conflict surface leaves with its lock.
LEMMA ClearSyntheticStep ==
    ASSUME IInv, NEW t \in Txns, NEW p \in Pages, ClearSynthetic(t, p)
    PROVE  IInv'
<1>1. /\ state' = [state EXCEPT ![t][p] = {}] /\ lock' = Release(t, p)
      /\ op[t] = Idle /\ UNCHANGED <<live, op, save, wanted>>
    BY DEF ClearSynthetic
<1>2. op' = [op EXCEPT ![t] = Idle]
    BY <1>1 DEF IInv, Types
<1>3. /\ lock' \in [Pages -> Txns \cup {NoTxn}] /\ lock'[p] # t
      /\ \A q \in Pages \ {p} : lock'[q] = lock[q]
      /\ \A u \in Txns \ {t} : lock'[p] = u <=> lock[p] = u
    BY <1>1 DEF IInv, Types, Release
<1>4. Proper({}, p)
    BY DEF Proper, OneKind
<1>5. QED
    BY <1>1, <1>2, <1>3, <1>4, PageStep, RunningIsOp

LEMMA MarkExemptStep ==
    ASSUME IInv, NEW t \in Txns, NEW p \in Pages, MarkExempt(t, p)
    PROVE  IInv'
<1>1. /\ state' = [state EXCEPT ![t][p] = @ \cup {"exempt"}] /\ p \in Exemptable
      /\ op[t] = Idle /\ UNCHANGED <<live, lock, op, save, wanted>>
    BY DEF MarkExempt
<1>2. op' = [op EXCEPT ![t] = Idle]
    BY <1>1 DEF IInv, Types
<1>3. state[t][p] \in SUBSET Flags /\ Proper(state[t][p], p)
    BY DEF IInv, Types, StatesProper
<1>4. PICK g \in SUBSET Flags : g = state[t][p] \cup {"exempt"}
    BY <1>3 DEF Flags
<1>5. state' = [state EXCEPT ![t][p] = g]
    BY <1>1, <1>4 DEF IInv, Types
<1>6. Proper(g, p) /\ ("held_lock" \in g <=> "held_lock" \in state[t][p])
    <2>1. g \cap Work = state[t][p] \cap Work
      BY <1>4 DEF Work
    <2>2. QED
      BY <1>1, <1>3, <1>4, <2>1 DEF Proper, OneKind
<1>7. lock[p] = t <=> "held_lock" \in g
    BY <1>6 DEF IInv, LockTableAgrees
<1>8. lock' \in [Pages -> Txns \cup {NoTxn}]
    BY <1>1 DEF IInv, Types
<1>9. QED
    BY <1>1, <1>2, <1>5, <1>6, <1>7, <1>8, PageStep, RunningIsOp

-----------------------------------------------------------------------------
(* Savepoints and the end of a session *)

LEMMA SavepointStep ==
    ASSUME IInv, NEW t \in Txns, Savepoint(t)
    PROVE  IInv'
<1> DEFINE D == {q \in Pages : Tracks(state[t][q])}
           pg == [p \in D |-> state[t][p] \ {"held_lock"}]
           v == [taken |-> TRUE, pages |-> pg]
           W == {p \in Pages : "staged" \in state[t][p]}
<1>1. /\ save' = [save EXCEPT ![t] = v] /\ wanted' = [wanted EXCEPT ![t] = W]
      /\ UNCHANGED <<live, state, lock, op>>
    BY DEF Savepoint
<1>2. \A p \in Pages : state[t][p] \in SUBSET Flags /\ Proper(state[t][p], p)
    BY DEF IInv, Types, StatesProper
<1>3. D \in SUBSET Pages /\ pg \in [D -> SUBSET Flags]
    BY <1>2
<1>4. v \in Saves /\ v.pages = pg
    BY <1>3 DEF Saves
<1>5. ASSUME NEW p \in D
      PROVE  OneKind(pg[p]) /\ "exempt" \notin pg[p]
    <2>1. pg[p] \cap Work = state[t][p] \cap Work
      BY DEF Work
    <2>2. QED
      BY <1>2, <2>1 DEF OneKind, Proper, Tracks
<1>6. ASSUME NEW p \in Pages \ Exemptable
      PROVE  p \in W <=> p \in D /\ "staged" \in pg[p]
    BY <1>2 DEF Tracks, Proper
<1>7. DOMAIN pg = D /\ W \in SUBSET Pages
    OBVIOUS
<1> HIDE DEF D, pg, v, W
<1>8. save' \in [Txns -> {NoSave} \cup Saves] /\ save'[t] = v /\ \A u \in Txns \ {t} : save'[u] = save[u]
    BY <1>1, <1>4 DEF IInv, Types
<1>9. wanted' \in [Txns -> SUBSET Pages] /\ wanted'[t] = W /\ \A u \in Txns \ {t} : wanted'[u] = wanted[u]
    BY <1>1, <1>7 DEF IInv, Types
<1>10. Types'
    BY <1>1, <1>8, <1>9 DEF IInv, Types
<1>11. LockTableAgrees' /\ StatesProper' /\ \A u \in Txns : OpOK(u)'
    BY <1>1 DEF IInv, LockTableAgrees, StatesProper, OpOK
<1>12. ASSUME NEW u \in Txns
       PROVE  SaveOK(u)'
    <2>1. CASE u = t
      BY <1>4, <1>5, <1>6, <1>7, <1>8, <1>9, <2>1 DEF SaveOK
    <2>2. CASE u # t
      BY <1>8, <1>9, <2>2 DEF IInv, SaveOK
    <2>3. QED
      BY <2>1, <2>2
<1>13. QED
    BY <1>10, <1>11, <1>12 DEF IInv

\* The captured pages of a savepoint.
LEMMA SavedPages ==
    ASSUME IInv, NEW t \in Txns, save[t] # NoSave
    PROVE  /\ DOMAIN save[t].pages \subseteq Pages
           /\ \A p \in DOMAIN save[t].pages : save[t].pages[p] \in SUBSET Flags
<1>1. save[t] \in Saves
    BY DEF IInv, Types
<1>2. save[t].pages \in UNION {[D -> SUBSET Flags] : D \in SUBSET Pages}
    BY <1>1 DEF Saves
<1>3. PICK D \in SUBSET Pages : save[t].pages \in [D -> SUBSET Flags]
    BY <1>2
<1>4. QED
    BY <1>3

\* What ROLLBACK TO leaves of a page is proper.
LEMMA RolledBackProper ==
    ASSUME IInv, NEW t \in Txns, save[t] # NoSave, NEW p \in Pages
    PROVE  /\ RolledBack(t, p) \in SUBSET Flags /\ Proper(RolledBack(t, p), p)
           /\ "held_lock" \in RolledBack(t, p) <=>
                  p \in DOMAIN save[t].pages \/ "held_lock" \in state[t][p]
<1>1. CASE p \in DOMAIN save[t].pages
    <2> DEFINE f == save[t].pages[p]
    <2>1. f \in SUBSET Flags /\ OneKind(f) /\ "exempt" \notin f
      BY <1>1, SavedPages DEF IInv, SaveOK
    <2>2. RolledBack(t, p) = f \cup {"held_lock"}
      BY <1>1 DEF RolledBack
    <2>3. (f \cup {"held_lock"}) \cap Work = f \cap Work
      BY DEF Work
    <2> HIDE DEF f
    <2>4. QED
      BY <1>1, <2>1, <2>2, <2>3 DEF Proper, OneKind, Flags
<1>2. CASE p \notin DOMAIN save[t].pages
    <2>1. RolledBack(t, p) = state[t][p] \cap {"held_lock"}
      BY <1>2 DEF RolledBack
    <2>2. QED
      BY <1>2, <2>1 DEF Proper, OneKind, Flags, Work
<1>3. QED
    BY <1>1, <1>2

LEMMA RollbackToStep ==
    ASSUME IInv, NEW t \in Txns, RollbackTo(t)
    PROVE  IInv'
<1> DEFINE S == DOMAIN save[t].pages
<1>1. /\ op[t] = Idle /\ save[t] # NoSave /\ Reacquirable(t)
      /\ state' = [state EXCEPT ![t] = [p \in Pages |-> RolledBack(t, p)]]
      /\ lock' = [p \in Pages |-> IF p \in S THEN t ELSE lock[p]]
      /\ UNCHANGED <<live, op, save, wanted>>
    BY DEF RollbackTo, LocksRolledBack
<1>2. /\ state' \in [Txns -> [Pages -> SUBSET Flags]]
      /\ \A p \in Pages : state'[t][p] = RolledBack(t, p)
      /\ \A u \in Txns \ {t} : state'[u] = state[u]
    BY <1>1, RolledBackProper DEF IInv, Types
<1>3. lock' \in [Pages -> Txns \cup {NoTxn}]
    BY <1>1 DEF IInv, Types
<1>4. Types'
    BY <1>1, <1>2, <1>3 DEF IInv, Types
<1>5. \A p \in S : lock[p] \in {NoTxn, t}
    BY <1>1, SavedPages DEF Reacquirable, IInv, LockTableAgrees
<1>6. LockTableAgrees'
    <2>1. ASSUME NEW u \in Txns, NEW p \in Pages
          PROVE  lock'[p] = u <=> "held_lock" \in state'[u][p]
      <3>1. lock[p] = u <=> "held_lock" \in state[u][p]
        BY DEF IInv, LockTableAgrees
      <3>2. CASE u = t
        BY <1>1, <1>2, <3>1, <3>2, RolledBackProper
      <3>3. CASE u # t
        BY <1>1, <1>2, <1>5, <3>1, <3>3
      <3>4. QED
        BY <3>2, <3>3
    <2>2. QED
      BY <2>1 DEF LockTableAgrees
<1>7. StatesProper'
    <2>1. ASSUME NEW u \in Txns, NEW p \in Pages
          PROVE  Proper(state'[u][p], p)
      BY <1>1, <1>2, RolledBackProper DEF IInv, StatesProper
    <2>2. QED
      BY <2>1 DEF StatesProper, Proper, OneKind
<1>8. ASSUME NEW u \in Txns
      PROVE  OpOK(u)' /\ SaveOK(u)'
    BY <1>1, <1>2 DEF IInv, OpOK, SaveOK
<1>9. QED
    BY <1>4, <1>6, <1>7, <1>8 DEF IInv

LEMMA ReleaseSavepointStep ==
    ASSUME IInv, NEW t \in Txns, ReleaseSavepoint(t)
    PROVE  IInv'
<1>1. /\ save' = [save EXCEPT ![t] = NoSave] /\ wanted' = [wanted EXCEPT ![t] = {}]
      /\ UNCHANGED <<live, state, lock, op>>
    BY DEF ReleaseSavepoint
<1>2. save' \in [Txns -> {NoSave} \cup Saves] /\ save'[t] = NoSave /\ \A u \in Txns \ {t} : save'[u] = save[u]
    BY <1>1 DEF IInv, Types
<1>3. wanted' \in [Txns -> SUBSET Pages] /\ \A u \in Txns \ {t} : wanted'[u] = wanted[u]
    BY <1>1 DEF IInv, Types
<1>4. Types'
    BY <1>1, <1>2, <1>3 DEF IInv, Types
<1>5. LockTableAgrees' /\ StatesProper'
    BY <1>1 DEF IInv, LockTableAgrees, StatesProper
<1>6. ASSUME NEW u \in Txns
      PROVE  OpOK(u)' /\ SaveOK(u)'
    BY <1>1, <1>2, <1>3 DEF IInv, OpOK, SaveOK
<1>7. QED
    BY <1>4, <1>5, <1>6 DEF IInv

\* The end of a session releases what its handle says it holds, which is all
\* that it holds.
LEMMA FinishStep ==
    ASSUME IInv, NEW t \in Txns, Finish(t)
    PROVE  IInv'
<1>1. /\ op[t] = Idle /\ live' = live \ {t}
      /\ lock' = [p \in Pages |-> IF "held_lock" \in state[t][p] /\ lock[p] = t
                                  THEN NoTxn ELSE lock[p]]
      /\ state' = [state EXCEPT ![t] = [p \in Pages |-> {}]]
      /\ save' = [save EXCEPT ![t] = NoSave] /\ wanted' = [wanted EXCEPT ![t] = {}] /\ op' = op
    BY DEF Finish
<1>2. save' \in [Txns -> {NoSave} \cup Saves] /\ save'[t] = NoSave /\ \A u \in Txns \ {t} : save'[u] = save[u]
    BY <1>1 DEF IInv, Types
<1>3. wanted' \in [Txns -> SUBSET Pages] /\ \A u \in Txns \ {t} : wanted'[u] = wanted[u]
    BY <1>1 DEF IInv, Types
<1>4. /\ state' \in [Txns -> [Pages -> SUBSET Flags]]
      /\ \A p \in Pages : state'[t][p] = {}
      /\ \A u \in Txns \ {t} : state'[u] = state[u]
    BY <1>1 DEF IInv, Types
<1>5. lock' \in [Pages -> Txns \cup {NoTxn}]
    BY <1>1 DEF IInv, Types
<1>6. Types'
    BY <1>1, <1>2, <1>3, <1>4, <1>5 DEF IInv, Types
<1>7. LockTableAgrees'
    <2>1. ASSUME NEW u \in Txns, NEW p \in Pages
          PROVE  lock'[p] = u <=> "held_lock" \in state'[u][p]
      <3>1. /\ lock[p] = u <=> "held_lock" \in state[u][p]
            /\ lock[p] = t <=> "held_lock" \in state[t][p]
        BY DEF IInv, LockTableAgrees
      <3>2. lock'[p] = IF lock[p] = t THEN NoTxn ELSE lock[p]
        BY <1>1, <3>1
      <3>3. QED
        BY <1>4, <3>1, <3>2
    <2>2. QED
      BY <2>1 DEF LockTableAgrees
<1>8. StatesProper'
    <2>1. ASSUME NEW u \in Txns, NEW p \in Pages
          PROVE  Proper(state'[u][p], p)
      <3>1. Proper({}, p)
        BY DEF Proper, OneKind
      <3>2. QED
        BY <1>4, <3>1 DEF IInv, StatesProper
    <2>2. QED
      BY <2>1 DEF StatesProper, Proper, OneKind
<1>9. ASSUME NEW u \in Txns
      PROVE  OpOK(u)' /\ SaveOK(u)'
    BY <1>1, <1>2, <1>3, <1>4 DEF IInv, OpOK, SaveOK
<1>10. QED
    BY <1>6, <1>7, <1>8, <1>9 DEF IInv

-----------------------------------------------------------------------------
(* Theorems *)

LEMMA InitIInv == Init => IInv
<1> SUFFICES ASSUME Init PROVE IInv
    OBVIOUS
<1>1. Types
    BY RunningIsOp DEF Init, Types
<1>2. LockTableAgrees /\ StatesProper
    BY DEF Init, LockTableAgrees, StatesProper, Proper, OneKind
<1>3. \A t \in Txns : OpOK(t) /\ SaveOK(t)
    BY DEF Init, OpOK, SaveOK
<1>4. QED
    BY <1>1, <1>2, <1>3 DEF IInv

LEMMA NextIInv == IInv /\ [Next]_vars => IInv'
<1> SUFFICES ASSUME IInv, [Next]_vars PROVE IInv'
    OBVIOUS
<1>1. CASE UNCHANGED vars
    BY <1>1 DEF vars, IInv, Types, LockTableAgrees, StatesProper, OpOK, SaveOK
<1>2. CASE Next
    <2>1. PICK t \in Txns :
              \/ \E p \in Pages : \E k \in Kinds(p) : StartOp(t, p, k)
              \/ Advance(t)
              \/ TimeOut(t)
              \/ \E p \in Pages : ClearSynthetic(t, p)
              \/ \E p \in Pages : MarkExempt(t, p)
              \/ Savepoint(t)
              \/ RollbackTo(t)
              \/ ReleaseSavepoint(t)
              \/ Finish(t)
      BY <1>2 DEF Next
    <2>2. op[t] = Idle <=> op[t].step = "idle"
      BY OpParts DEF IInv, Types
    <2>3. CASE CheckFails(t) \/ TimeOut(t) \/ PagerFails(t)
      BY <2>2, <2>3, RestoreStep DEF CheckFails, TimeOut, PagerFails
    <2>4. CASE CheckPasses(t) \/ Acquire(t) \/ Park(t) \/ Wake(t) \/ PagerOk(t)
      BY <2>4, CheckPassesStep, AcquireStep, ParkStep, WakeStep, PagerOkStep
    <2>5. QED
      BY <2>1, <2>3, <2>4, StartOpStep, ClearSyntheticStep, MarkExemptStep, SavepointStep,
         RollbackToStep, ReleaseSavepointStep, FinishStep DEF Advance
<1>3. QED
    BY <1>1, <1>2

\* The inductive invariant is one.
THEOREM Invariance == Spec => []IInv
BY InitIInv, NextIInv, PTL DEF Spec

\* Every variable of the session page states keeps its type.
THEOREM TypeCorrect == Spec => []TypeOK
<1>1. IInv => TypeOK
    BY OpParts DEF IInv, Types, TypeOK
<1>2. QED
    BY <1>1, Invariance, PTL

\* The held_lock bits of the handles and the page lock table agree, whatever
\* operations fail, time out, are rolled back or end the session.
THEOREM LocksAgree == Spec => []LockTableAgrees
<1>1. IInv => LockTableAgrees
    BY DEF IInv
<1>2. QED
    BY <1>1, Invariance, PTL

\* A page with pending work is locked by its session, and the work is of one
\* kind.
THEOREM PendingLocked == Spec => []PendingPagesAreLocked
<1>1. IInv => PendingPagesAreLocked
    <2> SUFFICES ASSUME IInv, NEW t \in Txns, NEW p \in Pages
                 PROVE  /\ state[t][p] \cap Work # {} => lock[p] = t
                        /\ Cardinality(state[t][p] \cap Work) <= 1
      BY DEF PendingPagesAreLocked, Work
    <2>1. Proper(state[t][p], p) /\ (lock[p] = t <=> "held_lock" \in state[t][p])
      BY DEF IInv, StatesProper, LockTableAgrees
    <2>2. Cardinality({}) = 0
      BY FS_EmptySet
    <2>3. Cardinality({"staged"}) = 1 /\ Cardinality({"freed"}) = 1 /\ Cardinality({"conflict_only"}) = 1
      BY FS_Singleton
    <2>4. Cardinality(state[t][p] \cap Work) \in {0, 1}
      BY <2>1, <2>2, <2>3 DEF Proper, OneKind
    <2>5. QED
      BY <2>1, <2>4 DEF Proper
<1>2. QED
    BY <1>1, Invariance, PTL

\* After ROLLBACK TO the staged pages, those that may be exempt aside, are the
\* ones staged when the savepoint was taken.
THEOREM RollbackRestores == Spec => RollbackRestoresWriteSet
<1>1. ASSUME IInv, NEW t \in Txns, RollbackTo(t)
      PROVE  {p \in Pages \ Exemptable : "staged" \in state'[t][p]} = wanted[t] \ Exemptable
    <2>1. save[t] # NoSave /\ SaveOK(t) /\ wanted[t] \subseteq Pages
      BY <1>1 DEF RollbackTo, IInv, Types
    <2>2. \A p \in Pages : state'[t][p] = RolledBack(t, p)
      BY <1>1 DEF RollbackTo, IInv, Types
    <2>3. \A p \in Pages : "staged" \in RolledBack(t, p) <=>
              p \in DOMAIN save[t].pages /\ "staged" \in save[t].pages[p]
      BY DEF RolledBack
    <2>4. QED
      BY <2>1, <2>2, <2>3 DEF SaveOK
<1>2. IInv => [\A t \in Txns : RollbackTo(t) =>
                  {p \in Pages \ Exemptable : "staged" \in state'[t][p]}
                      = wanted[t] \ Exemptable]_vars
    BY <1>1
<1>3. QED
    BY <1>2, Invariance, PTL DEF RollbackRestoresWriteSet
=============================================================================
