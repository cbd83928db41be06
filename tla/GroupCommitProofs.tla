-------------------------- MODULE GroupCommitProofs --------------------------
(***************************************************************************)
(* Proofs about GroupCommit for any number of committing transactions, any *)
(* pages, any retention and any I/O failures: one flusher at a time, every *)
(* batch in the epoch its waiter expects and at most once in the WAL, first *)
(* committer wins, and no filling epoch without somebody to flush it.      *)
(*                                                                         *)
(* Epochs carry the argument.  Whatever is queued has the epoch after the  *)
(* consolidator's as its target, a running flush has the consolidator's    *)
(* epoch, and what is in the WAL has an epoch that is over: so the three   *)
(* never meet, and no outcome on record can be that of a queued batch.     *)
(***************************************************************************)
EXTENDS GroupCommit, FiniteSetTheorems, TLAPS

-----------------------------------------------------------------------------
(* The inductive invariant *)

Jobs == [epoch : Nat, group : SUBSET Txns, more : BOOLEAN]

\* Which batches the consolidator holds in which phase.
PhaseHolds ==
    /\ phase # "Filling" => pending = {} /\ ~vacant
    /\ phase # "Flushing" => pipelined = {}
    /\ vacant => pending # {}

\* The FLUSHING phase has one owner, and nobody else is between begin_flush
\* and the end of a flush.
OneOwner ==
    /\ \A t \in Txns : pc[t] \in InFlush => phase = "Flushing"
    /\ phase = "Flushing" => \E t \in Txns : pc[t] \in InFlush
    /\ \A t, u \in Txns : pc[t] \in InFlush /\ pc[u] \in InFlush => t = u

\* At most one transaction is to flush the epoch that is filling.
OneDesignated ==
    /\ \A t, u \in Txns : Designated(t) /\ Designated(u) => t = u
    /\ \A t \in Txns : Designated(t) => phase = "Filling" /\ pending # {} /\ ~vacant

\* A queued batch waits for the next epoch, and its submitter is still there.
QueuedTargets ==
    \A u \in pending \cup pipelined :
        /\ target[u] = epoch + 1
        /\ pc[u] \in {"flusher", "waiting"}

\* A running flush is that of the current epoch, and so are its batches; a
\* flush that is over was of no later one.
JobEpochs ==
    \A t \in Txns :
        /\ pc[t] \in InFlush =>
              /\ job[t].epoch = epoch
              /\ \A u \in job[t].group : target[u] = epoch /\ pc[u] \notin {"idle", "ready"}
        /\ pc[t] \in {"completed", "aborted"} => job[t].epoch <= epoch

\* Outcomes are recorded only for epochs that have been flushed.
OutcomesArePast == completed <= epoch /\ \A e \in failed : e <= epoch

\* The batches in the WAL are of epochs that have been flushed, and while a
\* flush has yet to append, of earlier ones than its own.
WalTargets ==
    \A i \in 1 .. Len(wal) : \A u \in wal[i] :
        /\ pc[u] \notin {"idle", "ready"}
        /\ target[u] <= epoch
        /\ \A t \in Txns : pc[t] = "flushing" => target[u] < epoch

\* No batch is in the WAL twice.
WalDisjoint == \A i, j \in 1 .. Len(wal) : i # j => wal[i] \cap wal[j] = {}

IInv ==
    /\ TypeOK
    /\ PhaseHolds
    /\ OneOwner
    /\ OneDesignated
    /\ QueuedTargets
    /\ JobEpochs
    /\ OutcomesArePast
    /\ WalTargets
    /\ WalDisjoint
    /\ FirstCommitterWins
    /\ VacancyWillBeTaken

-----------------------------------------------------------------------------
(* Lemmas *)

\* The initial state satisfies the invariant.
LEMMA InitIInv == Init => IInv
<1> SUFFICES ASSUME Init PROVE IInv
    OBVIOUS
<1>1. TypeOK
  <2>1. job \in [Txns -> [epoch : Nat, group : SUBSET Txns, more : BOOLEAN]]
    BY DEF Init, NoJob
  <2>2. wal \in Seq(SUBSET Txns)
    BY DEF Init
  <2>3. vacant \in BOOLEAN
    BY Zenon DEF Init
  <2>4. QED
    BY <2>1, <2>2, <2>3 DEF Init, TypeOK
<1>2. PhaseHolds /\ OneOwner /\ OneDesignated /\ VacancyWillBeTaken
    BY DEF Init, PhaseHolds, OneOwner, OneDesignated, VacancyWillBeTaken, Designated, InFlush
<1>3. QueuedTargets /\ JobEpochs /\ OutcomesArePast
    BY DEF Init, QueuedTargets, JobEpochs, OutcomesArePast, InFlush
<1>4. WalTargets /\ WalDisjoint /\ FirstCommitterWins
    BY DEF Init, WalTargets, WalDisjoint, FirstCommitterWins
<1>5. QED
    BY <1>1, <1>2, <1>3, <1>4 DEF IInv

\* Recording in a job whether another flush follows keeps its type and the
\* rest of it.
LEMMA SetMore ==
    ASSUME NEW j \in Jobs, NEW b \in BOOLEAN
    PROVE  /\ [j EXCEPT !.more = b] \in Jobs
           /\ [j EXCEPT !.more = b].more = b
           /\ [j EXCEPT !.more = b].epoch = j.epoch
BY DEF Jobs

\* A designated flusher finds the consolidator FILLING, with batches and no
\* vacancy: begin_flush is not refused.
LEMMA FlusherFindsFilling ==
    ASSUME IInv, NEW t \in Txns, Designated(t)
    PROVE  phase = "Filling" /\ pending # {} /\ ~vacant
BY DEF IInv, OneDesignated

\* A waiter of the epoch that is filling has no outcome on record.
LEMMA QueuedHasNoOutcome ==
    ASSUME IInv, NEW w \in Txns, target[w] = epoch + 1
    PROVE  target[w] \notin failed /\ ~(completed >= target[w])
BY DEF IInv, TypeOK, OutcomesArePast

-----------------------------------------------------------------------------
(* Each step preserves the invariant *)

\* Pinning a snapshot touches nothing that is queued or in the WAL.
LEMMA BeginStep ==
    ASSUME IInv, NEW t \in Txns, NEW ps \in SUBSET Pages, Begin(t, ps)
    PROVE  IInv'
<1>1. TypeOK'
    BY DEF IInv, TypeOK, InFlush, Begin, queue
<1>2. PhaseHolds'
    BY DEF IInv, PhaseHolds, TypeOK, InFlush, Begin, queue
<1>3. OneOwner'
    BY DEF IInv, OneOwner, TypeOK, InFlush, Begin, queue
<1>4. OneDesignated'
    BY DEF IInv, OneDesignated, TypeOK, PhaseHolds, OneOwner, Designated, InFlush, Begin, queue
<1>5. QueuedTargets'
    BY DEF IInv, QueuedTargets, TypeOK, PhaseHolds, InFlush, Begin, queue
<1>6. JobEpochs'
    BY DEF IInv, JobEpochs, TypeOK, QueuedTargets, OneOwner, InFlush, Begin, queue
<1>7. OutcomesArePast'
    BY DEF IInv, OutcomesArePast, TypeOK, JobEpochs, InFlush, Begin, queue
<1>8. WalTargets'
    BY DEF IInv, WalTargets, TypeOK, JobEpochs, OneOwner, InFlush, Begin, queue
<1>9. WalDisjoint'
    BY DEF IInv, WalDisjoint, TypeOK, WalTargets, JobEpochs, InFlush, Begin, queue
<1>10. FirstCommitterWins'
    BY DEF IInv, FirstCommitterWins, TypeOK, WalTargets, InFlush, Begin, queue
<1>11. VacancyWillBeTaken'
    BY DEF IInv, VacancyWillBeTaken, TypeOK, PhaseHolds, QueuedTargets, JobEpochs, OneDesignated, OneOwner, Designated, InFlush, Begin, queue
<1>12. QED
    BY <1>1, <1>2, <1>3, <1>4, <1>5, <1>6, <1>7, <1>8, <1>9, <1>10, <1>11 DEF IInv

\* A submitted batch gets the next epoch as its target, and its submitter becomes the
\* flusher only of an empty queue.
LEMMA SubmitStep ==
    ASSUME IInv, NEW t \in Txns, Submit(t)
    PROVE  IInv'
<1>1. TypeOK'
  <2>1. vacant' \in BOOLEAN
    BY Zenon DEF IInv, TypeOK, Submit
  <2>2. pc' \in [Txns -> {"idle", "ready", "flusher", "completed", "aborted",
                          "waiting", "ok", "err"} \cup InFlush]
    BY DEF IInv, TypeOK, Submit
  <2>3. phase' \in {"Filling", "Flushing", "Complete"}
    BY DEF IInv, TypeOK, Submit
  <2>4. pending' \subseteq Txns /\ pipelined' \subseteq Txns /\ target' \in [Txns -> Nat]
    BY DEF IInv, TypeOK, Submit
  <2>5. QED
    BY <2>1, <2>2, <2>3, <2>4 DEF IInv, TypeOK, Submit
<1>2. PhaseHolds'
    BY DEF IInv, PhaseHolds, TypeOK, InFlush, Submit
<1>3. OneOwner'
  <2>1. \A u \in Txns : pc'[u] \in InFlush <=> pc[u] \in InFlush
    BY DEF IInv, TypeOK, Submit, InFlush
  <2>2. phase' = "Flushing" <=> phase = "Flushing"
    BY DEF Submit
  <2>3. QED
    BY <2>1, <2>2 DEF IInv, OneOwner
<1>4. OneDesignated'
  <2>1. CASE phase = "Flushing" \/ pending # {}
    <3>1. \A u \in Txns : Designated(u)' <=> Designated(u)
      BY <2>1 DEF IInv, TypeOK, PhaseHolds, Submit, Designated
    <3>2. (\E u \in Txns : Designated(u)) => phase' = "Filling" /\ pending' # {} /\ ~vacant'
      BY <2>1 DEF IInv, OneDesignated, PhaseHolds, Submit
    <3>3. QED
      BY <3>1, <3>2 DEF IInv, OneDesignated
  <2>2. CASE phase # "Flushing" /\ pending = {}
    <3>1. phase' = "Filling" /\ pending' # {} /\ ~vacant'
      BY <2>2 DEF Submit
    <3>2. \A u \in Txns : Designated(u)' => u = t
      BY <2>2 DEF IInv, TypeOK, OneDesignated, Submit, Designated
    <3>3. QED
      BY <3>1, <3>2 DEF OneDesignated
  <2>3. QED
    BY <2>1, <2>2
<1>5. QueuedTargets'
    BY DEF IInv, QueuedTargets, TypeOK, PhaseHolds, InFlush, Submit
<1>6. JobEpochs'
    BY DEF IInv, JobEpochs, TypeOK, QueuedTargets, OneOwner, InFlush, Submit
<1>7. OutcomesArePast'
    BY DEF IInv, OutcomesArePast, TypeOK, JobEpochs, InFlush, Submit
<1>8. WalTargets'
  <2>1. /\ pc[t] = "ready" /\ wal' = wal /\ epoch' = epoch
        /\ \A u \in Txns \ {t} : pc'[u] = pc[u] /\ target'[u] = target[u]
        /\ pc'[t] \in {"waiting", "flusher"}
    BY DEF IInv, TypeOK, Submit
  <2>2. ASSUME NEW i \in 1 .. Len(wal), NEW u \in wal[i]
        PROVE  u \in Txns \ {t}
    BY <2>1 DEF IInv, TypeOK, WalTargets
  <2>3. \A u \in Txns : pc'[u] = "flushing" => pc[u] = "flushing"
    BY <2>1
  <2>4. QED
    BY <2>1, <2>2, <2>3 DEF IInv, WalTargets
<1>9. WalDisjoint'
    BY DEF IInv, WalDisjoint, TypeOK, WalTargets, JobEpochs, InFlush, Submit
<1>10. FirstCommitterWins'
    BY DEF IInv, FirstCommitterWins, TypeOK, WalTargets, InFlush, Submit
<1>11. VacancyWillBeTaken'
    BY DEF IInv, VacancyWillBeTaken, TypeOK, PhaseHolds, QueuedTargets, JobEpochs, OneDesignated, OneOwner, Designated, InFlush, Submit
<1>12. QED
    BY <1>1, <1>2, <1>3, <1>4, <1>5, <1>6, <1>7, <1>8, <1>9, <1>10, <1>11 DEF IInv

\* begin_flush by the only one who may: the next epoch starts with what was pending.
LEMMA TakeBatchesStep ==
    ASSUME IInv, NEW t \in Txns, pc[t] \in {"flusher", "waiting"},
           phase = "Filling", pending # {}, \A u \in Txns : Designated(u) => u = t,
           UNCHANGED <<completed, failed, pages, snap, target, parked, wal>>, TakeBatches(t)
    PROVE  IInv'
<1>1. TypeOK'
  <2>1. job' \in [Txns -> [epoch : Nat, group : SUBSET Txns, more : BOOLEAN]]
    BY DEF IInv, TypeOK, TakeBatches
  <2>2. pc' \in [Txns -> {"idle", "ready", "flusher", "completed", "aborted",
                          "waiting", "ok", "err"} \cup InFlush]
    BY DEF IInv, TypeOK, TakeBatches, InFlush
  <2>3. vacant' \in BOOLEAN
    BY Zenon DEF TakeBatches
  <2>4. phase' \in {"Filling", "Flushing", "Complete"} /\ pending' \subseteq Txns /\ epoch' \in Nat
    BY DEF IInv, TypeOK, TakeBatches
  <2>5. QED
    BY <2>1, <2>2, <2>3, <2>4 DEF IInv, TypeOK, TakeBatches
<1>2. PhaseHolds'
    BY DEF IInv, PhaseHolds, TypeOK, InFlush, TakeBatches
<1>3. OneOwner'
    BY DEF IInv, OneOwner, TypeOK, InFlush, TakeBatches
<1>4. OneDesignated'
    BY DEF IInv, OneDesignated, TypeOK, PhaseHolds, OneOwner, Designated, InFlush, TakeBatches
<1>5. QueuedTargets'
    BY DEF IInv, QueuedTargets, TypeOK, PhaseHolds, InFlush, TakeBatches
<1>6. JobEpochs'
    BY DEF IInv, JobEpochs, TypeOK, QueuedTargets, OneOwner, InFlush, TakeBatches
<1>7. OutcomesArePast'
    BY DEF IInv, OutcomesArePast, TypeOK, JobEpochs, InFlush, TakeBatches
<1>8. WalTargets'
    BY DEF IInv, WalTargets, TypeOK, JobEpochs, OneOwner, InFlush, TakeBatches
<1>9. WalDisjoint'
    BY DEF IInv, WalDisjoint, TypeOK, WalTargets, JobEpochs, InFlush, TakeBatches
<1>10. FirstCommitterWins'
    BY Zenon DEF IInv, FirstCommitterWins
<1>11. VacancyWillBeTaken'
    BY DEF IInv, VacancyWillBeTaken, TypeOK, PhaseHolds, QueuedTargets, JobEpochs, OneDesignated, OneOwner, Designated, InFlush, TakeBatches
<1>12. QED
    BY <1>1, <1>2, <1>3, <1>4, <1>5, <1>6, <1>7, <1>8, <1>9, <1>10, <1>11 DEF IInv

\* A flush appends batches that are neither stale nor in conflict with each other.
LEMMA FlushStep ==
    ASSUME IInv, NEW t \in Txns, Flush(t)
    PROVE  IInv'
<1> DEFINE g == job[t].group
<1>a. pc[t] = "flushing" /\ g \in SUBSET Txns /\ wal \in Seq(SUBSET Txns)
    BY DEF IInv, TypeOK, Flush
<1>b. PICK x \in {"flushed", "broken"} : pc' = [pc EXCEPT ![t] = x]
    BY DEF Flush
<1>c. wal' = wal \/ (wal' = Append(wal, g) /\ ~Overlap(g) /\ ~Stale(g))
    BY DEF Flush
<1>d. UNCHANGED <<phase, pending, pipelined, epoch, vacant, completed, failed, pages, snap,
                  target, job, parked>>
    BY DEF Flush, queue
<1>e. \A i \in 1 .. Len(wal') :
          \/ i \in 1 .. Len(wal) /\ wal'[i] = wal[i]
          \/ i = Len(wal) + 1 /\ wal'[i] = g /\ ~Overlap(g) /\ ~Stale(g)
    BY <1>a, <1>c
<1>f. \A u \in Txns : pc'[u] = IF u = t THEN x ELSE pc[u]
    BY <1>b DEF IInv, TypeOK, InFlush
<1> HIDE DEF g
<1>1. TypeOK'
  <2>1. wal' \in Seq(SUBSET Txns)
    BY <1>a, <1>c
  <2>2. pc' \in [Txns -> {"idle", "ready", "flusher", "completed", "aborted",
                          "waiting", "ok", "err"} \cup InFlush]
    BY <1>b DEF IInv, TypeOK, InFlush
  <2>3. QED
    BY <1>d, <2>1, <2>2 DEF IInv, TypeOK
<1>2. PhaseHolds'
    BY <1>d DEF IInv, PhaseHolds
<1>3. OneOwner'
    BY <1>a, <1>d, <1>f DEF IInv, OneOwner, InFlush
<1>4. OneDesignated'
    BY <1>a, <1>d, <1>f DEF IInv, OneDesignated, Designated
<1>5. QueuedTargets'
    BY <1>a, <1>d, <1>f DEF IInv, TypeOK, QueuedTargets
<1>6. JobEpochs'
    BY <1>a, <1>d, <1>f DEF IInv, TypeOK, JobEpochs, InFlush
<1>7. OutcomesArePast'
    BY <1>d DEF IInv, OutcomesArePast
<1>8. WalTargets'
  <2> SUFFICES ASSUME NEW i \in 1 .. Len(wal'), NEW u \in wal'[i]
               PROVE  /\ pc'[u] \notin {"idle", "ready"}
                      /\ target[u] <= epoch
                      /\ \A v \in Txns : pc'[v] = "flushing" => target[u] < epoch
    BY <1>d DEF WalTargets
  <2>1. u \in Txns
    BY <1>a, <1>e
  <2>2. target[u] <= epoch /\ pc[u] \notin {"idle", "ready"}
    <3>1. CASE i \in 1 .. Len(wal) /\ wal'[i] = wal[i]
      BY <3>1 DEF IInv, WalTargets
    <3>2. CASE wal'[i] = g
      BY <1>a, <3>2 DEF IInv, TypeOK, JobEpochs, InFlush, g
    <3>3. QED
      BY <1>e, <3>1, <3>2
  <2>3. \A v \in Txns : pc'[v] # "flushing"
    BY <1>a, <1>f DEF IInv, OneOwner, InFlush
  <2>4. QED
    BY <1>f, <2>1, <2>2, <2>3
<1>9. WalDisjoint'
  <2>1. \A i \in 1 .. Len(wal) : wal[i] \cap g = {}
    BY <1>a DEF IInv, TypeOK, WalTargets, JobEpochs, InFlush, g
  <2>2. QED
    BY <1>a, <1>e, <2>1 DEF IInv, WalDisjoint
<1>10. FirstCommitterWins'
  <2> SUFFICES ASSUME NEW i \in 1 .. Len(wal'), NEW j \in 1 .. Len(wal'),
                      NEW u \in wal'[i], NEW v \in wal'[j],
                      i <= j, u # v, pages[u] \cap pages[v] # {}
               PROVE  snap[v] >= i
    BY <1>d DEF FirstCommitterWins
  <2>1. CASE j \in 1 .. Len(wal) /\ wal'[j] = wal[j]
    BY <1>a, <1>e, <2>1 DEF IInv, FirstCommitterWins
  <2>2. CASE j = Len(wal) + 1 /\ wal'[j] = g /\ ~Overlap(g) /\ ~Stale(g)
    <3>1. v \in g /\ snap[v] \in Nat
      BY <1>a, <2>2 DEF IInv, TypeOK
    <3>2. i \in 1 .. Len(wal) /\ wal'[i] = wal[i]
      BY <1>a, <1>e, <2>2, <3>1 DEF Overlap
    <3>3. pages[v] \cap WrittenAfter(snap[v]) = {}
      BY <2>2, <3>1 DEF Stale
    <3>4. i \notin snap[v] + 1 .. Len(wal)
      BY <3>2, <3>3 DEF WrittenAfter
    <3>5. QED
      BY <1>a, <3>1, <3>2, <3>4
  <2>3. QED
    BY <1>e, <2>1, <2>2
<1>11. VacancyWillBeTaken'
    BY <1>a, <1>d, <1>f DEF IInv, VacancyWillBeTaken, Designated
<1>12. QED
    BY <1>1, <1>2, <1>3, <1>4, <1>5, <1>6, <1>7, <1>8, <1>9, <1>10, <1>11 DEF IInv

\* complete_flush ends the phase and hands the promoted epoch to its caller.
LEMMA CompleteStep ==
    ASSUME IInv, NEW t \in Txns, Complete(t)
    PROVE  IInv'
<1>a. PICK b \in BOOLEAN : b = (pipelined # {})
    BY Zenon
<1>b. job' = [job EXCEPT ![t] = [job[t] EXCEPT !.more = b]]
    BY <1>a DEF Complete
<1>c. job \in [Txns -> Jobs] /\ job[t] \in Jobs /\ (b <=> pipelined # {})
    BY <1>a DEF IInv, TypeOK, Jobs
<1>d. pc[t] \in InFlush
    BY DEF Complete, InFlush
<1>1. TypeOK'
  <2>1. job' \in [Txns -> Jobs]
    BY <1>b, <1>c, SetMore
  <2>2. vacant' \in BOOLEAN
    BY Zenon DEF IInv, TypeOK, Complete
  <2>3. QED
    BY <2>1, <2>2 DEF IInv, TypeOK, Jobs, InFlush, Complete, Promote
<1>2. PhaseHolds'
    BY DEF IInv, PhaseHolds, TypeOK, InFlush, Complete, Promote
<1>3. OneOwner'
    BY DEF IInv, OneOwner, TypeOK, InFlush, Complete, Promote
<1>4. OneDesignated'
    BY DEF IInv, OneDesignated, TypeOK, PhaseHolds, OneOwner, Designated, InFlush, Complete, Promote
<1>5. QueuedTargets'
    BY DEF IInv, QueuedTargets, TypeOK, PhaseHolds, InFlush, Complete, Promote
<1>6. JobEpochs'
    BY DEF IInv, JobEpochs, TypeOK, QueuedTargets, OneOwner, InFlush, Complete, Promote
<1>7. OutcomesArePast'
    BY DEF IInv, OutcomesArePast, TypeOK, JobEpochs, InFlush, Complete, Promote
<1>8. WalTargets'
    BY DEF IInv, WalTargets, TypeOK, JobEpochs, OneOwner, InFlush, Complete, Promote
<1>9. WalDisjoint'
    BY DEF IInv, WalDisjoint, TypeOK, WalTargets, JobEpochs, InFlush, Complete, Promote
<1>10. FirstCommitterWins'
    BY DEF IInv, FirstCommitterWins, TypeOK, WalTargets, InFlush, Complete, Promote
<1>11. VacancyWillBeTaken'
  <2>1. CASE pipelined = {}
    BY <2>1 DEF VacancyWillBeTaken, Complete, Promote
  <2>2. CASE pipelined # {}
    <3>1. pc'[t] = "completed" /\ job'[t].more
      BY <1>b, <1>c, <2>2, SetMore DEF IInv, TypeOK, Complete
    <3>2. QED
      BY <3>1 DEF VacancyWillBeTaken, Designated
  <2>3. QED
    BY <2>1, <2>2
<1>12. QED
    BY <1>1, <1>2, <1>3, <1>4, <1>5, <1>6, <1>7, <1>8, <1>9, <1>10, <1>11 DEF IInv

\* A publication records an epoch that is over.
LEMMA PublishCompletedStep ==
    ASSUME IInv, NEW t \in Txns, PublishCompleted(t)
    PROVE  IInv'
<1>1. TypeOK'
    BY DEF IInv, TypeOK, InFlush, PublishCompleted, queue
<1>2. PhaseHolds'
    BY DEF IInv, PhaseHolds, TypeOK, InFlush, PublishCompleted, queue
<1>3. OneOwner'
    BY DEF IInv, OneOwner, TypeOK, InFlush, PublishCompleted, queue
<1>4. OneDesignated'
    BY DEF IInv, OneDesignated, TypeOK, PhaseHolds, OneOwner, Designated, InFlush, PublishCompleted, queue
<1>5. QueuedTargets'
    BY DEF IInv, QueuedTargets, TypeOK, PhaseHolds, InFlush, PublishCompleted, queue
<1>6. JobEpochs'
    BY DEF IInv, JobEpochs, TypeOK, QueuedTargets, OneOwner, InFlush, PublishCompleted, queue
<1>7. OutcomesArePast'
    BY DEF IInv, OutcomesArePast, TypeOK, JobEpochs, InFlush, PublishCompleted, queue
<1>8. WalTargets'
    BY DEF IInv, WalTargets, TypeOK, JobEpochs, OneOwner, InFlush, PublishCompleted, queue
<1>9. WalDisjoint'
    BY DEF IInv, WalDisjoint, TypeOK, WalTargets, JobEpochs, InFlush, PublishCompleted, queue
<1>10. FirstCommitterWins'
    BY DEF IInv, FirstCommitterWins, TypeOK, WalTargets, InFlush, PublishCompleted, queue
<1>11. VacancyWillBeTaken'
    BY DEF IInv, VacancyWillBeTaken, TypeOK, PhaseHolds, QueuedTargets, JobEpochs, OneDesignated, OneOwner, Designated, InFlush, PublishCompleted, queue
<1>12. QED
    BY <1>1, <1>2, <1>3, <1>4, <1>5, <1>6, <1>7, <1>8, <1>9, <1>10, <1>11 DEF IInv

\* abort_flush leaves the promoted epoch vacant, with the aborting flusher to wake it.
LEMMA AbortStep ==
    ASSUME IInv, NEW t \in Txns, Abort(t)
    PROVE  IInv'
<1>a. PICK b \in BOOLEAN : b = (pipelined # {})
    BY Zenon
<1>b. job' = [job EXCEPT ![t] = [job[t] EXCEPT !.more = b]]
    BY <1>a DEF Abort
<1>c. job \in [Txns -> Jobs] /\ job[t] \in Jobs /\ (b <=> pipelined # {})
    BY <1>a DEF IInv, TypeOK, Jobs
<1>d. pc[t] \in InFlush
    BY DEF Abort, InFlush
<1>1. TypeOK'
  <2>1. job' \in [Txns -> Jobs]
    BY <1>b, <1>c, SetMore
  <2>2. vacant' \in BOOLEAN
    BY Zenon DEF IInv, TypeOK, Abort
  <2>3. QED
    BY <2>1, <2>2 DEF IInv, TypeOK, Jobs, InFlush, Abort, Promote
<1>2. PhaseHolds'
    BY DEF IInv, PhaseHolds, TypeOK, InFlush, Abort, Promote
<1>3. OneOwner'
    BY DEF IInv, OneOwner, TypeOK, InFlush, Abort, Promote
<1>4. OneDesignated'
    BY DEF IInv, OneDesignated, TypeOK, PhaseHolds, OneOwner, Designated, InFlush, Abort, Promote
<1>5. QueuedTargets'
    BY DEF IInv, QueuedTargets, TypeOK, PhaseHolds, InFlush, Abort, Promote
<1>6. JobEpochs'
    BY DEF IInv, JobEpochs, TypeOK, QueuedTargets, OneOwner, InFlush, Abort, Promote
<1>7. OutcomesArePast'
    BY DEF IInv, OutcomesArePast, TypeOK, JobEpochs, InFlush, Abort, Promote
<1>8. WalTargets'
    BY DEF IInv, WalTargets, TypeOK, JobEpochs, OneOwner, InFlush, Abort, Promote
<1>9. WalDisjoint'
    BY DEF IInv, WalDisjoint, TypeOK, WalTargets, JobEpochs, InFlush, Abort, Promote
<1>10. FirstCommitterWins'
    BY DEF IInv, FirstCommitterWins, TypeOK, WalTargets, InFlush, Abort, Promote
<1>11. VacancyWillBeTaken'
  <2>1. CASE pipelined = {}
    BY <2>1 DEF VacancyWillBeTaken, Abort, Promote
  <2>2. CASE pipelined # {}
    <3>1. job'[t].more /\ job'[t].epoch = epoch
      BY <1>b, <1>c, <1>d, <2>2, SetMore DEF IInv, JobEpochs, InFlush
    <3>2. pc'[t] = "aborted" /\ vacant' /\ epoch' = epoch
      BY <2>2 DEF IInv, TypeOK, Abort, Promote
    <3>3. QED
      BY <3>1, <3>2 DEF VacancyWillBeTaken
  <2>3. QED
    BY <2>1, <2>2
<1>12. QED
    BY <1>1, <1>2, <1>3, <1>4, <1>5, <1>6, <1>7, <1>8, <1>9, <1>10, <1>11 DEF IInv

\* Publishing the failure wakes the waiters of the promoted epoch.
LEMMA PublishFailedStep ==
    ASSUME IInv, NEW t \in Txns, PublishFailed(t)
    PROVE  IInv'
<1>1. TypeOK'
    BY DEF IInv, TypeOK, InFlush, PublishFailed, queue, Signalled
<1>2. PhaseHolds'
    BY DEF IInv, PhaseHolds, TypeOK, InFlush, PublishFailed, queue, Signalled
<1>3. OneOwner'
    BY DEF IInv, OneOwner, TypeOK, InFlush, PublishFailed, queue, Signalled
<1>4. OneDesignated'
    BY DEF IInv, OneDesignated, TypeOK, PhaseHolds, OneOwner, Designated, InFlush, PublishFailed, queue, Signalled
<1>5. QueuedTargets'
    BY DEF IInv, QueuedTargets, TypeOK, PhaseHolds, InFlush, PublishFailed, queue, Signalled
<1>6. JobEpochs'
    BY DEF IInv, JobEpochs, TypeOK, QueuedTargets, OneOwner, InFlush, PublishFailed, queue, Signalled
<1>7. OutcomesArePast'
    BY DEF IInv, OutcomesArePast, TypeOK, JobEpochs, InFlush, PublishFailed, queue, Signalled
<1>8. WalTargets'
    BY DEF IInv, WalTargets, TypeOK, JobEpochs, OneOwner, InFlush, PublishFailed, queue, Signalled
<1>9. WalDisjoint'
    BY DEF IInv, WalDisjoint, TypeOK, WalTargets, JobEpochs, InFlush, PublishFailed, queue, Signalled
<1>10. FirstCommitterWins'
    BY DEF IInv, FirstCommitterWins, TypeOK, WalTargets, InFlush, PublishFailed, queue, Signalled
<1>11. VacancyWillBeTaken'
  <2> SUFFICES ASSUME phase = "Filling", pending # {}
               PROVE  VacancyWillBeTaken'
    BY DEF VacancyWillBeTaken, PublishFailed, queue
  <2>1. CASE \E u \in Txns : Designated(u)
    BY <2>1 DEF IInv, TypeOK, VacancyWillBeTaken, Designated, PublishFailed
  <2>2. CASE vacant /\ \E w \in Txns \ parked : pc[w] = "waiting" /\ target[w] = epoch + 1
    BY <2>2 DEF IInv, TypeOK, VacancyWillBeTaken, PublishFailed, queue, Signalled
  <2>3. CASE /\ \A u \in Txns : ~Designated(u)
             /\ vacant
             /\ \E u \in Txns : pc[u] = "aborted" /\ job[u].more /\ job[u].epoch = epoch
    <3>1. PICK u \in Txns : pc[u] = "aborted" /\ job[u].more /\ job[u].epoch = epoch
      BY <2>3
    <3>2. CASE u # t
      BY <2>3, <3>1, <3>2 DEF IInv, TypeOK, VacancyWillBeTaken, PublishFailed, queue
    <3>3. CASE u = t
      <4>1. PICK w \in pending : TRUE
        OBVIOUS
      <4>2. w \in Txns /\ pc[w] = "waiting" /\ target[w] = epoch + 1
        BY <2>3, <4>1 DEF IInv, TypeOK, QueuedTargets, Designated
      <4>3. w \notin parked' /\ pc'[w] = "waiting"
        BY <3>1, <3>3, <4>2 DEF IInv, TypeOK, PublishFailed, Signalled
      <4>4. QED
        BY <2>3, <4>2, <4>3 DEF VacancyWillBeTaken, PublishFailed, queue
    <3>4. QED
      BY <3>2, <3>3
  <2>4. QED
    BY <2>1, <2>2, <2>3 DEF IInv, VacancyWillBeTaken
<1>12. QED
    BY <1>1, <1>2, <1>3, <1>4, <1>5, <1>6, <1>7, <1>8, <1>9, <1>10, <1>11 DEF IInv

\* A waiter that wakes at its timeout only looks again.
LEMMA TimeoutStep ==
    ASSUME IInv, NEW t \in Txns, Timeout(t)
    PROVE  IInv'
<1>1. TypeOK'
    BY DEF IInv, TypeOK, InFlush, Timeout, queue
<1>2. PhaseHolds'
    BY DEF IInv, PhaseHolds, TypeOK, InFlush, Timeout, queue
<1>3. OneOwner'
    BY DEF IInv, OneOwner, TypeOK, InFlush, Timeout, queue
<1>4. OneDesignated'
    BY DEF IInv, OneDesignated, TypeOK, PhaseHolds, OneOwner, Designated, InFlush, Timeout, queue
<1>5. QueuedTargets'
    BY DEF IInv, QueuedTargets, TypeOK, PhaseHolds, InFlush, Timeout, queue
<1>6. JobEpochs'
    BY DEF IInv, JobEpochs, TypeOK, QueuedTargets, OneOwner, InFlush, Timeout, queue
<1>7. OutcomesArePast'
    BY DEF IInv, OutcomesArePast, TypeOK, JobEpochs, InFlush, Timeout, queue
<1>8. WalTargets'
    BY DEF IInv, WalTargets, TypeOK, JobEpochs, OneOwner, InFlush, Timeout, queue
<1>9. WalDisjoint'
    BY DEF IInv, WalDisjoint, TypeOK, WalTargets, JobEpochs, InFlush, Timeout, queue
<1>10. FirstCommitterWins'
    BY DEF IInv, FirstCommitterWins, TypeOK, WalTargets, InFlush, Timeout, queue
<1>11. VacancyWillBeTaken'
    BY DEF IInv, VacancyWillBeTaken, TypeOK, PhaseHolds, QueuedTargets, JobEpochs, OneDesignated, OneOwner, Designated, InFlush, Timeout, queue
<1>12. QED
    BY <1>1, <1>2, <1>3, <1>4, <1>5, <1>6, <1>7, <1>8, <1>9, <1>10, <1>11 DEF IInv


\* begin_flush by the designated flusher: it is never refused.
LEMMA BeginFlushStep ==
    ASSUME IInv, NEW t \in Txns, BeginFlush(t)
    PROVE  IInv'
<1>1. Designated(t)
    BY DEF BeginFlush, Designated
<1>2. phase = "Filling" /\ pending # {}
    BY <1>1, FlusherFindsFilling
<1>3. \A u \in Txns : Designated(u) => u = t
    BY <1>1 DEF IInv, OneDesignated
<1>4. TakeBatches(t)
    BY <1>2 DEF BeginFlush
<1>5. QED
    BY <1>2, <1>3, <1>4, TakeBatchesStep DEF BeginFlush

\* A waiter that parks leaves somebody awake for the epoch that is filling: it
\* would have claimed that epoch had it been its own and vacant.
LEMMA ParkStep ==
    ASSUME IInv, NEW t \in Txns, pc[t] = "waiting", ~CanClaim(t),
           parked' = parked \cup {t},
           UNCHANGED <<queue, completed, failed, pc, pages, snap, target, job, wal>>
    PROVE  IInv'
<1>1. TypeOK' /\ PhaseHolds' /\ OutcomesArePast'
    BY DEF IInv, TypeOK, PhaseHolds, OutcomesArePast, queue
<1>2. OneOwner' /\ OneDesignated' /\ QueuedTargets' /\ JobEpochs'
    BY DEF IInv, OneOwner, OneDesignated, Designated, QueuedTargets, JobEpochs, queue
<1>3. WalTargets' /\ WalDisjoint' /\ FirstCommitterWins'
    BY DEF IInv, WalTargets, WalDisjoint, FirstCommitterWins, queue
<1>4. VacancyWillBeTaken'
    BY DEF IInv, VacancyWillBeTaken, Designated, CanClaim, queue
<1>5. QED
    BY <1>1, <1>2, <1>3, <1>4 DEF IInv

\* A waiter returns, and it is none of those who wait for the epoch that is
\* filling.
LEMMA ReturnStep ==
    ASSUME IInv, NEW t \in Txns, pc[t] = "waiting",
           target[t] \in failed \/ completed >= target[t],
           NEW x \in {"ok", "err"}, pc' = [pc EXCEPT ![t] = x],
           UNCHANGED <<queue, completed, failed, pages, snap, target, job, parked, wal>>
    PROVE  IInv'
<1>1. target[t] # epoch + 1
    BY QueuedHasNoOutcome
<1>2. TypeOK' /\ PhaseHolds' /\ OutcomesArePast'
    BY DEF IInv, TypeOK, PhaseHolds, OutcomesArePast, queue
<1>3. OneOwner' /\ OneDesignated'
    BY DEF IInv, TypeOK, OneOwner, OneDesignated, Designated, InFlush, queue
<1>4. QueuedTargets' /\ JobEpochs'
    BY <1>1 DEF IInv, TypeOK, QueuedTargets, JobEpochs, InFlush, queue
<1>5. WalTargets' /\ WalDisjoint' /\ FirstCommitterWins'
    BY DEF IInv, TypeOK, WalTargets, WalDisjoint, FirstCommitterWins, queue
<1>6. VacancyWillBeTaken'
    BY <1>1 DEF IInv, TypeOK, VacancyWillBeTaken, Designated, queue
<1>7. QED
    BY <1>2, <1>3, <1>4, <1>5, <1>6 DEF IInv

\* observe_epoch_outcome: return, take over the vacant epoch, or park.
LEMMA ObserveStep ==
    ASSUME IInv, NEW t \in Txns, Observe(t)
    PROVE  IInv'
<1>1. CASE target[t] \in failed \/ completed >= target[t]
    <2>1. \E x \in {"ok", "err"} : pc' = [pc EXCEPT ![t] = x]
      BY <1>1 DEF Observe
    <2>2. QED
      BY <1>1, <2>1, ReturnStep DEF Observe
<1>2. CASE ~(target[t] \in failed \/ completed >= target[t]) /\ CanClaim(t)
    <2>1. TakeBatches(t) /\ UNCHANGED <<completed, failed, pages, snap, target, parked, wal>>
      BY <1>2 DEF Observe
    <2>2. \A u \in Txns : ~Designated(u)
      BY <1>2, FlusherFindsFilling DEF CanClaim
    <2>3. QED
      BY <1>2, <2>1, <2>2, TakeBatchesStep DEF Observe, CanClaim
<1>3. CASE ~(target[t] \in failed \/ completed >= target[t]) /\ ~CanClaim(t)
    BY <1>3, ParkStep DEF Observe
<1>4. QED
    BY <1>1, <1>2, <1>3

\* Every step, and a stuttering step, preserves the invariant.
LEMMA NextIInv == IInv /\ [Next]_vars => IInv'
<1> SUFFICES ASSUME IInv, [Next]_vars
             PROVE  IInv'
    OBVIOUS
<1>1. CASE UNCHANGED vars
    BY <1>1 DEF vars, IInv, TypeOK, PhaseHolds, OneOwner, OneDesignated, Designated,
                QueuedTargets, JobEpochs, OutcomesArePast, WalTargets, WalDisjoint,
                FirstCommitterWins, VacancyWillBeTaken
<1>2. ASSUME NEW t \in Txns, NEW ps \in (SUBSET Pages) \ {{}}, Begin(t, ps)
      PROVE  IInv'
    BY <1>2, BeginStep
<1>3. ASSUME NEW t \in Txns, Step(t)
      PROVE  IInv'
    BY <1>3, SubmitStep, BeginFlushStep, FlushStep, CompleteStep, PublishCompletedStep,
       AbortStep, PublishFailedStep, ObserveStep DEF Step
<1>4. ASSUME NEW t \in Txns, Timeout(t)
      PROVE  IInv'
    BY <1>4, TimeoutStep
<1>5. QED
    BY <1>1, <1>2, <1>3, <1>4 DEF Next

\* The invariant counts flushers as OneFlusher does.
LEMMA OneFlusherFromInvariant == IInv => OneFlusher
<1> SUFFICES ASSUME IInv
             PROVE  OneFlusher
    OBVIOUS
<1>1. Cardinality({t \in Txns : pc[t] \in InFlush}) = (IF phase = "Flushing" THEN 1 ELSE 0)
    <2>1. CASE phase = "Flushing"
      <3>1. PICK u \in Txns : {t \in Txns : pc[t] \in InFlush} = {u}
        BY <2>1 DEF IInv, OneOwner
      <3>2. QED
        BY <2>1, <3>1, FS_Singleton
    <2>2. CASE phase # "Flushing"
      <3>1. {t \in Txns : pc[t] \in InFlush} = {}
        BY <2>2 DEF IInv, OneOwner
      <3>2. QED
        BY <2>2, <3>1, FS_EmptySet
    <2>3. QED
      BY <2>1, <2>2
<1>2. Cardinality({t \in Txns : Designated(t)}) <= 1
    <2>1. CASE \A t \in Txns : ~Designated(t)
      <3>1. {t \in Txns : Designated(t)} = {}
        BY <2>1
      <3>2. QED
        BY <3>1, FS_EmptySet
    <2>2. CASE \E t \in Txns : Designated(t)
      <3>1. PICK u \in Txns : {t \in Txns : Designated(t)} = {u}
        BY <2>2 DEF IInv, OneDesignated
      <3>2. Cardinality({u}) = 1
        BY FS_Singleton
      <3>3. QED
        BY <3>1, <3>2
    <2>3. QED
      BY <2>1, <2>2
<1>3. QED
    BY <1>1, <1>2 DEF IInv, OneDesignated, OneFlusher

-----------------------------------------------------------------------------
(* Theorems *)

\* The inductive invariant holds in every reachable state of the queue.
THEOREM Invariance == Spec => []IInv
<1>1. Init => IInv
    BY InitIInv
<1>2. IInv /\ [Next]_vars => IInv'
    BY NextIInv
<1>3. QED
    BY <1>1, <1>2, PTL DEF Spec

\* The consolidator, the published outcomes and the committing threads keep
\* their types.
THEOREM TypeCorrect == Spec => []TypeOK
<1>1. IInv => TypeOK
    BY DEF IInv
<1>2. QED
    BY <1>1, Invariance, PTL

\* begin_flush, complete_flush and abort_flush are never called in a wrong
\* phase, and an epoch never has two flushers, whatever fails and whoever
\* takes over.
THEOREM FlusherIsUnique == Spec => []OneFlusher
<1>1. QED
    BY Invariance, OneFlusherFromInvariant, PTL

\* The flushed epoch of a batch is the target its waiter computed at
\* submission, and no batch is appended twice.
THEOREM EpochsMatchTargets == Spec => []FlushedInTargetEpoch
<1>1. IInv => FlushedInTargetEpoch
    BY DEF IInv, JobEpochs, WalDisjoint, FlushedInTargetEpoch
<1>2. QED
    BY <1>1, Invariance, PTL

\* The overlap check and the per-batch conflict check let only one of two
\* conflicting batches into the WAL unless the later one saw the earlier.
THEOREM GroupsFirstCommitterWins == Spec => []FirstCommitterWins
<1>1. IInv => FirstCommitterWins
    BY DEF IInv
<1>2. QED
    BY <1>1, Invariance, PTL

\* An epoch that is filling never waits for a timeout: after an abort its
\* waiters are awake, or the aborting flusher has still to wake them.
THEOREM AbortHandsOver == Spec => []VacancyWillBeTaken
<1>1. IInv => VacancyWillBeTaken
    BY DEF IInv
<1>2. QED
    BY <1>1, Invariance, PTL
=============================================================================
