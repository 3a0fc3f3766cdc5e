---------------------------- MODULE OutboxProofs ----------------------------
(***************************************************************************)
(* Proofs about Outbox, for any number of events, dispatchers and workers, *)
(* any batch size, attempt limits and bounds on faults and requeues: the   *)
(* type invariant, EffectsExactlyOnce, that Outbox implements              *)
(* EventDelivery, and what the rows and the dead-letter list say of the    *)
(* queue (QueueTellsTheTruth).                                             *)
(***************************************************************************)
EXTENDS Outbox, TLAPS

\* At most one consumer transaction holds an event's key.
OneTxPerKey ==
  \A e \in Events : \A v, w \in Workers : InTx(v, e) /\ InTx(w, e) => v = w

\* The key a transaction holds is not committed.
TxKeyIsNew == \A e \in Events : \A w \in Workers : InTx(w, e) => e \notin keys

\* What the dispatchers, the queue and the workers deal with has been emitted.
Emitted == {e \in Events : status[e] # "UNSENT"}
OnlyEmitted ==
  /\ \A d \in Dispatchers : disp[d].todo \cup disp[d].done \cup disp[d].failed \subseteq Emitted
  /\ \A e \in Events : job[e] # "none" => e \in Emitted
  /\ \A w \in Workers : work[w].event # None => work[w].event \in Emitted
  /\ dlq \subseteq Emitted

IInv == OutboxTypeOK /\ EffectsExactlyOnce /\ OneTxPerKey /\ TxKeyIsNew /\ OnlyEmitted
-----------------------------------------------------------------------------
(* Type correctness, action by action. *)

LEMMA TypeInit == OutboxInit => OutboxTypeOK
  BY OutboxAssumption DEF OutboxInit, OutboxTypeOK, OutboxAssumption, IdleDispatcher, IdleWorker,
     RowStatus, JobState, WorkPhase

LEMMA TypeEvent ==
  ASSUME OutboxTypeOK, NEW e \in Events,
         Enqueue(e) \/ Requeue(e) \/ Stalled(e) \/ RemoveCompleted(e) \/ Replay(e) \/ Drop(e)
  PROVE  OutboxTypeOK'
<1>1. CASE Enqueue(e)
  BY <1>1 DEF OutboxTypeOK, Enqueue, RowStatus, rowVars, queueVars, workVars, opsVars
<1>2. CASE Requeue(e)
  BY <1>2, OutboxAssumption DEF OutboxTypeOK, Requeue, RowStatus, rowVars, queueVars, workVars, opsVars, OutboxAssumption
<1>3. CASE Stalled(e)
  BY <1>3, OutboxAssumption DEF OutboxTypeOK, Stalled, JobState, rowVars, queueVars, workVars, opsVars, OutboxAssumption
<1>4. CASE RemoveCompleted(e)
  BY <1>4 DEF OutboxTypeOK, RemoveCompleted, JobState, rowVars, queueVars, workVars, opsVars
<1>5. CASE Replay(e)
  <2>1. "envelope" \notin DeadLetterFields
    BY DEF DeadLetterFields
  <2>2. /\ cli' = [cli EXCEPT ![e] = "skipped"]
        /\ requeues' = requeues + 1
        /\ UNCHANGED <<job, made, dlq>>
        /\ UNCHANGED <<rowVars, owner, workVars, faults>>
    BY <1>5, <2>1 DEF Replay
  <2> QED
    BY <2>2 DEF OutboxTypeOK, rowVars, workVars
<1>6. CASE Drop(e)
  BY <1>6 DEF OutboxTypeOK, Drop, rowVars, queueVars, workVars, opsVars
<1> QED BY <1>1, <1>2, <1>3, <1>4, <1>5, <1>6

LEMMA TypeDispatcher ==
  ASSUME OutboxTypeOK, NEW d \in Dispatchers, DispatcherStep(d) \/ DispatcherCrash(d)
  PROVE  OutboxTypeOK'
<1> USE DEF rowVars, queueVars, workVars, opsVars, IdleDispatcher, Recording
<1>1. CASE ClaimPendingBatch(d)
  BY <1>1 DEF OutboxTypeOK, ClaimPendingBatch, Batch, Claimable
<1>2. ASSUME Publish(d) \/ PublishFails(d) PROVE OutboxTypeOK'
  <2>1. PICK e \in NextToPublish(d) :
          \/ disp' = [disp EXCEPT ![d].todo = @ \ {e}, ![d].done = @ \cup {e}]
          \/ disp' = [disp EXCEPT ![d].todo = @ \ {e}, ![d].failed = @ \cup {e}]
    BY <1>2 DEF Publish, PublishFails
  <2>2. disp' \in [Dispatchers -> [phase : {"idle", "publish", "record"}, todo : SUBSET Events,
                                  done : SUBSET Events, failed : SUBSET Events]]
    <3>1. e \in Events /\ disp \in [Dispatchers -> [phase : {"idle", "publish", "record"},
                    todo : SUBSET Events, done : SUBSET Events, failed : SUBSET Events]]
      BY DEF OutboxTypeOK, NextToPublish
    <3>2. CASE disp' = [disp EXCEPT ![d].todo = @ \ {e}, ![d].done = @ \cup {e}]
      BY <3>1, <3>2
    <3>3. CASE disp' = [disp EXCEPT ![d].todo = @ \ {e}, ![d].failed = @ \cup {e}]
      BY <3>1, <3>3
    <3> QED BY <2>1, <3>2, <3>3
  <2>3. \E x \in Events : AddJob(x) \/ UNCHANGED <<job, made, owner>>
    BY <1>2 DEF Publish, PublishFails, NextToPublish, OutboxTypeOK
  <2>4. /\ job' \in [Events -> JobState]
        /\ made' \in [Events -> Nat]
        /\ owner' = owner
    <3>1. PICK x \in Events : AddJob(x) \/ UNCHANGED <<job, made, owner>>
      BY <2>3
    <3>2. CASE UNCHANGED <<job, made, owner>>
      BY <3>2 DEF OutboxTypeOK
    <3>3. CASE AddJob(x) /\ job[x] = "none"
      BY <3>3 DEF OutboxTypeOK, AddJob, JobState
    <3>4. CASE AddJob(x) /\ job[x] # "none"
      BY <3>4 DEF OutboxTypeOK, AddJob, queueVars
    <3> QED BY <3>1, <3>2, <3>3, <3>4
  <2>5. UNCHANGED <<status, attempts, rowLock, workVars, opsVars, faults>>
    BY <1>2 DEF Publish, PublishFails
  <2> QED BY <2>2, <2>4, <2>5 DEF OutboxTypeOK
<1>4. CASE MarkDispatched(d)
  BY <1>4 DEF OutboxTypeOK, MarkDispatched, RowStatus
<1>5. ASSUME NEW e \in Events, MarkFailed(d, e) PROVE OutboxTypeOK'
  <2>1. /\ attempts' \in [Events -> Nat]
        /\ status' \in [Events -> RowStatus]
    BY <1>5 DEF OutboxTypeOK, MarkFailed, FailedStatus, RowStatus
  <2>2. disp[d].failed \subseteq Events
    BY DEF OutboxTypeOK
  <2>3. disp' \in [Dispatchers -> [phase : {"idle", "publish", "record"}, todo : SUBSET Events,
                                  done : SUBSET Events, failed : SUBSET Events]]
    BY <1>5, <2>2 DEF OutboxTypeOK, MarkFailed
  <2> QED BY <1>5, <2>1, <2>3 DEF OutboxTypeOK, MarkFailed
<1>6. CASE DispatcherCrash(d)
  BY <1>6 DEF OutboxTypeOK, DispatcherCrash
<1> QED BY <1>1, <1>2, <1>4, <1>5, <1>6 DEF DispatcherStep

LEMMA TypeWorker ==
  ASSUME OutboxTypeOK, NEW w \in Workers, WorkerStep(w) \/ WorkerCrash(w)
  PROVE  OutboxTypeOK'
<1> USE DEF rowVars, queueVars, workVars, opsVars, IdleWorker, WorkPhase, JobState
<1>a. None \notin Events
  BY OutboxAssumption DEF OutboxAssumption
<1>1. ASSUME NEW e \in Events, TakeJob(w, e) PROVE OutboxTypeOK'
  BY <1>1, <1>a DEF OutboxTypeOK, TakeJob
<1>2. CASE Claim(w)
  BY <1>2 DEF OutboxTypeOK, Claim
<1>3. CASE Handle(w)
  BY <1>3 DEF OutboxTypeOK, Handle
<1>4. CASE Commit(w)
  BY <1>4 DEF OutboxTypeOK, Commit
<1>5. CASE Abort(w)
  BY <1>5 DEF OutboxTypeOK, Abort
<1>6. CASE Succeed(w)
  BY <1>6 DEF OutboxTypeOK, Succeed, Holds
<1>7. CASE Fail(w)
  <2>1. PICK e \in Events : work[w].event = e
    BY <1>7 DEF OutboxTypeOK, Fail
  <2>2. CASE Holds(w, e)
    <3>1. /\ made' \in [Events -> Nat]
          /\ job' \in [Events -> JobState]
      <4>1. /\ made' = [made EXCEPT ![e] = made[e] + 1]
            /\ \E s \in {"waiting", "failed"} : job' = [job EXCEPT ![e] = s]
        BY <1>7, <2>1, <2>2 DEF Fail
      <4> QED BY <4>1 DEF OutboxTypeOK
    <3>2. \/ work' = [work EXCEPT ![w] = IdleWorker]
          \/ work' = [work EXCEPT ![w] = [phase |-> "deadLetter", event |-> e]]
      BY <1>7, <2>1, <2>2 DEF Fail
    <3>3. /\ work' \in [Workers -> [phase : WorkPhase, event : Events \cup {None}]]
          /\ \A v \in Workers : work'[v].event = None <=> work'[v].phase = "idle"
      <4>1. CASE work' = [work EXCEPT ![w] = IdleWorker]
        BY <4>1 DEF OutboxTypeOK
      <4>2. CASE work' = [work EXCEPT ![w] = [phase |-> "deadLetter", event |-> e]]
        BY <4>2, <1>a DEF OutboxTypeOK
      <4> QED BY <3>2, <4>1, <4>2
    <3> QED BY <1>7, <3>1, <3>3 DEF OutboxTypeOK, Fail
  <2>3. CASE ~Holds(w, e)
    <3>1. /\ work' = [work EXCEPT ![w] = IdleWorker]
          /\ UNCHANGED <<made, job>>
      BY <1>7, <2>1, <2>3 DEF Fail
    <3> QED BY <1>7, <3>1 DEF OutboxTypeOK, Fail
  <2> QED BY <2>2, <2>3
<1>8. CASE DeadLetter(w)
  BY <1>8 DEF OutboxTypeOK, DeadLetter
<1>9. CASE WorkerCrash(w)
  BY <1>9 DEF OutboxTypeOK, WorkerCrash
<1> QED BY <1>1, <1>2, <1>3, <1>4, <1>5, <1>6, <1>7, <1>8, <1>9 DEF WorkerStep

LEMMA TypeStep == OutboxTypeOK /\ [OutboxNext]_outboxVars => OutboxTypeOK'
<1>1. ASSUME OutboxTypeOK, UNCHANGED outboxVars PROVE OutboxTypeOK'
  BY <1>1 DEF OutboxTypeOK, outboxVars, rowVars, queueVars, workVars, opsVars
<1> QED BY <1>1, TypeEvent, TypeDispatcher, TypeWorker DEF OutboxNext

\* Every variable of the outbox stays in its range, whatever crashes,
\* redeliveries, requeues and lost job locks happen.
THEOREM TypeCorrect == OutboxSpec => []OutboxTypeOK
BY TypeInit, TypeStep, PTL DEF OutboxSpec
-----------------------------------------------------------------------------
(* The inductive invariant.  First what each group of actions leaves of the *)
(* four conjuncts beside TypeOK.                                            *)

LEMMA InvInit == OutboxInit => IInv
<1> SUFFICES ASSUME OutboxInit PROVE IInv
  OBVIOUS
<1>1. OutboxTypeOK
  BY TypeInit
<1>2. EffectsExactlyOnce /\ OneTxPerKey /\ TxKeyIsNew
  BY DEF OutboxInit, EffectsExactlyOnce, OneTxPerKey, TxKeyIsNew, InTx, IdleWorker
<1>3. OnlyEmitted
  BY DEF OutboxInit, OnlyEmitted, IdleDispatcher, IdleWorker
<1> QED BY <1>1, <1>2, <1>3 DEF IInv

\* Only the workers touch transactions, keys and effects.
LEMMA TxFrame ==
  ASSUME EffectsExactlyOnce, OneTxPerKey, TxKeyIsNew, UNCHANGED <<work, keys, effects>>
  PROVE  EffectsExactlyOnce' /\ OneTxPerKey' /\ TxKeyIsNew'
BY DEF EffectsExactlyOnce, OneTxPerKey, TxKeyIsNew, InTx

\* Enqueue emits its event; the other actions on one event leave Emitted alone.
LEMMA EventEmitted ==
  ASSUME IInv, NEW e \in Events,
         Enqueue(e) \/ Requeue(e) \/ Stalled(e) \/ RemoveCompleted(e) \/ Replay(e) \/ Drop(e)
  PROVE  Emitted' = IF Enqueue(e) THEN Emitted \cup {e} ELSE Emitted
<1> USE DEF IInv, OutboxTypeOK, Emitted, rowVars
<1>1. CASE Enqueue(e)
  BY <1>1 DEF Enqueue
<1>2. CASE Requeue(e)
  BY <1>2 DEF Requeue, Enqueue
<1>3. CASE Stalled(e) \/ RemoveCompleted(e) \/ Replay(e) \/ Drop(e)
  <2>1. status' = status
    BY <1>3 DEF Stalled, RemoveCompleted, Replay, Drop
  <2>2. ~Enqueue(e)
    BY <2>1 DEF Enqueue
  <2> QED BY <2>1, <2>2
<1> QED BY <1>1, <1>2, <1>3

LEMMA DispatcherEmitted ==
  ASSUME IInv, NEW d \in Dispatchers, DispatcherStep(d) \/ DispatcherCrash(d)
  PROVE  Emitted' = Emitted
<1> USE DEF IInv, OutboxTypeOK
<1>1. CASE MarkDispatched(d)
  BY <1>1 DEF MarkDispatched, OnlyEmitted, Emitted
<1>2. ASSUME NEW e \in Events, MarkFailed(d, e) PROVE Emitted' = Emitted
  <2>1. e \in Emitted
    BY <1>2 DEF MarkFailed, OnlyEmitted
  <2>2. status' = [status EXCEPT ![e] = FailedStatus(attempts[e] + 1)]
    BY <1>2 DEF MarkFailed
  <2>3. FailedStatus(attempts[e] + 1) # "UNSENT"
    BY DEF FailedStatus
  <2> QED BY <2>1, <2>2, <2>3 DEF Emitted
<1>3. CASE ClaimPendingBatch(d) \/ Publish(d) \/ PublishFails(d) \/ DispatcherCrash(d)
  BY <1>3 DEF ClaimPendingBatch, Publish, PublishFails, DispatcherCrash, Emitted
<1> QED BY <1>1, <1>2, <1>3 DEF DispatcherStep

LEMMA EventInv ==
  ASSUME IInv, NEW e \in Events,
         Enqueue(e) \/ Requeue(e) \/ Stalled(e) \/ RemoveCompleted(e) \/ Replay(e) \/ Drop(e)
  PROVE  IInv'
<1>1. OutboxTypeOK'
  BY TypeEvent DEF IInv
<1>2. EffectsExactlyOnce' /\ OneTxPerKey' /\ TxKeyIsNew'
  <2>1. UNCHANGED <<work, keys, effects>>
    BY DEF Enqueue, Requeue, Stalled, RemoveCompleted, Replay, Drop, workVars
  <2> QED BY <2>1, TxFrame DEF IInv
<1>3. Emitted \subseteq Emitted'
  BY EventEmitted
<1>4. OnlyEmitted'
  <2>1. UNCHANGED <<disp, work>> /\ dlq' \subseteq dlq
    <3>1. CASE Replay(e)
      BY <3>1 DEF Replay, DeadLetterFields, rowVars, workVars
    <3>2. CASE ~Replay(e)
      BY <3>2 DEF Enqueue, Requeue, Stalled, RemoveCompleted, Drop, rowVars, workVars, opsVars
    <3> QED BY <3>1, <3>2
  <2>2. \A x \in Events : job'[x] # "none" => job[x] # "none" \/ x \in dlq
    BY DEF Enqueue, Requeue, Stalled, RemoveCompleted, Replay, Drop, queueVars, IInv, OutboxTypeOK
  <2> QED BY <2>1, <2>2, <1>3 DEF IInv, OnlyEmitted
<1> QED BY <1>1, <1>2, <1>4 DEF IInv

LEMMA DispatcherInv ==
  ASSUME IInv, NEW d \in Dispatchers, DispatcherStep(d) \/ DispatcherCrash(d)
  PROVE  IInv'
<1>1. OutboxTypeOK'
  BY TypeDispatcher DEF IInv
<1>2. UNCHANGED <<work, keys, effects, dlq>>
  BY DEF DispatcherStep, ClaimPendingBatch, Publish, PublishFails, MarkDispatched, MarkFailed,
     DispatcherCrash, workVars, opsVars
<1>3. EffectsExactlyOnce' /\ OneTxPerKey' /\ TxKeyIsNew'
  BY <1>2, TxFrame DEF IInv
<1>4. Emitted' = Emitted
  BY DispatcherEmitted
<1>5. \A x \in Dispatchers : disp'[x].todo \cup disp'[x].done \cup disp'[x].failed \subseteq Emitted
  <2> USE DEF IInv, OutboxTypeOK, OnlyEmitted, IdleDispatcher, Recording
  <2>1. CASE ClaimPendingBatch(d)
    <3>1. Batch \subseteq Emitted
      BY DEF Batch, Claimable, Emitted
    <3> QED BY <2>1, <3>1 DEF ClaimPendingBatch
  <2>2. CASE Publish(d)
    BY <2>2 DEF Publish, NextToPublish
  <2>3. CASE PublishFails(d)
    BY <2>3 DEF PublishFails, NextToPublish
  <2>4. CASE MarkDispatched(d)
    BY <2>4 DEF MarkDispatched
  <2>5. ASSUME NEW e \in Events, MarkFailed(d, e)
        PROVE  \A x \in Dispatchers :
                 disp'[x].todo \cup disp'[x].done \cup disp'[x].failed \subseteq Emitted
    <3>1. disp' = [disp EXCEPT ![d] = IF disp[d].failed = {e} THEN IdleDispatcher
                                        ELSE Recording(disp[d].failed \ {e})]
      BY <2>5 DEF MarkFailed
    <3> QED BY <3>1
  <2>6. CASE DispatcherCrash(d)
    BY <2>6 DEF DispatcherCrash
  <2> QED BY <2>1, <2>2, <2>3, <2>4, <2>5, <2>6 DEF DispatcherStep
<1>6. \A x \in Events : job'[x] # "none" => x \in Emitted
  <2>1. CASE Publish(d) \/ PublishFails(d)
    <3>1. PICK e \in NextToPublish(d) : AddJob(e) \/ UNCHANGED queueVars
      BY <2>1 DEF Publish, PublishFails
    <3>2. e \in Emitted
      BY DEF NextToPublish, IInv, OnlyEmitted
    <3> QED BY <3>1, <3>2 DEF AddJob, queueVars, IInv, OutboxTypeOK, OnlyEmitted
  <2>2. CASE ~(Publish(d) \/ PublishFails(d))
    <3>1. job' = job
      BY <2>2 DEF DispatcherStep, ClaimPendingBatch, MarkDispatched, MarkFailed, DispatcherCrash,
         queueVars
    <3> QED BY <3>1 DEF IInv, OnlyEmitted
  <2> QED BY <2>1, <2>2
<1>7. OnlyEmitted'
  BY <1>2, <1>4, <1>5, <1>6 DEF IInv, OnlyEmitted
<1> QED BY <1>1, <1>3, <1>7 DEF IInv

\* The other workers are where they were, and a worker enters a transaction
\* only by Claim, when nobody holds the key and it is not committed.
LEMMA TxMove ==
  ASSUME IInv, OutboxTypeOK', NEW w \in Workers, UNCHANGED <<keys, effects>>,
         \A v \in Workers \ {w} : work'[v] = work[v],
         \A e \in Events : InTx(w, e)' => \/ InTx(w, e)
                                          \/ e \notin keys /\ \A v \in Workers : ~InTx(v, e)
  PROVE  EffectsExactlyOnce' /\ OneTxPerKey' /\ TxKeyIsNew'
<1>1. \A v \in Workers \ {w} : \A e \in Events : InTx(v, e)' <=> InTx(v, e)
  BY DEF InTx
<1>2. EffectsExactlyOnce'
  BY DEF IInv, EffectsExactlyOnce
<1>3. OneTxPerKey'
  BY <1>1 DEF IInv, OneTxPerKey
<1>4. TxKeyIsNew'
  BY <1>1 DEF IInv, TxKeyIsNew
<1> QED BY <1>2, <1>3, <1>4

LEMMA WorkerInv ==
  ASSUME IInv, NEW w \in Workers, WorkerStep(w) \/ WorkerCrash(w)
  PROVE  IInv'
<1>1. OutboxTypeOK'
  BY TypeWorker DEF IInv
<1>a. None \notin Events
  BY OutboxAssumption DEF OutboxAssumption
<1>2. UNCHANGED <<status, disp>>
  BY DEF WorkerStep, TakeJob, Claim, Handle, Commit, Abort, Succeed, Fail, DeadLetter, WorkerCrash,
     rowVars
<1>3. Emitted' = Emitted
  BY <1>2 DEF Emitted
<1>4. \A v \in Workers \ {w} : work'[v] = work[v]
  BY DEF WorkerStep, TakeJob, Claim, Handle, Commit, Abort, Succeed, Fail, DeadLetter, WorkerCrash,
     IInv, OutboxTypeOK
<1>5. \/ work'[w].event \in {None, work[w].event}
      \/ \E e \in Events : TakeJob(w, e) /\ work'[w].event = e
  BY DEF WorkerStep, TakeJob, Claim, Handle, Commit, Abort, Succeed, Fail, DeadLetter, WorkerCrash,
     IInv, OutboxTypeOK, IdleWorker
<1>6. \A x \in Events : job'[x] # "none" => job[x] # "none" \/ x = work[w].event
  BY DEF WorkerStep, TakeJob, Claim, Handle, Commit, Abort, Succeed, Fail, DeadLetter, WorkerCrash,
     IInv, OutboxTypeOK, queueVars
<1>7. dlq' \subseteq dlq \cup ({work[w].event} \ {None})
  <2>1. CASE DeadLetter(w)
    BY <2>1 DEF DeadLetter, IInv, OutboxTypeOK
  <2>2. CASE ~DeadLetter(w)
    BY <2>2 DEF WorkerStep, TakeJob, Claim, Handle, Commit, Abort, Succeed, Fail, WorkerCrash, opsVars
  <2> QED BY <2>1, <2>2
<1>8. OnlyEmitted'
  <2>1. work'[w].event # None => work'[w].event \in Emitted
    BY <1>5 DEF TakeJob, IInv, OnlyEmitted
  <2>2. \A x \in Events : job'[x] # "none" => x \in Emitted
    BY <1>6, <1>a DEF IInv, OnlyEmitted
  <2>3. dlq' \subseteq Emitted
    BY <1>7 DEF IInv, OnlyEmitted
  <2> QED BY <1>2, <1>3, <1>4, <2>1, <2>2, <2>3 DEF IInv, OnlyEmitted
<1>9. EffectsExactlyOnce' /\ OneTxPerKey' /\ TxKeyIsNew'
  <2>1. CASE Commit(w)
    <3>1. PICK e \in Events : work[w].event = e
      BY <2>1 DEF Commit, IInv, OutboxTypeOK
    <3>2. InTx(w, e) /\ ~InTx(w, e)' /\ e \notin keys
      BY <2>1, <3>1 DEF Commit, InTx, IInv, OutboxTypeOK, TxKeyIsNew
    <3>3. /\ keys' = keys \cup {e}
          /\ effects' = [effects EXCEPT ![e] = @ + 1]
      BY <2>1, <3>1 DEF Commit
    <3>4. \A x \in Events : \A v \in Workers : InTx(v, x)' => InTx(v, x) /\ x # e
      <4> SUFFICES ASSUME NEW x \in Events, NEW v \in Workers, InTx(v, x)'
                   PROVE  InTx(v, x) /\ x # e
        OBVIOUS
      <4>1. v # w
        BY <2>1 DEF Commit, InTx, IInv, OutboxTypeOK
      <4>2. InTx(v, x)
        BY <4>1, <1>4 DEF InTx
      <4> QED BY <4>1, <4>2, <3>2 DEF IInv, OneTxPerKey
    <3>5. EffectsExactlyOnce'
      BY <3>2, <3>3 DEF IInv, OutboxTypeOK, EffectsExactlyOnce
    <3>6. OneTxPerKey'
      BY <3>4 DEF IInv, OneTxPerKey
    <3>7. TxKeyIsNew'
      BY <3>3, <3>4 DEF IInv, TxKeyIsNew
    <3> QED BY <3>5, <3>6, <3>7
  <2>2. CASE ~Commit(w)
    <3>1. UNCHANGED <<keys, effects>>
      BY <2>2 DEF WorkerStep, TakeJob, Claim, Handle, Abort, Succeed, Fail, DeadLetter, WorkerCrash
    <3>2. ASSUME NEW e \in Events, InTx(w, e)'
          PROVE  \/ InTx(w, e)
                 \/ e \notin keys /\ \A v \in Workers : ~InTx(v, e)
      <4> USE <3>2 DEF InTx, IInv, OutboxTypeOK, IdleWorker
      <4>1. CASE Claim(w)
        BY <4>1 DEF Claim
      <4>2. CASE Handle(w)
        BY <4>2 DEF Handle
      <4>3. CASE ~Claim(w) /\ ~Handle(w)
        <5>1. work'[w].phase \notin {"handle", "commit"}
          BY <2>2, <4>3, <1>a
             DEF WorkerStep, TakeJob, Abort, Succeed, Fail, DeadLetter, WorkerCrash
        <5> QED BY <5>1
      <4> QED BY <4>1, <4>2, <4>3
    <3> QED BY <1>1, <1>4, <3>1, <3>2, TxMove
  <2> QED BY <2>1, <2>2
<1> QED BY <1>1, <1>8, <1>9 DEF IInv

LEMMA InvStep == IInv /\ [OutboxNext]_outboxVars => IInv'
<1>1. ASSUME IInv, UNCHANGED outboxVars PROVE IInv'
  <2>1. OutboxTypeOK'
    BY <1>1, TypeStep DEF IInv
  <2>2. EffectsExactlyOnce' /\ OneTxPerKey' /\ TxKeyIsNew'
    BY <1>1, TxFrame DEF IInv, outboxVars, workVars
  <2>3. OnlyEmitted'
    BY <1>1 DEF IInv, OnlyEmitted, Emitted, outboxVars, rowVars, queueVars, workVars, opsVars
  <2> QED BY <2>1, <2>2, <2>3 DEF IInv
<1> QED BY <1>1, EventInv, DispatcherInv, WorkerInv DEF OutboxNext

LEMMA Invariance == OutboxSpec => []IInv
BY InvInit, InvStep, PTL DEF OutboxSpec

\* Effects written in the consumer's transaction happen once per committed
\* idempotency key, however often the event is delivered.
THEOREM ExactlyOnce == OutboxSpec => []EffectsExactlyOnce
<1>1. IInv => EffectsExactlyOnce
  BY DEF IInv
<1> QED BY <1>1, Invariance, PTL
-----------------------------------------------------------------------------
(* Refinement: Enqueue emits, Commit applies, every other step stutters.    *)

LEMMA RefineInit == OutboxInit => Delivery!DInit
BY DEF OutboxInit, Delivery!DInit

LEMMA RefineStep == IInv /\ [OutboxNext]_outboxVars => [Delivery!DNext]_Delivery!dvars
<1> USE DEF Delivery!dvars
<1> SUFFICES ASSUME IInv, [OutboxNext]_outboxVars PROVE [Delivery!DNext]_Delivery!dvars
  OBVIOUS
<1>1. CASE UNCHANGED outboxVars
  BY <1>1 DEF outboxVars, rowVars, workVars
<1>2. ASSUME NEW e \in Events,
             Enqueue(e) \/ Requeue(e) \/ Stalled(e) \/ RemoveCompleted(e) \/ Replay(e) \/ Drop(e)
      PROVE  [Delivery!DNext]_Delivery!dvars
  <2>1. effects' = effects
    BY <1>2 DEF Enqueue, Requeue, Stalled, RemoveCompleted, Replay, Drop, workVars
  <2>2. CASE Enqueue(e)
    <3>1. e \notin Emitted /\ Emitted' = Emitted \cup {e}
      <4>1. Emitted' = Emitted \cup {e}
        BY <1>2, <2>2, EventEmitted
      <4> QED BY <2>2, <4>1 DEF Enqueue, Emitted
    <3>2. Delivery!Emit(e)
      BY <2>1, <3>1 DEF Delivery!Emit, Emitted
    <3>3. Delivery!DNext
      BY <3>2 DEF Delivery!DNext
    <3> QED BY <3>3
  <2>3. CASE ~Enqueue(e)
    BY <1>2, <2>1, <2>3, EventEmitted DEF Emitted
  <2> QED BY <2>2, <2>3
<1>3. ASSUME NEW d \in Dispatchers, DispatcherStep(d) \/ DispatcherCrash(d)
      PROVE  [Delivery!DNext]_Delivery!dvars
  <2>1. effects' = effects
    BY <1>3 DEF DispatcherStep, ClaimPendingBatch, Publish, PublishFails, MarkDispatched, MarkFailed,
       DispatcherCrash, workVars
  <2> QED BY <1>3, <2>1, DispatcherEmitted DEF Emitted
<1>4. ASSUME NEW w \in Workers, WorkerStep(w) \/ WorkerCrash(w)
      PROVE  [Delivery!DNext]_Delivery!dvars
  <2>1. status' = status
    BY <1>4 DEF WorkerStep, TakeJob, Claim, Handle, Commit, Abort, Succeed, Fail, DeadLetter,
       WorkerCrash, rowVars
  <2>2. CASE Commit(w)
    <3>1. PICK e \in Events : work[w].event = e
      BY <2>2 DEF Commit, IInv, OutboxTypeOK
    <3>2. e \in Emitted /\ e \notin keys
      BY <2>2, <3>1 DEF Commit, InTx, IInv, OutboxTypeOK, TxKeyIsNew, OnlyEmitted, Emitted
    <3>3. effects[e] = 0 /\ effects' = [effects EXCEPT ![e] = 1]
      <4>1. effects[e] = 0
        BY <3>2 DEF IInv, EffectsExactlyOnce
      <4>2. effects' = [effects EXCEPT ![e] = effects[e] + 1]
        BY <2>2, <3>1 DEF Commit
      <4> QED BY <4>1, <4>2
    <3>4. Delivery!Apply(e)
      BY <2>1, <3>2, <3>3 DEF Delivery!Apply, Emitted
    <3> QED BY <3>4 DEF Delivery!DNext
  <2>3. CASE ~Commit(w)
    <3>1. effects' = effects
      BY <1>4, <2>3 DEF WorkerStep, TakeJob, Claim, Handle, Abort, Succeed, Fail, DeadLetter,
         WorkerCrash
    <3> QED BY <2>1, <3>1
  <2> QED BY <2>2, <2>3
<1> QED BY <1>1, <1>2, <1>3, <1>4 DEF OutboxNext

\* The outbox delivers: an event's effects come after the event and at most once.
THEOREM Implementation == OutboxSpec => ImplementsDelivery
BY RefineInit, RefineStep, Invariance, PTL DEF OutboxSpec, ImplementsDelivery, Delivery!DSpec
-----------------------------------------------------------------------------
(* What the rows and the lists say of the queue. *)

\* The queue has the event's job to run or to show, or the event is handled.
Answers(e) == job[e] \in {"waiting", "active", "failed"} \/ e \in keys

\* What is marked or about to be marked dispatched is answered for, and what is
\* or is about to be completed is handled.
QueueAnswers ==
  /\ \A e \in Events : status[e] = "DISPATCHED" => Answers(e)
  /\ \A d \in Dispatchers : \A e \in disp[d].done : Answers(e)
  /\ CompletedWasHandled
  /\ \A w \in Workers : work[w].phase = "succeed" => work[w].event \in keys

\* The one worker that is about to list a job found it exhausted, and it stays so
\* until it is listed and replayed.
ListedOnce ==
  /\ DeadLetteredIsExhausted
  /\ \A w \in Workers : work[w].phase = "deadLetter" =>
       /\ job[work[w].event] = "failed" /\ made[work[w].event] >= QueueAttempts
       /\ work[w].event \notin dlq
       /\ \A v \in Workers : work[v] = work[w] => v = w

QInv == OutboxTypeOK /\ QueueAnswers /\ ListedOnce

LEMMA QueueInit == OutboxInit => QInv
<1>1. SUFFICES ASSUME OutboxInit PROVE QInv OBVIOUS
<1>2. QueueAnswers
  BY <1>1 DEF OutboxInit, QueueAnswers, CompletedWasHandled, IdleDispatcher, IdleWorker
<1>3. ListedOnce BY <1>1 DEF OutboxInit, ListedOnce, DeadLetteredIsExhausted, IdleWorker
<1>4. QED BY <1>1, <1>2, <1>3, TypeInit DEF QInv

LEMMA AnswersKept ==
  ASSUME QueueAnswers, keys \subseteq keys',
         \A e \in Events : job'[e] \in {job[e], "waiting", "active", "failed"} \/ e \in keys',
         \A e \in Events : status'[e] = "DISPATCHED" => status[e] = "DISPATCHED" \/ Answers(e)',
         \A d \in Dispatchers : \A e \in disp'[d].done : e \in Events /\ (e \in disp[d].done \/ Answers(e)'),
         \A w \in Workers : work'[w].phase = "succeed" =>
           work'[w] = work[w] \/ work'[w].event \in keys'
  PROVE  QueueAnswers'
<1>1. \A e \in Events : Answers(e) => Answers(e)' BY DEF Answers
<1>2. QED BY <1>1 DEF QueueAnswers, CompletedWasHandled

\* The rows and the dispatchers alone move, beside new jobs.
LEMMA JobsAdded ==
  ASSUME QInv, UNCHANGED <<workVars, opsVars>>, made' \in [Events -> Nat],
         \A e \in Events : \/ job'[e] = job[e] /\ made'[e] = made[e]
                           \/ job[e] = "none" /\ job'[e] = "waiting"
  PROVE  ListedOnce' /\ (\A e \in Events : job'[e] \in {job[e], "waiting"})
<1>1. \A e \in Events : job[e] = "failed" => job'[e] = "failed" /\ made'[e] = made[e] OBVIOUS
<1>2. \A w \in Workers : work[w].phase = "deadLetter" => work[w].event \in Events
  BY DEF QInv, OutboxTypeOK
<1>3. dlq \subseteq Events BY DEF QInv, OutboxTypeOK
<1>4. UNCHANGED <<work, dlq>> BY DEF workVars, opsVars
<1>5. QED BY <1>1, <1>2, <1>3, <1>4 DEF QInv, ListedOnce, DeadLetteredIsExhausted

LEMMA QueueDispatcher ==
  ASSUME QInv, NEW d \in Dispatchers, DispatcherStep(d) \/ DispatcherCrash(d)
  PROVE  QInv'
<1>1. OutboxTypeOK' BY TypeDispatcher DEF QInv
<1>2. UNCHANGED <<workVars, opsVars>> /\ UNCHANGED <<work, keys, dlq>>
  BY DEF DispatcherStep, DispatcherCrash, ClaimPendingBatch, Publish, PublishFails, MarkDispatched, MarkFailed,
         workVars, opsVars
<1>3. \A c \in Dispatchers : disp'[c].done \subseteq Events BY <1>1 DEF OutboxTypeOK
<1>4. ASSUME Publish(d) \/ PublishFails(d) PROVE QInv'
  <2>1. PICK e \in NextToPublish(d) :
          \/ AddJob(e) /\ disp' = [disp EXCEPT ![d].todo = @ \ {e}, ![d].done = @ \cup {e}]
          \/ /\ AddJob(e) \/ UNCHANGED queueVars
             /\ disp' = [disp EXCEPT ![d].todo = @ \ {e}, ![d].failed = @ \cup {e}]
    BY <1>4 DEF Publish, PublishFails
  <2>2. e \in Events BY DEF NextToPublish, QInv, OutboxTypeOK
  <2>3. UNCHANGED status BY <1>4 DEF Publish, PublishFails
  <2>4. \A x \in Events : \/ job'[x] = job[x] /\ made'[x] = made[x]
                          \/ job[x] = "none" /\ job'[x] = "waiting"
    BY <2>1, <2>2 DEF AddJob, queueVars, QInv, OutboxTypeOK
  <2>5. ListedOnce' /\ (\A x \in Events : job'[x] \in {job[x], "waiting"})
    BY <1>1, <1>2, <2>4, JobsAdded DEF OutboxTypeOK
  <2>6. AddJob(e) => Answers(e)'
    <3>1. AddJob(e) => job'[e] # "none" BY <2>2 DEF AddJob, queueVars, QInv, OutboxTypeOK
    <3>2. job'[e] = "completed" => e \in keys
      BY <2>2, <2>5 DEF QInv, QueueAnswers, CompletedWasHandled
    <3>3. QED BY <1>1, <1>2, <2>2, <3>1, <3>2 DEF Answers, OutboxTypeOK, JobState
  <2>7. \A c \in Dispatchers : \A x \in disp'[c].done : x \in Events /\ (x \in disp[c].done \/ Answers(x)')
    <3>1. CASE AddJob(e) /\ disp' = [disp EXCEPT ![d].todo = @ \ {e}, ![d].done = @ \cup {e}]
      BY <1>3, <2>6, <3>1 DEF QInv, OutboxTypeOK
    <3>2. CASE disp' = [disp EXCEPT ![d].todo = @ \ {e}, ![d].failed = @ \cup {e}]
      BY <1>3, <3>2 DEF QInv, OutboxTypeOK
    <3>3. QED BY <2>1, <3>1, <3>2
  <2>8. QueueAnswers' BY <1>2, <2>3, <2>5, <2>7, AnswersKept DEF QInv
  <2>9. QED BY <1>1, <2>5, <2>8 DEF QInv
<1>5. ASSUME UNCHANGED <<job, made>>,
             \A e \in Events : status'[e] = "DISPATCHED" => status[e] = "DISPATCHED" \/ Answers(e),
             \A c \in Dispatchers : disp'[c].done \subseteq disp[c].done
      PROVE  QInv'
  <2>1. \A e \in Events : Answers(e)' = Answers(e) BY <1>2, <1>5 DEF Answers
  <2>2. QueueAnswers' BY <1>2, <1>3, <1>5, <2>1, AnswersKept DEF QInv
  <2>3. ListedOnce' BY <1>2, <1>5 DEF QInv, ListedOnce, DeadLetteredIsExhausted
  <2>4. QED BY <1>1, <2>2, <2>3 DEF QInv
<1>6. CASE ClaimPendingBatch(d)
  BY <1>5, <1>6 DEF ClaimPendingBatch, QInv, OutboxTypeOK, queueVars, IdleDispatcher
<1>7. CASE MarkDispatched(d)
  <2>1. \A e \in Events : status'[e] = "DISPATCHED" => status[e] = "DISPATCHED" \/ Answers(e)
    BY <1>7 DEF MarkDispatched, QInv, QueueAnswers
  <2>2. \A c \in Dispatchers : disp'[c].done \subseteq disp[c].done
    BY <1>7 DEF MarkDispatched, QInv, OutboxTypeOK, IdleDispatcher, Recording
  <2>3. QED BY <1>5, <1>7, <2>1, <2>2 DEF MarkDispatched, queueVars
<1>8. ASSUME NEW e \in Events, MarkFailed(d, e) PROVE QInv'
  <2>1. \A x \in Events : status'[x] = "DISPATCHED" => status[x] = "DISPATCHED"
    BY <1>8 DEF MarkFailed, FailedStatus, QInv, OutboxTypeOK
  <2>2. \A c \in Dispatchers : disp'[c].done \subseteq disp[c].done
    BY <1>8 DEF MarkFailed, QInv, OutboxTypeOK, IdleDispatcher, Recording
  <2>3. QED BY <1>5, <1>8, <2>1, <2>2 DEF MarkFailed, queueVars
<1>9. CASE DispatcherCrash(d)
  BY <1>5, <1>9 DEF DispatcherCrash, QInv, OutboxTypeOK, queueVars, IdleDispatcher
<1>10. QED BY <1>4, <1>6, <1>7, <1>8, <1>9 DEF DispatcherStep

LEMMA QueueEvent ==
  ASSUME QInv, NEW e \in Events,
         Enqueue(e) \/ Requeue(e) \/ Stalled(e) \/ RemoveCompleted(e) \/ Replay(e) \/ Drop(e)
  PROVE  QInv'
<1>1. OutboxTypeOK' BY TypeEvent DEF QInv
<1>2. UNCHANGED <<disp, work, keys>> /\ dlq' \subseteq dlq
  <2>1. "envelope" \notin DeadLetterFields BY DEF DeadLetterFields
  <2>2. QED BY <2>1 DEF Enqueue, Requeue, Stalled, RemoveCompleted, Replay, Drop, rowVars, workVars, opsVars
<1>3. UNCHANGED made
  <2>1. "envelope" \notin DeadLetterFields BY DEF DeadLetterFields
  <2>2. QED BY <2>1 DEF Enqueue, Requeue, Stalled, RemoveCompleted, Replay, Drop, queueVars
<1>4. \A x \in Events : \/ job'[x] = job[x]
                        \/ job[x] = "active" /\ job'[x] = "waiting"
                        \/ job[x] = "completed" /\ job'[x] = "none"
  <2>1. "envelope" \notin DeadLetterFields BY DEF DeadLetterFields
  <2>2. QED BY <2>1 DEF Enqueue, Requeue, Stalled, RemoveCompleted, Replay, Drop, queueVars, QInv, OutboxTypeOK
<1>5. \A x \in Events : status'[x] = "DISPATCHED" => status[x] = "DISPATCHED"
  BY DEF Enqueue, Requeue, Stalled, RemoveCompleted, Replay, Drop, rowVars, QInv, OutboxTypeOK
<1>6. QueueAnswers'
  <2>1. \A x \in Events : job'[x] \in {job[x], "waiting", "active", "failed"} \/ x \in keys'
    BY <1>2, <1>4 DEF QInv, QueueAnswers, CompletedWasHandled
  <2>2. \A d \in Dispatchers : disp[d].done \subseteq Events BY DEF QInv, OutboxTypeOK
  <2>3. QED BY <1>2, <1>5, <2>1, <2>2, AnswersKept DEF QInv
<1>7. ListedOnce'
  <2>1. \A x \in Events : job[x] = "failed" => job'[x] = "failed" BY <1>4
  <2>2. \A w \in Workers : work[w].phase = "deadLetter" => work[w].event \in Events
    BY DEF QInv, OutboxTypeOK
  <2>3. dlq \subseteq Events BY DEF QInv, OutboxTypeOK
  <2>4. QED BY <1>2, <1>3, <2>1, <2>2, <2>3 DEF QInv, ListedOnce, DeadLetteredIsExhausted
<1>8. QED BY <1>1, <1>6, <1>7 DEF QInv

LEMMA QueueWorker ==
  ASSUME QInv, NEW w \in Workers, WorkerStep(w) \/ WorkerCrash(w)
  PROVE  QInv'
<1> USE DEF rowVars, queueVars, opsVars
<1>1. OutboxTypeOK' BY TypeWorker DEF QInv
<1>2. UNCHANGED <<status, disp>>
  BY DEF WorkerStep, TakeJob, Claim, Handle, Commit, Abort, Succeed, Fail, DeadLetter, WorkerCrash
<1>3. \A v \in Workers \ {w} : work'[v] = work[v]
  BY DEF WorkerStep, TakeJob, Claim, Handle, Commit, Abort, Succeed, Fail, DeadLetter, WorkerCrash,
     QInv, OutboxTypeOK
<1>4. keys \subseteq keys'
  BY DEF WorkerStep, TakeJob, Claim, Handle, Commit, Abort, Succeed, Fail, DeadLetter, WorkerCrash
<1>5. work'[w].phase = "succeed" => work'[w].event \in keys'
  <2> USE DEF QInv, OutboxTypeOK, IdleWorker
  <2>1. CASE Claim(w) BY <2>1 DEF Claim
  <2>2. CASE Commit(w) BY <2>2 DEF Commit
  <2>3. CASE ~Claim(w) /\ ~Commit(w)
    <3>1. work'[w].phase # "succeed"
      BY <2>3 DEF WorkerStep, TakeJob, Handle, Abort, Succeed, Fail, DeadLetter, WorkerCrash
    <3>2. QED BY <3>1
  <2>4. QED BY <2>1, <2>2, <2>3
<1>6. \A x \in Events : job'[x] \in {job[x], "waiting", "active", "failed"} \/ x \in keys'
  <2>1. CASE Succeed(w)
    <3>1. work[w].event \in keys /\ keys' = keys BY <2>1 DEF Succeed, QInv, QueueAnswers
    <3>2. QED BY <2>1, <3>1 DEF Succeed, QInv, OutboxTypeOK
  <2>2. CASE Fail(w) BY <2>2 DEF Fail, QInv, OutboxTypeOK
  <2>3. CASE ~Succeed(w) /\ ~Fail(w)
    BY <2>3 DEF WorkerStep, TakeJob, Claim, Handle, Commit, Abort, DeadLetter, WorkerCrash, QInv, OutboxTypeOK
  <2>4. QED BY <2>1, <2>2, <2>3
<1>7. QueueAnswers'
  <2>1. \A d \in Dispatchers : disp[d].done \subseteq Events BY DEF QInv, OutboxTypeOK
  <2>2. QED BY <1>2, <1>3, <1>4, <1>5, <1>6, <2>1, AnswersKept DEF QInv
<1>8. ListedOnce'
  <2>1. \A v \in Workers : work[v].phase = "deadLetter" => work[v].event \in Events
    BY DEF QInv, OutboxTypeOK
  <2>2. dlq \subseteq Events BY DEF QInv, OutboxTypeOK
  <2>3. CASE DeadLetter(w)
    <3>1. work[w].phase = "deadLetter" /\ work'[w].phase = "idle" /\ UNCHANGED <<job, made>>
          /\ dlq' \subseteq dlq \cup {work[w].event}
      BY <2>3 DEF DeadLetter, QInv, OutboxTypeOK, IdleWorker
    <3>2. \A e \in dlq' : job'[e] = "failed" /\ made'[e] >= QueueAttempts
      BY <3>1 DEF QInv, ListedOnce, DeadLetteredIsExhausted
    <3>3. \A v \in Workers \ {w} : work[v].phase = "deadLetter" => work[v].event # work[w].event
      BY <3>1 DEF QInv, ListedOnce, OutboxTypeOK
    <3>4. QED BY <1>3, <3>1, <3>2, <3>3 DEF QInv, ListedOnce, DeadLetteredIsExhausted
  <2>4. CASE Fail(w) /\ Holds(w, work[w].event)
    <3> DEFINE e == work[w].event
               n == made[e] + 1
    <3>1. e \in Events /\ job[e] = "active" /\ made[e] \in Nat BY <2>4 DEF Fail, Holds, QInv, OutboxTypeOK
    <3>2. /\ made' = [made EXCEPT ![e] = n]
          /\ job' = [job EXCEPT ![e] = IF n < QueueAttempts THEN "waiting" ELSE "failed"]
          /\ work' = [work EXCEPT ![w] = IF n < QueueAttempts THEN IdleWorker
                                          ELSE [phase |-> "deadLetter", event |-> e]]
          /\ dlq' = dlq
      BY <2>4 DEF Fail
    <3>3. e \notin dlq /\ \A v \in Workers : work[v].phase = "deadLetter" => work[v].event # e
      BY <3>1 DEF QInv, ListedOnce, DeadLetteredIsExhausted
    <3>4. \A x \in Events \ {e} : job'[x] = job[x] /\ made'[x] = made[x]
      BY <3>2 DEF QInv, OutboxTypeOK
    <3>5. DeadLetteredIsExhausted'
      BY <2>2, <3>2, <3>3, <3>4 DEF QInv, ListedOnce, DeadLetteredIsExhausted
    <3>6. work'[w].phase = "deadLetter" =>
            work'[w].event = e /\ job'[e] = "failed" /\ made'[e] >= QueueAttempts
      <4>1. job'[e] = (IF n < QueueAttempts THEN "waiting" ELSE "failed") /\ made'[e] = n
        BY <3>1, <3>2 DEF QInv, OutboxTypeOK
      <4>2. n \in Nat /\ QueueAttempts \in Nat BY <3>1, OutboxAssumption
      <4>3. work'[w] = IF n < QueueAttempts THEN IdleWorker ELSE [phase |-> "deadLetter", event |-> e]
        BY <3>2 DEF QInv, OutboxTypeOK
      <4> HIDE DEF n
      <4>4. QED BY <4>1, <4>2, <4>3 DEF IdleWorker
    <3>7. QED BY <1>3, <2>1, <3>2, <3>3, <3>4, <3>5, <3>6 DEF QInv, ListedOnce
  <2>5. CASE ~DeadLetter(w) /\ ~(Fail(w) /\ Holds(w, work[w].event))
    <3>1. dlq' = dlq /\ made' = made
      BY <2>5 DEF WorkerStep, TakeJob, Claim, Handle, Commit, Abort, Succeed, Fail, WorkerCrash
    <3>2. work'[w].phase # "deadLetter"
      BY <2>5 DEF WorkerStep, TakeJob, Claim, Handle, Commit, Abort, Succeed, Fail, WorkerCrash, QInv, OutboxTypeOK,
                  IdleWorker
    <3>3. \A x \in Events : job[x] = "failed" => job'[x] = "failed"
      BY <2>5 DEF WorkerStep, TakeJob, Claim, Handle, Commit, Abort, Succeed, Fail, WorkerCrash, QInv, OutboxTypeOK,
                  Holds
    <3>4. QED BY <1>3, <2>1, <2>2, <3>1, <3>2, <3>3 DEF QInv, ListedOnce, DeadLetteredIsExhausted
  <2>6. QED BY <2>3, <2>4, <2>5
<1>9. QED BY <1>1, <1>7, <1>8 DEF QInv

LEMMA QueueStep == ASSUME QInv, [OutboxNext]_outboxVars PROVE QInv'
<1>1. CASE UNCHANGED outboxVars
  <2>1. OutboxTypeOK' BY <1>1, TypeStep DEF QInv
  <2>2. QueueAnswers' /\ ListedOnce'
    BY <1>1 DEF outboxVars, rowVars, queueVars, workVars, opsVars, QInv, QueueAnswers, Answers, CompletedWasHandled,
                ListedOnce, DeadLetteredIsExhausted
  <2>3. QED BY <2>1, <2>2 DEF QInv
<1>2. QED BY <1>1, QueueEvent, QueueDispatcher, QueueWorker DEF OutboxNext

\* A row marked DISPATCHED has its job in the queue or its effects committed, a
\* job completed was handled, and a job listed as dead has spent its attempts,
\* through any crash, lost lock, redelivery, requeue and replay.
THEOREM QueueIsTrue == OutboxSpec => []QueueTellsTheTruth
<1>1. QInv => QueueTellsTheTruth
  BY DEF QInv, QueueAnswers, ListedOnce, Answers, QueueTellsTheTruth, DispatchedNotLost
<1>2. QED BY <1>1, QueueInit, QueueStep, PTL DEF OutboxSpec
=============================================================================
