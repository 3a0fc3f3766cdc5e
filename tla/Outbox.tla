------------------------------- MODULE Outbox -------------------------------
(***************************************************************************)
(* The transactional outbox: events_outbox rows, the dispatchers that move *)
(* them to the queue, the queue's jobs, the consumers with their           *)
(* idempotency keys, and the dead-letter queue.                            *)
(*                                                                         *)
(* Events are numbered in the order (occurred_at, id) the claim sorts by.  *)
(* A row lock of the claim transaction is rowLock[e]; a consumer           *)
(* transaction is the interval between Claim and Commit or Abort of its    *)
(* worker, during which a second worker's claim of the same key waits.     *)
(***************************************************************************)
EXTENDS Naturals, Sequences, FiniteSets

CONSTANTS
  Events,         \* the events, numbered from 1 in claim order
  Dispatchers,    \* processes running OutboxDispatcher
  Workers,        \* concurrent consumer slots
  BatchSize,      \* OUTBOX_BATCH_SIZE
  MaxAttempts,    \* attempts to publish before a row is parked
  QueueAttempts,  \* QUEUE_MAX_ATTEMPTS of a job
  MaxFaults,      \* bound: crashes and lost job locks in a behaviour
  MaxRequeues,    \* bound: admin requeues and dead-letter replays
  None

ASSUME OutboxAssumption ==
  /\ Events \subseteq Nat /\ IsFiniteSet(Events)
  /\ BatchSize \in Nat \ {0}
  /\ MaxAttempts \in Nat \ {0}
  /\ QueueAttempts \in Nat \ {0}
  /\ MaxFaults \in Nat
  /\ MaxRequeues \in Nat
  /\ None \notin Dispatchers \cup Workers \cup Events

VARIABLES
  status,    \* status[e]: UNSENT until the producer commits, then the row's status
  attempts,  \* attempts[e]: events_outbox.attempts
  rowLock,   \* rowLock[e]: the dispatcher whose claim transaction locks the row
  disp,      \* disp[d]: a dispatcher's progress through dispatchOnce
  job,       \* job[e]: state of the queue job whose jobId is e
  made,      \* made[e]: the job's attemptsMade
  owner,     \* owner[e]: the worker that holds the job's lock
  work,      \* work[w]: a consumer slot's progress through one job
  keys,      \* events whose idempotency key is committed
  effects,   \* effects[e]: committed runs of handlers that write in the given tx
  dlq,       \* events with a job in the dead-letter queue
  cli,       \* cli[e]: what dlq:replay last did with e's dead-letter job
  faults, requeues

rowVars   == <<status, attempts, rowLock, disp>>
queueVars == <<job, made, owner>>
workVars  == <<work, keys, effects>>
opsVars   == <<dlq, cli, requeues>>
outboxVars == <<rowVars, queueVars, workVars, opsVars, faults>>

IdleDispatcher == [phase |-> "idle", todo |-> {}, done |-> {}, failed |-> {}]
Recording(f)   == [IdleDispatcher EXCEPT !.phase = "record", !.failed = f]
IdleWorker     == [phase |-> "idle", event |-> None]

\* The field names of a dead-letter job's payload, as the consumer writes it.
DeadLetterFields ==
  {"queue", "originalJobId", "type", "attemptsMade", "failedReason", "data", "failedAt"}

OutboxInit ==
  /\ status = [e \in Events |-> "UNSENT"]
  /\ attempts = [e \in Events |-> 0]
  /\ rowLock = [e \in Events |-> None]
  /\ disp = [d \in Dispatchers |-> IdleDispatcher]
  /\ job = [e \in Events |-> "none"]
  /\ made = [e \in Events |-> 0]
  /\ owner = [e \in Events |-> None]
  /\ work = [w \in Workers |-> IdleWorker]
  /\ keys = {}
  /\ effects = [e \in Events |-> 0]
  /\ dlq = {}
  /\ cli = [e \in Events |-> "never"]
  /\ faults = 0
  /\ requeues = 0

-----------------------------------------------------------------------------
(* Producer and dispatcher. *)

\* The producing transaction commits its state change and the row together.
Enqueue(e) ==
  /\ status[e] = "UNSENT"
  /\ status' = [status EXCEPT ![e] = "PENDING"]
  /\ UNCHANGED <<attempts, rowLock, disp, queueVars, workVars, opsVars, faults>>

\* Rows a claim can take: PENDING and not locked (FOR UPDATE SKIP LOCKED).
Claimable == {e \in Events : status[e] = "PENDING" /\ rowLock[e] = None}

\* ORDER BY occurred_at, id LIMIT BatchSize: those with fewer than BatchSize before them.
Batch == {e \in Claimable : Cardinality({x \in Claimable : x < e}) < BatchSize}

ClaimPendingBatch(d) ==
  /\ disp[d].phase = "idle"
  /\ Batch # {}
  /\ disp' = [disp EXCEPT ![d] = [IdleDispatcher EXCEPT !.phase = "publish", !.todo = Batch]]
  /\ rowLock' = [e \in Events |-> IF e \in Batch THEN d ELSE rowLock[e]]
  /\ UNCHANGED <<status, attempts, queueVars, workVars, opsVars, faults>>

\* The batch is published in order: the first of what is left.
NextToPublish(d) == {e \in disp[d].todo : \A x \in disp[d].todo : e <= x}

\* queue.add with jobId = event id: a no-op while a job of that id exists.
AddJob(e) ==
  IF job[e] = "none"
    THEN /\ job' = [job EXCEPT ![e] = "waiting"]
         /\ made' = [made EXCEPT ![e] = 0]
         /\ UNCHANGED owner
    ELSE UNCHANGED queueVars

Publish(d) ==
  /\ disp[d].phase = "publish"
  /\ \E e \in NextToPublish(d) :
       /\ AddJob(e)
       /\ disp' = [disp EXCEPT ![d].todo = @ \ {e}, ![d].done = @ \cup {e}]
  /\ UNCHANGED <<status, attempts, rowLock, workVars, opsVars, faults>>

\* Mutant: a failed publish is counted among the published rows.
PublishErrorSwallowed(d) ==
  /\ disp[d].phase = "publish"
  /\ \E e \in NextToPublish(d) :
       disp' = [disp EXCEPT ![d].todo = @ \ {e}, ![d].done = @ \cup {e}]
  /\ UNCHANGED <<status, attempts, rowLock, queueVars, workVars, opsVars, faults>>

\* publish throws; the add may have reached Redis before the error.
PublishFails(d) ==
  /\ disp[d].phase = "publish"
  /\ \E e \in NextToPublish(d) :
       /\ AddJob(e) \/ UNCHANGED queueVars
       /\ disp' = [disp EXCEPT ![d].todo = @ \ {e}, ![d].failed = @ \cup {e}]
  /\ UNCHANGED <<status, attempts, rowLock, workVars, opsVars, faults>>

\* markDispatched and the commit of the claim transaction, which frees the locks.
MarkDispatched(d) ==
  /\ disp[d].phase = "publish" /\ disp[d].todo = {}
  /\ status' = [e \in Events |-> IF e \in disp[d].done THEN "DISPATCHED" ELSE status[e]]
  /\ rowLock' = [e \in Events |-> IF rowLock[e] = d THEN None ELSE rowLock[e]]
  /\ disp' = [disp EXCEPT ![d] =
                IF @.failed = {} THEN IdleDispatcher ELSE Recording(@.failed)]
  /\ UNCHANGED <<attempts, queueVars, workVars, opsVars, faults>>

\* The status markFailed writes for an event that has failed n times.
FailedStatus(n) == IF n >= MaxAttempts THEN "FAILED" ELSE "PENDING"

\* Mutant: the failure is not counted.
MarkFailedUncounted(d, e) ==
  /\ disp[d].phase = "record" /\ e \in disp[d].failed
  /\ rowLock[e] = None
  /\ disp' = [disp EXCEPT ![d] =
                IF @.failed = {e} THEN IdleDispatcher ELSE Recording(@.failed \ {e})]
  /\ UNCHANGED <<status, attempts, rowLock, queueVars, workVars, opsVars, faults>>

\* A transaction of its own per failure; the UPDATE waits for a row lock and
\* has no condition on the row's status.
MarkFailed(d, e) ==
  /\ disp[d].phase = "record" /\ e \in disp[d].failed
  /\ rowLock[e] = None
  /\ attempts' = [attempts EXCEPT ![e] = @ + 1]
  /\ status' = [status EXCEPT ![e] = FailedStatus(attempts[e] + 1)]
  /\ disp' = [disp EXCEPT ![d] =
                IF @.failed = {e} THEN IdleDispatcher ELSE Recording(@.failed \ {e})]
  /\ UNCHANGED <<rowLock, queueVars, workVars, opsVars, faults>>

\* The process dies: the claim transaction rolls back, unrecorded failures are lost.
DispatcherCrash(d) ==
  /\ faults < MaxFaults /\ disp[d].phase # "idle"
  /\ faults' = faults + 1
  /\ disp' = [disp EXCEPT ![d] = IdleDispatcher]
  /\ rowLock' = [e \in Events |-> IF rowLock[e] = d THEN None ELSE rowLock[e]]
  /\ UNCHANGED <<status, attempts, queueVars, workVars, opsVars>>

\* The admin action that returns a parked row to the backlog.
Requeue(e) ==
  /\ requeues < MaxRequeues /\ status[e] = "FAILED" /\ rowLock[e] = None
  /\ requeues' = requeues + 1
  /\ status' = [status EXCEPT ![e] = "PENDING"]
  /\ attempts' = [attempts EXCEPT ![e] = 0]
  /\ UNCHANGED <<rowLock, disp, queueVars, workVars, dlq, cli, faults>>
-----------------------------------------------------------------------------
(* Queue and consumer. *)

InTx(w, e) == work[w].event = e /\ work[w].phase \in {"handle", "commit"}

TakeJob(w, e) ==
  /\ work[w] = IdleWorker /\ job[e] = "waiting"
  /\ job' = [job EXCEPT ![e] = "active"]
  /\ owner' = [owner EXCEPT ![e] = w]
  /\ work' = [work EXCEPT ![w] = [phase |-> "claim", event |-> e]]
  /\ UNCHANGED <<rowVars, made, keys, effects, opsVars, faults>>

\* Mutant: the key is looked up without waiting for a transaction that holds it.
ClaimWithoutWaiting(w) ==
  /\ work[w].phase = "claim"
  /\ work' = [work EXCEPT ![w].phase = IF work[w].event \in keys THEN "succeed" ELSE "handle"]
  /\ UNCHANGED <<rowVars, queueVars, keys, effects, opsVars, faults>>

\* Mutant: a duplicate is handled again.
ClaimIgnoresDuplicate(w) ==
  /\ work[w].phase = "claim"
  /\ \A v \in Workers : ~InTx(v, work[w].event)
  /\ work' = [work EXCEPT ![w].phase = "handle"]
  /\ UNCHANGED <<rowVars, queueVars, keys, effects, opsVars, faults>>

\* guard.claim: the insert waits for a transaction that holds the same key,
\* then either inserts or finds the key committed (duplicate).
Claim(w) ==
  /\ work[w].phase = "claim"
  /\ \A v \in Workers : ~InTx(v, work[w].event)
  /\ work' = [work EXCEPT ![w].phase = IF work[w].event \in keys THEN "succeed" ELSE "handle"]
  /\ UNCHANGED <<rowVars, queueVars, keys, effects, opsVars, faults>>

\* The handlers run.  What they write in transactions of their own is left out:
\* it is committed when they return, and done again by a retry.
Handle(w) ==
  /\ work[w].phase = "handle"
  /\ work' = [work EXCEPT ![w].phase = "commit"]
  /\ UNCHANGED <<rowVars, queueVars, keys, effects, opsVars, faults>>

\* recordResult and commit: the key and the effects written in tx become durable.
Commit(w) ==
  /\ work[w].phase = "commit"
  /\ keys' = keys \cup {work[w].event}
  /\ effects' = [effects EXCEPT ![work[w].event] = @ + 1]
  /\ work' = [work EXCEPT ![w].phase = "succeed"]
  /\ UNCHANGED <<rowVars, queueVars, opsVars, faults>>

\* A handler throws, before or after another handler of the event has run.
Abort(w) ==
  /\ work[w].phase \in {"handle", "commit"}
  /\ work' = [work EXCEPT ![w].phase = "fail"]
  /\ UNCHANGED <<rowVars, queueVars, keys, effects, opsVars, faults>>

\* BullMQ moves a job only for the worker that still holds its lock.
Holds(w, e) == job[e] = "active" /\ owner[e] = w

\* Mutant: the slot keeps the event of the job it has finished.
SucceedKeepsEvent(w) ==
  /\ work[w].phase = "succeed"
  /\ job' = IF Holds(w, work[w].event) THEN [job EXCEPT ![work[w].event] = "completed"] ELSE job
  /\ work' = [work EXCEPT ![w].phase = "idle"]
  /\ UNCHANGED <<rowVars, made, owner, keys, effects, opsVars, faults>>

Succeed(w) ==
  /\ work[w].phase = "succeed"
  /\ LET e == work[w].event IN
       job' = IF Holds(w, e) THEN [job EXCEPT ![e] = "completed"] ELSE job
  /\ work' = [work EXCEPT ![w] = IdleWorker]
  /\ UNCHANGED <<rowVars, made, owner, keys, effects, opsVars, faults>>

\* The job is retried with backoff until its attempts are spent.
Fail(w) ==
  /\ work[w].phase = "fail"
  /\ LET e == work[w].event
         n == made[e] + 1 IN
       IF Holds(w, e)
         THEN /\ made' = [made EXCEPT ![e] = n]
              /\ job' = [job EXCEPT ![e] = IF n < QueueAttempts THEN "waiting" ELSE "failed"]
              /\ work' = [work EXCEPT ![w] = IF n < QueueAttempts THEN IdleWorker
                                              ELSE [phase |-> "deadLetter", event |-> e]]
         ELSE /\ work' = [work EXCEPT ![w] = IdleWorker]
              /\ UNCHANGED <<made, job>>
  /\ UNCHANGED <<rowVars, owner, keys, effects, opsVars, faults>>

\* The 'failed' listener adds the exhausted job to the dead-letter queue; when
\* the add is refused the error is only logged.
DeadLetter(w) ==
  /\ work[w].phase = "deadLetter"
  /\ dlq' \in {dlq, dlq \cup {work[w].event}}
  /\ work' = [work EXCEPT ![w] = IdleWorker]
  /\ UNCHANGED <<rowVars, queueVars, keys, effects, cli, requeues, faults>>

\* The process dies: its transaction rolls back and its job stays active.
WorkerCrash(w) ==
  /\ faults < MaxFaults /\ work[w].phase # "idle"
  /\ faults' = faults + 1
  /\ work' = [work EXCEPT ![w] = IdleWorker]
  /\ UNCHANGED <<rowVars, queueVars, keys, effects, opsVars>>

\* BullMQ returns a stalled job to waiting: its worker is gone, or (a fault)
\* was too slow to renew the lock and goes on with the job regardless.
Stalled(e) ==
  /\ job[e] = "active"
  /\ IF work[owner[e]].event = e
       THEN faults < MaxFaults /\ faults' = faults + 1
       ELSE UNCHANGED faults
  /\ job' = [job EXCEPT ![e] = "waiting"]
  /\ owner' = [owner EXCEPT ![e] = None]
  /\ UNCHANGED <<rowVars, made, workVars, opsVars>>

\* removeOnComplete: a completed job is forgotten by age or count.
RemoveCompleted(e) ==
  /\ job[e] = "completed"
  /\ job' = [job EXCEPT ![e] = "none"]
  /\ UNCHANGED <<rowVars, made, owner, workVars, opsVars, faults>>

\* dlq:replay reads payload.envelope: without it the job is skipped and kept.
Replay(e) ==
  /\ requeues < MaxRequeues /\ e \in dlq
  /\ requeues' = requeues + 1
  /\ IF "envelope" \in DeadLetterFields
       THEN /\ job' = [job EXCEPT ![e] = "waiting"]
            /\ made' = [made EXCEPT ![e] = 0]
            /\ dlq' = dlq \ {e}
            /\ cli' = [cli EXCEPT ![e] = "replayed"]
       ELSE /\ cli' = [cli EXCEPT ![e] = "skipped"]
            /\ UNCHANGED <<job, made, dlq>>
  /\ UNCHANGED <<rowVars, owner, workVars, faults>>

\* dlq:drop removes the job for good.
Drop(e) ==
  /\ e \in dlq
  /\ dlq' = dlq \ {e}
  /\ UNCHANGED <<rowVars, queueVars, workVars, cli, requeues, faults>>
-----------------------------------------------------------------------------
DispatcherStep(d) ==
  \/ ClaimPendingBatch(d) \/ Publish(d) \/ PublishFails(d) \/ MarkDispatched(d)
  \/ \E e \in Events : MarkFailed(d, e)

WorkerStep(w) ==
  \/ \E e \in Events : TakeJob(w, e)
  \/ Claim(w) \/ Handle(w) \/ Commit(w) \/ Abort(w)
  \/ Succeed(w) \/ Fail(w) \/ DeadLetter(w)

OutboxNext ==
  \/ \E e \in Events :
       Enqueue(e) \/ Requeue(e) \/ Stalled(e) \/ RemoveCompleted(e) \/ Replay(e) \/ Drop(e)
  \/ \E d \in Dispatchers : DispatcherStep(d) \/ DispatcherCrash(d)
  \/ \E w \in Workers : WorkerStep(w) \/ WorkerCrash(w)

OutboxSpec == OutboxInit /\ [][OutboxNext]_outboxVars

\* The dispatch loop and the workers run for ever, and the queue notices a
\* job whose worker is gone.  Nothing obliges a publish or a handler to succeed.
OutboxFairness ==
  /\ \A d \in Dispatchers : WF_outboxVars(DispatcherStep(d))
  /\ \A w \in Workers : WF_outboxVars(WorkerStep(w))
  /\ \A e \in Events : WF_outboxVars(Stalled(e))

OutboxFairSpec == OutboxSpec /\ OutboxFairness
-----------------------------------------------------------------------------
(* Properties. *)

RowStatus == {"UNSENT", "PENDING", "DISPATCHED", "FAILED"}
JobState  == {"none", "waiting", "active", "completed", "failed"}
WorkPhase == {"idle", "claim", "handle", "commit", "succeed", "fail", "deadLetter"}

\* Every variable stays in its range; a working slot is on some event.
OutboxTypeOK ==
  /\ status \in [Events -> RowStatus]
  /\ attempts \in [Events -> Nat]
  /\ rowLock \in [Events -> Dispatchers \cup {None}]
  /\ disp \in [Dispatchers -> [phase : {"idle", "publish", "record"}, todo : SUBSET Events,
                               done : SUBSET Events, failed : SUBSET Events]]
  /\ job \in [Events -> JobState]
  /\ made \in [Events -> Nat]
  /\ owner \in [Events -> Workers \cup {None}]
  /\ work \in [Workers -> [phase : WorkPhase, event : Events \cup {None}]]
  /\ \A w \in Workers : work[w].event = None <=> work[w].phase = "idle"
  /\ keys \subseteq Events
  /\ effects \in [Events -> Nat]
  /\ dlq \subseteq Events
  /\ cli \in [Events -> {"never", "replayed", "skipped"}]
  /\ faults \in Nat
  /\ requeues \in Nat

\* However often a job is redelivered (two dispatchers, a stalled job run by two
\* workers, a job re-added after its completed twin was removed), the effects
\* handlers write in the consumer's transaction happen once, with the key.
EffectsExactlyOnce ==
  \A e \in Events : effects[e] = IF e \in keys THEN 1 ELSE 0

\* A row is marked DISPATCHED only when the queue answers for the event: its job
\* is there to be run or kept as failed, or its effects have been committed.
DispatchedNotLost ==
  \A e \in Events :
    status[e] = "DISPATCHED" => job[e] \in {"waiting", "active", "failed"} \/ e \in keys

\* The queue forgets a job as completed only after the effects are committed,
\* even when the worker that completes it is not the one that ran the handlers.
CompletedWasHandled ==
  \A e \in Events : job[e] = "completed" => e \in keys

\* The dead-letter list holds only jobs whose attempts are spent.
DeadLetteredIsExhausted ==
  \A e \in dlq : job[e] = "failed" /\ made[e] >= QueueAttempts

\* What the outbox row, the queue and the dead-letter list say of an event holds.
QueueTellsTheTruth == DispatchedNotLost /\ CompletedWasHandled /\ DeadLetteredIsExhausted

\* A pending event is eventually handled, or ends where an operator sees it:
\* parked in the outbox or failed in the queue.
EveryEventSettles ==
  \A e \in Events :
    status[e] = "PENDING" ~> (e \in keys \/ status[e] = "FAILED" \/ job[e] = "failed")

\* dlq.ts: replay puts a dead-lettered job back onto its queue.
ReplayPutsBack == \A e \in Events : cli[e] # "skipped"

\* The promise the outbox implements.
Delivery == INSTANCE EventDelivery
              WITH emitted <- {e \in Events : status[e] # "UNSENT"}, applied <- effects
ImplementsDelivery == Delivery!DSpec
=============================================================================
