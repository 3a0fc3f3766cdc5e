# ServiceLoop: a verification project

ServiceLoop runs a vehicle workshop's conversation with its customers: a job card moves
through the workshop, extra work is put to the customer for a decision, invoices are issued,
money is collected, the car leaves through a gate, and the customer hears from the shop
afterwards. Three processes share one Postgres database and one Redis: the API (NestJS), the
workers (BullMQ consumers, an outbox dispatcher and polling sentinels) and the console (Next.js).
Everything a customer receives passes one outbound gate, and every side effect that must not be
lost goes through a transactional outbox.

These modules model the parts where processes, messages, crashes and timers meet: what is
recorded in one transaction and acted on in the next, what is delivered again or out of order,
and who may act on a state somebody else has left. TLC checks small instances; TLAPS proves
every safety property those runs check, for every value of the constants.

Paths below are relative to `src/`; `domain/`, `db/`, `agent-core/` and `adapters/` stand for
`packages/<name>/src/`, `workers/` and `api/` for `apps/<name>/src/`.

## 1. Inventory

### 1.1 Modelled

**Outbox, queue consumers, dead letters** — `db/services/outbox-service.ts`,
`workers/{outbox-dispatcher,consumer,queues,cli/dlq}.ts`.
State: `events_outbox` rows, their row locks, BullMQ jobs, `idempotency_keys`, the dead-letter
queue. Operations: enqueue in the producer's transaction, claim a batch (`FOR UPDATE SKIP LOCKED`),
publish, mark dispatched or failed, consume (claim the key, handle, commit), dead-letter, replay,
drop, requeue. Hard: the claim transaction stays open while Redis is called, failures are recorded
after it, a job may run in two workers. Correct when effects written in the consumer's transaction
happen once per event, and every row ends somewhere an operator looks.

**Job card and work items** — `domain/{job-card,work-item}/*` and their stores. State: the card,
its items with their approvals, the declined-work ledger, estimate, invoice, audit entry. Each
transition is one transaction under its row's lock, whose guard reads rows it does not lock.
Correct when the audit trail is continuous, no unapproved work is billed, the ledger is exactly
what was declined, and a delivered card stays delivered.

**Status signals from the bench** — `domain/status/{status-signal-service,card-matching}.ts`.
A technician's note is matched to a card, recorded and applied, or left to an advisor, in several
transactions over the same card. Correct when a note acts once, and only by the card's own edges.

**Payments, settlement, gate passes** — `domain/delivery/{payment-service,gate-pass-service}.ts`,
the payment adapters. State: payments with their ledger of events, the invoice's paid figure, the
provider's links, passes and scans. Webhooks repeat, race and arrive out of order; the ledger
commits before the card moves; a scan is judged in one transaction and recorded in the next.
Correct when money is counted once, nothing is called paid before what its link asked for is in, no
car leaves before that where payment comes first, and a pass opens the gate once for every gate that
reads it at once, and not again.

**Delivery offers and pickup reminders** — `domain/delivery/{delivery-service,slots}.ts`. Offers
check and insert in two transactions, a choice counts the slot's other bookings without a lock,
reminders are sent after their claim has ended. Correct when a slot is overbooked by no more than
the taps served at once, and offers and reminders are bounded.

**Invoice numbers** — `domain/delivery/invoice-service.ts`. Numbers are counted under an advisory
lock that ends before the row is inserted. Correct when each year's numbers have no gap.

**Outbound gate, review queue, quiet-hours release** — `domain/messaging/{outbound-gate,deferred,
consent,session}.ts`, `domain/agent/review.ts`. State: message rows, holds, reviews, consent, the
window, what the customer has received. The decision is stale while the channel is called, and a
process may die between the channel's answer and its record. Correct when a message arrives once,
only approved drafts leave, an opt-out stops what is not under way, and what is held is released.

**Approval decision and escalation ladder** — `domain/agent/{approval-service,escalation,
advisor-tasks,approval-replies}.ts`, `workers/escalations.ts`. State: requests, items, the card;
rung rows, their delayed jobs, advisor tasks. A decision may come while a rung acts, and its steps
may break off. Correct when the first answer stands, is announced only when applied, and stops the
chase.

**Voice calls** — `agent-core/voice/*`, `domain/voice/*`. State: the call's row, its consent facts,
the runner's conversation, the agent runs it starts, the meter. The gate, the row and the dial are
three steps; an exception may come at any of them. Correct when no sound is kept without the notice
on file, no decision is recorded that was not read back, and every call is settled and paid for once.

**Agent runs** — `agent-core/{runner,tool-registry,tools,objectives,post-checker}.ts`. The model
alternates with the thread's state; an advisor may take over at any moment. Correct when one run
answers a message, the agent falls silent at the next turn, and a run that says it gave up has no
decision it was told of and no hand-off to its name.

**Inbound messages** — `domain/messaging/{inbound-handler,router,session,consent-capture}.ts`.
Deliveries of one number are handled several at a time; the follow-ups come after the router's
transaction. Correct when a message is routed once, and an acknowledged STOP is on record.

**Intake drafts** — `domain/intake/{intake-service,entity-resolution}.ts`. Confirmations take up to
three locks, in two orders. Correct when a draft becomes one card, and codes have no gaps.

**ETA ledger** — `domain/status/{eta-service,eta-rules,status-comms}.ts`; **silent bays** —
`domain/status/silent-bay.ts`, `workers/sentinels.ts`. Correct when bad news that is noted is put to
the customer if there is a thread to put it on, and a silent card is named once in a window and escalated when it should be.

**Retention, feedback** — `domain/retention/{retention,ledger,reminder,feedback}-service.ts`.
State: touches with their dedupe keys, ledger items, the feedback request, the freeze a complaint
brings. Held messages are settled while the gate still owns them. Correct when a customer hears of an
item a bounded number of times, not within the floor where the gate is given a reader of it, and
nothing after a complaint but what was under way.

**Audit chain** — `db/services/audit-service.ts`, `domain/audit/chain.ts`; **erasure** —
`domain/privacy/data-principal-service.ts`, `workers/privacy-sentinel.ts`. Correct when the chain
verifies whatever is redacted, and a deletion is carried out for a request that was approved and not
withdrawn in time.

### 1.2 Not modelled

| part | why |
|---|---|
| Staff sign-in and API hardening | outside this development |
| Invoice lines and tax, guardrail text checks, evidence bundles, cascade plan and archive, extraction | arithmetic, text matching and tables: data, no interleaving |
| Balance reminders, win-backs, alerts, digest | one-shot notices under a dedupe key; their keys work as `Retention`'s do |
| Controllers, worker wiring | thin callers; where one orders several calls, that service's module maps it |
| Console, simulator, provider adapters, schema, seeds, configuration, shared types, observability | rendering, drivers, I/O, parsing, declarations |

PROJECT.json lists every part with its sources, and 40 hazards with the line where each bites and the
property that would catch it. Known ones beyond those 40 are in section 6.

### 1.3 How the parts meet

- A state change and its event are one transaction; the outbox delivers the event to handlers
  (`Outbox`). `ApprovalChase` takes from it that `approval.requested` is redelivered until its
  handler ends.
- `StatusSignal` moves the card by `JobCard`'s own actions, which it extends.
- `PaymentService.settleCard` sends the card two events; `Billing` uses `JobCard`'s edges and
  guards through `INSTANCE`, so that a change of the table changes both.
- `GatePass` extends `Billing`: the balance a pass is issued against is the newest open payment
  row, and passes are issued while links and webhooks go on.
- `ApprovalChase` extends `Approval`: the ladder reads the decision the calls write. A rung's call
  is one step there and `VoiceCall` in itself.
- What the gate makes of a message (sent, held, refused) is `OutboundGate`'s decision and a choice
  in the modules that send one.

## 2. Modules

| module | models | source |
|---|---|---|
| `EventDelivery` | the promise: emitted once, effects after it and at most once | repository README, "Delivery is at-least-once; effects are exactly-once" |
| `Outbox` | rows, dispatchers, jobs, consumers, dead letters | outbox-service, outbox-dispatcher, consumer, dlq |
| `JobCard` | one card, its items, ledger, estimate and invoice, two-step transitions | transitions, guards, transition services |
| `StatusSignal` | notes on that card | status-signal-service, card-matching |
| `Billing` | links, provider, counter, invoice, settlement | payment-service, delivery-store, adapters |
| `GatePass` | passes and gate screens beside `Billing` | gate-pass-service |
| `Delivery` | offers, choices, reminders | delivery-service, delivery-store |
| `Invoices` | numbers, rows, PDFs, audit entries | invoice-service |
| `OutboundGate` | one customer's thread: gate, reviews, drain, receipts | outbound-gate, deferred, review |
| `Approval` | requests, the decision and its steps | approval-service |
| `ApprovalChase` | ladder, rung queue, tasks beside `Approval` | escalation, escalations worker |
| `VoiceCall` | the telephone calls of one approval | voice-runner, voice-tools, call-service |
| `AgentRun` | the agent's runs on one thread | runner, tools, tool-registry |
| `Inbound` | one number's messages to the shop | inbound-handler, router |
| `Intake` | drafts and confirmations | intake-service, entity-resolution |
| `EtaLedger` | one card's expected time and who is told | eta-service, eta-rules, status-comms |
| `SilentBay` | the scan for silent cards | silent-bay |
| `Retention` | touches, ledger items, the freeze | retention-, ledger-, reminder-, feedback-service |
| `FeedbackAsk` | the ask, its reminder, the answer | feedback-service, retention-store |
| `AuditChain` | the chain, both verifiers, redaction | audit-service, chain |
| `Erasure` | requests and their execution | data-principal-service, privacy-sentinel |
| `MC…` | TLC instances | |
| `…Proofs` | the theorems (section 4) | |

Each of the `MC` modules puts several components side by side in one run, of which `part`, chosen
at the start and kept, says which one moves. They are independent: the union is a way of checking
several small systems in one run, not a composition. The compositions are the modules that extend
others (`StatusSignal`, `GatePass`, `ApprovalChase`).

Modelling conventions:

- A transaction is one action when nothing it reads can change under it (the row is locked and
  nothing else is read), and two when it reads rows it does not lock, or calls out, in between.
  Isolation is READ COMMITTED: a row read without a lock may be stale at commit.
- The version check of `writeState` (job-card-store) is redundant under the row lock and is left out.
- A crash ends a call, rolls back its open transaction and loses what it held in memory.
- Amounts are small integers, message bodies do not exist, and a clock reading is a set of things
  that have happened (`expired`, `due`, `quiet`), or a small number where two are compared
  (`EtaLedger`, `SilentBay`).
- Every bound on faults, nights, requeues and rows is a named constant in a guard.
- Some variables are counters of what has happened (`reached`, `asks`, `told`, `rang`, `applied`):
  no code has them; a property needs them to speak of the past.

### 2.1 State and actions against the code

`Outbox`. `status`, `attempts` are the row; `rowLock[e]` and `disp[d]` are a claim transaction held
open by `OutboxDispatcher.dispatchOnce`, which publishes inside it, marks the batch and commits,
then records failures one transaction each without looking at the row's status (`MarkFailed`).
`job`, `made`, `owner` are BullMQ's (external): a job's id is the event's id, so an `add` while any
job of that id exists is ignored. `work[w]` walks through `consumer.ts`: claim the idempotency key
(waiting for a transaction that holds it), handle, commit or abort, then tell the queue.
`Stalled` gives a job whose lock ran out to another worker while the first goes on.

`JobCard`. `ReadCard` locks the card and evaluates the guard; `CommitCard` writes state, timestamp,
audit and event; items, estimate and invoice move in between. `ItemTransition` is one step: it
locks and reads only its own row.

`StatusSignal`. `MatchCard`, `LoadMatched`, `InsertSignal` are capture; `ClaimPending`,
`LoadClaimed`, `Confirm` the advisor's confirmation; `ApplyItem`, `ApplyCard` and `CardMoves` the
application, each through `JobCard`'s transitions, on what was loaded at the start; `ResolveApplied`
the last write. `CallDies` may come between any two.

`Billing`. `PrepareLink`/`InsertPayment`/`AttachLink`/`LoseLink` are `createLink`'s transactions and
the provider's answer; the caller may name an amount (`LinkAmounts`), and all that follows compares
with that amount, as the code does. `Reconcile(e)` is the webhook's transaction for an event not yet in
`payment_events`; `LoadCard` and `SettleStep` are `settleCard`; `AbandonSettlement` is a crash or an
exception after the ledger's commit. A transition of the card is atomic here: `JobCard` shows what
its lock gives.

`GatePass`. `CheckIssue`/`InsertPass` are `issue`'s two transactions, `Scan`/`RecordScan` are
`verify`'s, for several gates and several advisors at once.

`Delivery`. `LoadReady`, `InsertBooking`, `AttachOffer` are `announceReady`; `ReadChoice`,
`CommitChoice` one transaction of `chooseSlot`, whose count is not locked; `ClaimReminders`,
`SendPickupReminder`, `MarkReminded` the sentinel's pass. Nothing in the code closes a booking.

`Invoices`. `StartIssue` looks, `Prepare` counts, `InsertInvoice` meets the two unique indexes,
`Render` and `RecordInvoice` follow; `FailIssue` ends a request anywhere.

`OutboundGate`. `Send` decides and inserts, `CallChannel` is the provider (which may deliver and
still throw), `RecordSent`/`RecordFailed` are the second transaction. `Claim`/`Release` are the
drain, `OpenCandidate`/`Approve`/`Reject`/`ReleaseApproved` the review, `Receipt` the status webhook.

`Approval`. `Record` is the transaction of `recordCustomerDecision`; `MoveItem`, `GrantCard` or
`NothingToGrant`, `CancelLadder`, `ClearTasks` and `Announce` follow it, one transaction each;
`Abandon` ends the call at any of them. DECLINED and DEFERRED items are one value, since the
decision treats them alike.

`ApprovalChase`. `LayRow`/`LayJob` are one round of `scheduleLadder`; `LayingBreaks` redelivers the
event. `TakeJob` … `Finish` are `fireRung`: claim, read the subject, act, mark. `Defer`/`Reschedule`
are `deferRung`, inside the job that is running. `Stall` and `RungFails` are what BullMQ does to a
job (external). Removing the jobs of cancelled rungs is best effort: any subset goes.

`VoiceCall`. `FireCallRung` is the rung's claim, `CallGoesOn` the call's next step, in `line[c].at`:
gate, row, dial, opening, turns, bridge, endings, settlement, as in `VoiceAgentRunner`; `Trips` is an
exception, caught where the code catches it, or a crash. `References` says whether a run's trigger
refers to a row of `messages` (the database's does, the tests' store does not): the passing runs
have it both ways.

`AgentRun`. `RunStep` is the runner's loop: open, look at the thread, turn of the model, its tool
calls one by one, the row of the step, the ending. `CallDecide` commits the decision whether or not
what follows it throws: then the call fails (`unreported`) and the run goes on. `setup` is the shop's level and the objective.

`Inbound`. `DeliverText` starts a delivery, `HookStep` is the router's read, its write and each
follow-up; `HookFails` an exception (answered 200 all the same) or a crash (delivered again).

`Intake`. `LockDraft`, `Confirming` and `OpenCard` are `confirm`, with the draft's, the audit and the
code lock taken where the code takes them; a new vehicle takes the audit lock first.

`EtaLedger`. `Recalculate` writes a version with its verdict; `TakeEta`/`Consider`/`OfferEta`/
`MarkNotified` are the handler of a change, `TakeState`/`OfferState` that of a state's message.
`ThreadOpens` is the customer's first message: what `Consider` finds without a thread it marks and
drops (`mute`). What `computeEta` adds up is left open.

`SilentBay`. `StartSweep` reads the silent cards, `ClaimWindow` inserts the nudge under its unique
key, `SendNudge` writes to the group once a sweep, `FinishSweep` escalates.

`Retention`. `wired` says whether the gate was given `deps.retention`; the deployed processes give
none (section 6), the tests do, and the runs have both. `Plan` is what a pass finds due, `PassStep` its claim, channel call, settlement and
count; `ReleaseHeld` the gate's release of what was held; `RecoveryStep` the answer that freezes:
answer, hold, task, link, each a transaction. Resolving the task changes nothing here.

`FeedbackAsk`. `Asking(w)` claims, sends and marks, on the row as it was claimed; `NoThread` is the
ask that finds nowhere to go; `AnswerAsk` and the two clock steps come in between.

`AuditChain`. `AppendRow` takes the advisory lock till the end of its transaction and writes the
cached head at once; `CommitAppends`, `RollBack`; `ForgetHead` is Redis losing it; `Redact` the
erasure's rewriting; `CheckTail` the integrity job.

`Erasure`. `Raise`, `Verify`, `Approve`, `Cancel`, `Reject` are the counter's transactions;
`Executing(e)` is a worker's read, mark RUNNING, cascade and completion, each its own transaction.

## 3. Runs

Twelve runs: six that must hold, six counterexamples. States are distinct states after symmetry.

| run | instance | states | what it shows |
|---|---|---|---|
| `workshop` | card: 2 items (1 required), 2 callers, collect-first. Signal: 1 note, 1 call that may die. Billing: 2 links of 1 or 2 of 2 units, instalments, 1 counter payment, staff, crashes. Outbox: 1 event, 2 dispatchers, 2 workers, 2 faults, 2 requeues | 996 k | effects once and `ImplementsDelivery`; the queue tells the truth; card, ledger and audit agree; a note acts once; money is credited once, "paid" is money, and no car leaves before a link's amount is in |
| `customer` | gate: 3 messages (1 draft), an API call and a drain, 1 night, 1 fault. ETA: 2 handlers, times 1–3, 2 versions, 1 fault, a thread or none yet. Bays: 2 cards, 2 workers, 2 windows, 1 lost scan. Voice: 3 calls, 2 slots, cap 1 | 1.31 M | a message arrives once per fault and never gets lost; drafts, opt-outs, the cap; receipts move forward; bad news is told; silence is named once; the cap on calls is overshot by less than the slots |
| `counter` (fair) | billing: 1 link. Intake: 3 drafts, 2 advisors, codes that overflow after 1. Feedback: 1 visit, 2 workers, 1 fault. Erasure: 1 deletion, 2 workers, 1 fault | 113 k | what is begun ends: money that is in moves the card, confirmations that wait for each other's locks end, silence is recorded, an approved erasure happens; one card per draft, no gap in the codes, bounded asks |
| `aftercare` | gate: 1 link, 2 passes, 2 advisors, 2 gates. Invoices: 3 visits, 2 requests, 2 years, 1 fault. Delivery: 1 card, 2 slots of 1, 2 callers, 2 taps. Retention: 1 item, 1 lead, 2 workers, 2 pitches, 1 fault, with and without `deps.retention`. Erasure: 2 requests (1 deletion), 2 workers. Audit: 2 writers, 4 rows, tail 2. Inbound: 2 texts, 2 handlers, 1 fault. Agent: 2 requests, L1 and L2, 2 steps, 2 calls, 1 fault | 1.43 M | passes, invoice numbers, pickups, touches and the freeze, erasures, the chain, routed messages, agent runs |
| `channels` (fair) | outbox: 2 events in one batch, 1 fault. Gate: a draft and a template, 1 night, 1 fault | 170 k | every event is handled, parked or failed; what is held is released |
| `approval_chase` (fair) | ladder: 1 request, 2 answers, 2 rungs, 1 slot, 1 fault, 1 deferral. Calls: 1 call of 3 turns, 1 exception or crash, 2 decisions | 331 k | the first answer stands, is announced only when applied, stops the chase; every rung is laid; a call is sound at every step and ends |
| `outbox_dlq_replay` | 1 event | — | violated: the replay skips every dead-lettered job |
| `retention_frozen` | as `aftercare` | — | violated: a held re-pitch reaches a frozen customer |
| `audit_tail` | as `aftercare` | — | violated: a lawful redaction is reported as tampering |
| `voice_spoken` | 1 call | — | violated: a spoken turn breaks a foreign key and ends the call |
| `agent_refused` | 1 request at L2 | — | violated: a draft the checker refused is sent |
| `stop_unheard` | 2 texts | — | violated: STOP is acknowledged and not recorded |

Deadlock is not checked: each instance ends when its bounded inputs are spent (no more events,
links, messages or requests), and that is the normal end.

Symmetry: messages other than drafts in `customer`; in `aftercare` the two names `w1` and `w2`, which
its components share for their gates, callers, workers, handlers and requests. Both runs check no
liveness, and nothing distinguishes the permuted values. The fair
runs use none.

Why the bounds are enough. Every property speaks of one event, card, payment, pass, thread or
request, and the code keeps them apart by key; what matters is the number of actors that meet on
it, which is two wherever the code lets two meet, and the number of faults, which is at least one
in every passing run whose property a fault could break. Where the instance is smaller than the
code allows, there is a reason:

- one drain in `customer` and `channels`: two drains may send a held message twice (section 6);
- one slot in `approval_chase`: two slots on two rungs take too long. The safety
  properties are proved for any number of both, and two slots meet in the calls of `customer`.

Each property has a mutant in PROJECT.json: a plausible bug in one mapped definition under which
TLC finds the property violated.

### 3.1 Fairness

- `channels`: weak fairness of a dispatcher's step, of a worker slot's step and of the stalled-job
  check (the dispatch loop polls for ever, BullMQ keeps its workers taking jobs). It is of the
  disjunction: no publish or handler is obliged to succeed, so `EveryEventSettles` ends in
  handled, parked *or* failed. For the gate: a call in progress goes on and a night ends (weak), and
  the drain runs though other calls keep coming: it has a timer of its own, so its steps are enabled
  again and again without staying enabled, which takes strong fairness.
- `counter`: the provider redelivers until it is answered, and a running settlement goes on
  (customers and staff owe nothing; no crash, `MayCrash = FALSE`, since nothing repairs one). A
  running confirmation goes on, the database's choice of a deadlock's victim included. A sentinel's
  timer runs its passes, and an ask falls due and goes stale as time passes. The erasure worker's
  timer runs, and a grace period ends.
- `approval_chase`: the ladder's handler, a firing rung, and a call's process go on. Taking a job is
  not fair: a delay may be as long as it likes. Customers owe no answer; `CallEnds` rests on the
  runner's own limits.

## 4. Proofs

`tlapm` checks every leaf (Z3, Zenon, LS4). Every invariant and every action property that a passing
run checks is stated by a theorem, for every value of the constants; so is the refinement of
`EventDelivery`. What is left to TLC alone is the eight liveness properties.

| module | theorems (properties of the runs) |
|---|---|
| `OutboxProofs` | `TypeCorrect` (`OutboxTypeOK`), `ExactlyOnce` (`EffectsExactlyOnce`), `QueueIsTrue` (`QueueTellsTheTruth`), `Implementation` (`ImplementsDelivery`: rows no longer UNSENT are emitted, committed effects applied) |
| `JobCardProofs` | `TypeCorrect`, `LedgerCorrect`, `AuditCorrect` (`AuditIsContinuous`) in every shop; `CardCorrect` (`CardIsSound`) where payment comes first; `NoteActs` (`NoteActsOnce`); `NotesKeepTheCard`: both hold with notes as well |
| `BillingProofs` | `TypeCorrect`, `CreditedOnce` (`MoneyCreditedOnce`), `PaidIsMoney` (`PaidIsReal`), `Handover` (`HandedOverPaid`), `UsedUpByOpening`, `PassesAlwaysSound` (`PassesAreSound`), `PickupAlwaysKept` (`PickupIsKept`) |
| `ApprovalProofs` | `DecisionIsKept` (`DecidedOnce`), `AnnouncementIsDone` (`AnnouncedIsDone`), `DecisionStops` (`DecisionStopsTheChase`), `CallsAlwaysSound` (`CallsAreSound`); `ChaseImplementsDecision`: every step of the chase is a step of `Approval` or none |
| `ThreadProofs` | `DecisionsAlwaysKept` (`DecisionsAreKept`), `MessagesAlwaysKept` (`MessagesAreKept`), `ReceiptsAlwaysForward` (`ReceiptsMoveForward`), `RunsAlwaysSound` (`RunsAreSound`), `InboundAlwaysSound` (`InboundIsSound`) |
| `CustomerProofs` | `BaysAlwaysWatched` (`BaysAreWatched`), `EtaAlwaysTold` (`EtaIsTold`) |
| `CounterProofs` | `IntakeAlwaysSound` (`IntakeIsSound`), `AsksAlwaysFair` (`AsksAreFair`), `TouchesAlwaysBounded` (`TouchesAreBounded`), `FreezeAlwaysHolds` (`FreezeHolds`) |
| `RecordProofs` | `InvoicesAlwaysSound` (`InvoicesAreSound`), `ChainAlwaysVerifies` (`ChainVerifies`), `HistoryAlwaysStands` (`HistoryStands`), `ErasureAlwaysSound` (`ErasureIsSound`) |

A theorem is about its component's own specification, not about the `MC` module in which a run
puts it beside others. Each inductive invariant was checked by TLC on small instances before it
was proved.

### 4.1 The arguments

Few of the properties are inductive. What each needs beside itself:

- *Outbox.* `IInv`: at most one worker is inside a transaction for an event (`OneTxPerKey`), that
  transaction's key is not yet committed (`TxKeyIsNew`), only emitted events are in the queue
  (`OnlyEmitted`). A worker enters a transaction by `Claim` alone, which waits for both. `Enqueue` is
  the abstract `Emit`, `Commit` is `Apply`, all else stutters. `QInv`: whatever is dispatched or about
  to be is answered for by a job or a committed key (`QueueAnswers`), and a job is on one list.
- *JobCard.* `JInv`: one transition is pending at most (`LockHeld`), its edge starts at the present
  state, and a guard read without locks still holds at commit (`GuardKept`): no item edge leads back
  to an undecided state, so "no required item undecided" can only become truer. `NInv` (`ActsOnce`)
  relates a note's row to the calls that hold it.
- *Billing.* `Backed`: a settlement in progress and an invoice marked paid each rest on a payment
  that holds what its link asked for; what a payment holds never falls (`PaidUpStays`), so a
  settlement that moves the card later is still covered, whatever amounts the links name. `CreditedOnce` also needs a theory of the sum: the fold is a recursive function
  over subsets, so that it exists, does not depend on the set it was defined over, and lets any
  member be taken out first are lemmas of their own, each an induction on cardinality written as the
  absence of a smallest counterexample (`WFMin`).
- *GatePass, Delivery.* `GateInv` (a barrier that opened leaves a row USED or REVOKED), the openings of
  a pass plus the gates that have read it good and not recorded it never exceed the gates, and
  `IssuesCounted`: live passes plus issues in progress never exceed the advisors. `TapsHold`, `RemindersCounted`, `Bookings`: bookings of
  a slot plus taps about to take it exceed the capacity by no more than the taps.
- *Approval.* `Progress` ties each call's step to what is already applied; `OneCaller`: one call at
  most applies a decision. An item with an outcome is no longer PENDING_APPROVAL, so no other request
  moves it. `TInv` (`Swept`): a task still open once its request's tasks have been cleared belongs
  to a rung in `late`. `DInv` (`Stopped`): rungs too late plus slots still acting for a
  decided request never exceed the slots, since no slot comes to act for one any more.
- *VoiceCall.* `CallsHold`: each value of `line[c].at` fixes what is in the row, the facts and the
  meter (`RowHolds`, `LineHolds`); the calls counted and those let through stay below cap plus slots
  (`CallsCounted`).
- *OutboundGate.* `GateInv`: a draft's row is approved before it is sent (`DraftRows`), messages that
  wait are in somebody's hands (`InHands`), sends counted against the cap (`CapCounted`). `OnceInv`:
  with one drain, a row has one caller at most (`OneCall`), and deliveries past the first are paid
  for by faults (`DeliveriesCounted`).
- *AgentRun, Inbound.* `RowOf`, `LateOf`, `EffectsOf`: the run's row, lateness and effects by program
  counter, the decisions counted being those the run was told of. `HookHolds`, `TextHolds`, `ThreadHolds`, `LossesHold`: what a delivery in progress has read
  is still true of the rows only it may write, and a message answered without a row has cost a fault
  or met another delivery.
- *Retention, FeedbackAsk, Intake.* `PitchesCounted`, `FloorCounted`, `FreezeCounted`: what was
  received plus what passes are about to send is bounded by keys and faults, summed over
  classes of passes by what they are at work on and how far they are. `DeliveriesCounted` counts from
  the last look at the freeze: the gate's where it is wired, the claim's where it is not. `OneClaim`, `Counted`. `LocksHold`,
  `CodesAreUnique`: who holds the code lock numbers from the rows that are committed.
- *EtaLedger, SilentBay.* `OneHandler`, `NewestIsTold`: the newest version is unheard, in a
  handler's hands, or noted, and then offered if it is bad news, or it found no thread. `ScanOf`, `CountsAreBacked`: what a nudge counted is backed by rows.
- *Invoices, AuditChain, Erasure.* `CountsHold`: numbers of a year are an interval, and a
  request's number was counted from one of its prefixes. `FollowsAt`: each row's hash is that of its predecessor.
  `ChecksWereMade`, `WithdrawalHolds`, `CascadesAreCounted`.

### 4.2 Assumptions and hypotheses

The named `ASSUME` of each module, which TLC evaluates on every run: constants are naturals (caps,
capacities and sizes positive), sets that are counted are finite, and `"none"` or `None` is no member of a set it
stands beside. In addition, as hypotheses of the theorem, each because the code does not give the
property without it (section 6):

| theorem | hypothesis |
|---|---|
| `CardCorrect` | `PaymentFirst` |
| `TypeCorrect`, `CreditedOnce`, `PaidIsMoney`, `Handover` (Billing) | billing starts in a state of the card's table |
| `Handover` | the shop collects first, and staff leave PAYMENT_SETTLED to the payment service |
| `MessagesAlwaysKept`, `ReceiptsAlwaysForward` | `OneDrain` |

### 4.3 Only model-checked

`EveryEventSettles`, `HeldIsReleased`, `MoneyMovesTheCard`, `ConfirmationEnds`, `SilenceIsRecorded`,
`ErasureHappens`, `EveryRungIsLaid` and `CallEnds`: fairness and ENABLED are outside the prover's
reach.

## 5. Plan

Done: the modules of section 2 in the order `Outbox`, `JobCard`, `Billing`, `GatePass`,
`OutboundGate`, `Approval` with `ApprovalChase`, `Retention`, `StatusSignal`, `EtaLedger`, `SilentBay`,
`Intake`, `FeedbackAsk`, `Delivery`, `Invoices`, `Erasure`, `AuditChain`, `VoiceCall`, `AgentRun`,
`Inbound`; their runs; the theorems of section 4.

Left, by importance:

1. Abstract promises beside `EventDelivery`, with refinements: a message as *decided once, received at
   most once more per fault* (`OutboundGate`), an invoice series as *the next number, or none*
   (`Invoices`), an audit log as *an append-only sequence* (`AuditChain`).
2. That `Billing`'s atomic transition of the card is one that `JobCard`'s two steps implement.
3. Balance reminders and win-backs, whose keys are by rung and by day.
4. Pure algorithms against reference definitions over bounded inputs: slot suggestion, invoice
   rounding, the ETA rules.

## 6. Where the code and what is said of it differ

Shown by a run (PROJECT.json, findings): the dead-letter replay, the frozen customer, the redacted
tail, the spoken turn, the refused draft, the STOP on an unlinked thread.

Met while modelling and stated here without a run. Most are why a property or a theorem says what
it says and no more.

- *Outbox.* With two dispatchers, a failure recorded late reopens a dispatched row
  (`outbox-service.ts:104`, against :94). A handler that writes in its own transaction repeats that
  work on a retry (`consumer.ts:70`; `handlers/registry.ts:8` says side effects commit with the claim).
- *JobCard.* With delivery first, a delivered card can be cancelled from AWAITING_PAYMENT
  (`transitions.ts:42`, `guards.ts:100`), which is entered from DELIVERED without the approval guard
  (`guards.ts:107`, against :54); PAYMENT_SETTLED is unguarded, so staff who send it release an unpaid
  car (`transitions.ts:42`, against `guards.ts:69`); QUALITY_CHECK may be reached while an item
  approved in between is unfinished (`transition-service.ts:132`, :244, against `guards.ts:42`).
- *StatusSignal.* Two advisors may both apply one note (`status-store.ts:326-331`, against the comment
  in `status-signal-service.ts:228`); applying an item overwrites CONFIRMED with AUTO_APPLIED and clears
  who confirmed (:243); two "done" notes on the last two items at once, and nobody completes the
  card; a crash after an insert as AUTO_APPLIED leaves the note unapplied.
- *Billing.* Two presses at once make two live links (`payment-service.ts:132`, :178). A settlement that
  breaks off leaves the card where it was and the redelivery is a duplicate (:655, against :613). An
  expiry or cancellation that arrives after the money moves PAID back to PARTIALLY_PAID (:772, against
  :441). An invoice may say less than was paid when a second payment overwrites its figure (:336). A
  row whose provider call failed is not reused, and is still the newest (`delivery-store.ts:666`).
- *Billing, links over a part.* The API's caller may name an amount, "e.g. for a part payment agreed at
  the counter" (`delivery.controller.ts:36`; `payment-service.ts:126`, :156). Once that amount is in, the
  payment is PAID, the invoice is marked PAID although its figure is below its total (:336-341), and
  the card gets PAYMENT_SETTLED: a shop that collects first releases the car uncovered, which
  `full-journey.ts:1157-1159` and `guards.ts:69` say it cannot. The gate pass needs no override then,
  since it looks at that payment alone (`gate-pass-service.ts:172`), and the balance cannot be asked for:
  the paid link is found and reused (:146). `PaidIsReal` and `HandedOverPaid` therefore speak of what
  a link asked for, not of the visit's total.
- *GatePass.* Two gates that scan one pass at once both open: the row's lock ends with the transaction
  that reads it (`gate-pass-service.ts:368`), against "a pass can be presented twice in ten seconds … and
  only one of those may mark it used" (`delivery-store.ts:893-894`); `OpensOncePerScan` bounds it by
  the gates that read it at once. Two advisors issue two passes (:140); an invoiced card without an open payment row gets a pass
  without an override (:172, against :121); a pass revoked between scan and record is marked used.
- *Delivery.* SLOT_IN_PAST says "we will offer new ones" (`delivery-service.ts:377`), and
  `announceReady` refuses a card that has a booking (:103); the reminder does not look at the card's
  state and is marked whatever the gate answered.
- *Invoices.* Items approved after the prepare transaction are never billed; a crash after the insert
  leaves no PDF, audit entry or event, and a later request answers "already issued".
- *OutboundGate.* Two drains release one held message twice: the claim's locks end with its
  transaction (`deferred.ts:65`, against `messaging-store.ts:455-463`). A blocked first row counts as a
  first contact, so the next message may omit the AI disclosure (`outbound-gate.ts:533`). A crash
  between an approval and its release leaves the message PENDING_APPROVAL for ever. A FAILED receipt
  never changes a status. A held message that was exempt as a reply or an acknowledgement is released
  without its exemption (`deferred.ts:91`, :107).
- *Approval.* The decision's steps are not one transaction: after a crash or a refused transition the
  items, the card, the ladder and the event stay undone, since a second answer is "already decided"
  (`approval-service.ts:255-257`). A handler that dies between a rung's row and its job leaves a rung
  without a timer (`escalation.ts:165-186`): `EveryRungIsLaid` promises the row, no more. A rung
  whose job fails keeps its row SCHEDULED, though `escalations.ts:87-90` sends the operator to the
  row. A deferral adds a job whose id is that of the job that is running, and is lost
  (`escalation.ts:415`, :729, `escalations.ts:78`); a call's retry after no answer takes the same way.
- *VoiceCall.* A tool's handler runs before the readback invariant can refuse it
  (`tool-registry.ts:229-255`, against `voice-tools.ts:259-261`). A confirmation outlives a later "no"
  (`voice-tools.ts:86-97`), the keypad's pending decision outlives the agent's readbacks, and the
  decision told may differ from the one on record. A model that throws leaves its run RUNNING, which
  blocks the thread's next ones. The gate reads in one transaction and the row is opened in another.
- *AgentRun.* A decision commits before the items and the card are moved
  (`approval-service.ts:258-322`, :344-386); when those throw, the tool reports a failed call
  (`tool-registry.ts:254`) and the run may end blocked or out of budget with the customer's answer on
  record. `OutcomeOwnsItsEffects` speaks of decisions the run was told of. A send the gate blocks counts as the objective met (`runner.ts:355`, against :362-364).
  Two triggers at once both pass `activeRunIds`. Calls of a turn are carried out after an override or a
  hand-off; the override is set after the advisor's message was sent
  (`conversations.controller.ts:124-135`). Text runs are started by the simulator and the tests only.
- *Inbound.* The webhook answers 200 whatever was thrown, so of two first messages of a new number
  handled at once the second is lost (`session.ts:122-126`, :159). A crash after the routing loses the
  follow-ups, the redelivery being a duplicate. Of STOP and START out of order the last processed wins
  (`messaging-store.ts:649-658`). A redelivery stores its media again, and an older message
  sets the 24-hour window back.
- *Intake.* Discarding asks for no status (`intake-store.ts:227`); codes are ordered as strings, and
  none follows the year's ten-thousandth card; confirmations of a new and of a known vehicle wait for
  each other's locks (the database ends one).
- *EtaLedger.* A change that is considered before the customer has a thread is marked notified and
  put to nobody, bad news included, and is not looked at again when a thread opens
  (`status-comms.ts:136-147`); `BadNewsIsOffered` excepts it. A material slip superseded before its event is handled is never announced
  (`eta-rules.ts:196`); small slips accumulate untold (:175); an event handled again sends again
  (`status-comms.ts:195`; :18-20 says not); `claimUnnotified` has no caller.
- *Retention, the gate's reader.* The gate asks for the freeze and the floor only if it is given
  `deps.retention` (`outbound-gate.ts:612`). Its comment says that "a build that has retention wired
  passes this" (:202); the workers and the API, which send the retention traffic, build their gates
  without it (`workers/main.ts:117-126`, `api/messaging/messaging.module.ts:166-175`), the test harness
  and the demonstration with it. As deployed, then, no floor between touches is kept, and the claim
  is the last to look at the freeze: what a pass has claimed before a complaint goes out after it. The
  module has both wirings. `FreezeHolds` counts the passes beyond the last look;
  `FloorOvershootsByPasses` is promised where there is a reader, and nothing of the kind where there
  is none.
- *Retention.* `recordRepitch` reopens an item a customer has opted out of in between
  (`ledger-service.ts:205`, against :281). A held service reminder gives its dedupe key back while the
  message still goes out (`reminder-service.ts:556`, :709). A crash between a claim and its settlement
  keeps the key for ever (`retention-service.ts:99-101` says otherwise). The floor is not asked again
  for what was held. `releaseHoldsForTask`, the ledger's `expire` and `holds.release` have no
  caller.
- *FeedbackAsk.* A request whose customer has no thread is taken again at every pass until it expires
  (`feedback-service.ts:211-217`). `markAsked` sets ANSWERED back to ASKED; two workers do not "take disjoint batches"
  (`retention-store.ts:747`); `reminderAfterHours` is read nowhere, so a reminder goes out at the next
  pass although it is switched off.
- *Erasure.* An execution overtakes a cancel (`data-principal-service.ts:442`; `privacy-store.ts:59`
  says the lock prevents it); a worker that dies after another's cascade may leave a deletion RUNNING;
  FAILED is never set (`privacy-sentinel.ts:24-29` says it is); a rerun's report counts nothing;
  rejecting asks for no status; raising has no lock and no index.

## 7. Left out on purpose

- Wording, templates, languages, prices and tax arithmetic, cryptography of tokens and hashes,
  signature checks, HTTP, rendering.
- What the language model says: its tool calls come in any order the registry admits.
- Time as a number, but for `EtaLedger` and `SilentBay`: delays, expiries and caps are events that
  may happen at any moment.
- BullMQ, Redis, Postgres and the providers, beyond the behaviour the code relies on (marked external
  in the map).
- The modules stand for about a tenth of the repository's lines. The rest is the console, the
  simulator and its scenarios, provider adapters, schema, seeds, contracts and types, configuration
  and wording: code in which no two actors meet.
