----------------------------- MODULE MCWorkshop -----------------------------
(* The card, the bench's notes about it, the money it costs and the outbox   *)
(* that carries its events, for TLC, each alone: a behaviour is one of       *)
(* JobCard, StatusSignal (with JobCard), Billing or Outbox, the others       *)
(* staying as they start.                                                    *)
EXTENDS Outbox, StatusSignal, Billing

CONSTANT Parts  \* the components of this instance
VARIABLE part   \* the one this behaviour is of

workshopVars == <<part, jobVars, signalVars, billingVars, outboxVars>>

\* What the console sends a card whose work is done, until it leaves.
CounterEvents == {"QUALITY_PASSED", "PAYMENT_REQUESTED", "VEHICLE_DELIVERED"}

\* While a note is handled, the parts arrive and the bench finishes an item.
PartsArrive == {"PARTS_RECEIVED"}
BenchFinishes == {"COMPLETE"}

WorkshopInit ==
  /\ part \in Parts
  /\ IF part = "signal" THEN SignalInit ELSE Init /\ NoSignals
  /\ BillingInit /\ OutboxInit

WorkshopNext ==
  \/ part = "card" /\ Next /\ UNCHANGED <<part, signalVars, billingVars, outboxVars>>
  \/ part = "signal" /\ SignalNext /\ UNCHANGED <<part, billingVars, outboxVars>>
  \/ part = "billing" /\ BillingNext /\ UNCHANGED <<part, jobVars, signalVars, outboxVars>>
  \/ part = "outbox" /\ OutboxNext /\ UNCHANGED <<part, jobVars, signalVars, billingVars>>

WorkshopSpec == WorkshopInit /\ [][WorkshopNext]_workshopVars
=============================================================================
