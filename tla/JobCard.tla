------------------------------ MODULE JobCard -------------------------------
(***************************************************************************)
(* One job card and its work items: the two transition services, the       *)
(* guards, and what the guards read.                                       *)
(*                                                                         *)
(* A card transition is a transaction in two steps.  ReadCard takes the    *)
(* card's row lock (FOR UPDATE) and evaluates the guard on work items and  *)
(* a balance it reads without locking them; CommitCard writes the state,   *)
(* the audit record and the outbox event.  In between, other transactions  *)
(* may change the items and the balance, never the card.  A work item      *)
(* transition locks and reads only its own row, so it is one step.         *)
(***************************************************************************)
EXTENDS Naturals, FiniteSets

CONSTANTS
  Items,         \* the work items intake created with the card
  Required,      \* those with requires_approval
  Procs,         \* concurrent callers of the card's transition service
  PaymentFirst   \* the shop's payments.paymentBeforeDelivery

ASSUME JobCardAssumption ==
  /\ Required \subseteq Items
  /\ PaymentFirst \in BOOLEAN

VARIABLES
  card,         \* job_cards.state
  deliveredAt,  \* whether job_cards.delivered_at has been written
  item,         \* item[i]: work_items.state
  approvedAt,   \* items whose approved_at has been written
  ledger,       \* ledger[i]: kind of i's declined_work_ledger row
  quoted,       \* whether the card has an ACCEPTED estimate
  invoice,      \* the card's invoice: none, owed or settled
  tx,           \* tx[p]: the transition p is about to commit
  audit         \* the card's last audit record

itemVars  == <<item, approvedAt, ledger>>
moneyVars == <<quoted, invoice>>
vars == <<card, deliveredAt, itemVars, moneyVars, tx, audit>>
-----------------------------------------------------------------------------
(* The transition tables and the guards. *)

CardState ==
  {"DRAFT", "OPEN", "IN_DIAGNOSIS", "AWAITING_APPROVAL", "IN_PROGRESS", "AWAITING_PARTS",
   "QUALITY_CHECK", "READY_FOR_DELIVERY", "AWAITING_PAYMENT", "DELIVERED", "CLOSED", "CANCELLED"}

CardEvent ==
  {"OPEN_CARD", "BEGIN_DIAGNOSIS", "REQUEST_APPROVAL", "APPROVAL_GRANTED", "PARTS_AWAITED",
   "PARTS_RECEIVED", "WORK_COMPLETED", "QUALITY_PASSED", "PAYMENT_REQUESTED", "PAYMENT_SETTLED",
   "VEHICLE_DELIVERED", "CLOSE", "CANCEL"}

CardEdges ==
  {<<"DRAFT", "OPEN_CARD", "OPEN">>,
   <<"OPEN", "BEGIN_DIAGNOSIS", "IN_DIAGNOSIS">>,
   <<"IN_DIAGNOSIS", "REQUEST_APPROVAL", "AWAITING_APPROVAL">>,
   <<"AWAITING_APPROVAL", "APPROVAL_GRANTED", "IN_PROGRESS">>,
   <<"IN_PROGRESS", "REQUEST_APPROVAL", "AWAITING_APPROVAL">>,
   <<"IN_PROGRESS", "PARTS_AWAITED", "AWAITING_PARTS">>,
   <<"IN_PROGRESS", "WORK_COMPLETED", "QUALITY_CHECK">>,
   <<"AWAITING_PARTS", "PARTS_RECEIVED", "IN_PROGRESS">>,
   <<"QUALITY_CHECK", "QUALITY_PASSED", "READY_FOR_DELIVERY">>,
   <<"READY_FOR_DELIVERY", "PAYMENT_REQUESTED", "AWAITING_PAYMENT">>,
   <<"READY_FOR_DELIVERY", "VEHICLE_DELIVERED", "DELIVERED">>,
   <<"AWAITING_PAYMENT", "PAYMENT_SETTLED", "DELIVERED">>,
   <<"DELIVERED", "PAYMENT_REQUESTED", "AWAITING_PAYMENT">>,
   <<"DELIVERED", "CLOSE", "CLOSED">>}
  \cup {<<s, "CANCEL", "CANCELLED">> : s \in CardState \ {"DELIVERED", "CLOSED", "CANCELLED"}}

ItemState ==
  {"PROPOSED", "PENDING_APPROVAL", "APPROVED", "DECLINED", "DEFERRED", "IN_PROGRESS", "DONE"}

\* Mutant: deferred work is taken up again on the same item.
ItemEdgesReopened ==
  {<<"PROPOSED", "SUBMIT_FOR_APPROVAL", "PENDING_APPROVAL">>,
   <<"PENDING_APPROVAL", "APPROVE", "APPROVED">>,
   <<"PENDING_APPROVAL", "DECLINE", "DECLINED">>,
   <<"PENDING_APPROVAL", "DEFER", "DEFERRED">>,
   <<"DEFERRED", "SUBMIT_FOR_APPROVAL", "PENDING_APPROVAL">>,
   <<"APPROVED", "START", "IN_PROGRESS">>,
   <<"IN_PROGRESS", "COMPLETE", "DONE">>}

ItemEdges ==
  {<<"PROPOSED", "SUBMIT_FOR_APPROVAL", "PENDING_APPROVAL">>,
   <<"PENDING_APPROVAL", "APPROVE", "APPROVED">>,
   <<"PENDING_APPROVAL", "DECLINE", "DECLINED">>,
   <<"PENDING_APPROVAL", "DEFER", "DEFERRED">>,
   <<"APPROVED", "START", "IN_PROGRESS">>,
   <<"IN_PROGRESS", "COMPLETE", "DONE">>}

Undecided == {i \in Items : item[i] \in {"PROPOSED", "PENDING_APPROVAL"}}

UnapprovedRequired == Undecided \cap Required

Unfinished == {i \in Items : item[i] \in {"APPROVED", "IN_PROGRESS"}}

\* loadOutstandingBalancePaise > 0: the invoice decides when there is one,
\* otherwise the accepted estimate's lines of work not declined or deferred.
Owes ==
  IF invoice = "none"
    THEN quoted /\ \E i \in Items : item[i] \notin {"DECLINED", "DEFERRED"}
    ELSE invoice = "owed"

\* JOB_CARD_GUARDS: an edge without an entry is unguarded, AWAITING_PAYMENT's
\* among them.  The guard of CANCEL, "not already delivered", looks only at the
\* state, and no delivered state has the edge.
Guard(s, ev) ==
  CASE ev = "REQUEST_APPROVAL"                             -> Undecided # {}
    [] ev = "WORK_COMPLETED"                               -> Unfinished = {}
    [] s = "READY_FOR_DELIVERY" /\ ev = "PAYMENT_REQUESTED" -> UnapprovedRequired = {}
    [] s = "DELIVERED" /\ ev = "PAYMENT_REQUESTED"          -> ~PaymentFirst
    [] ev = "VEHICLE_DELIVERED"                            -> ~PaymentFirst \/ ~Owes
    [] ev = "CLOSE"                                        -> ~Owes
    [] OTHER                                               -> TRUE
-----------------------------------------------------------------------------
NoTx == [to |-> "none", event |-> "none"]
Free == \A p \in Procs : tx[p] = NoTx

\* Intake inserts the card as DRAFT with its items PROPOSED.
Init ==
  /\ card = "DRAFT"
  /\ deliveredAt = FALSE
  /\ item = [i \in Items |-> "PROPOSED"]
  /\ approvedAt = {}
  /\ ledger = [i \in Items |-> "none"]
  /\ quoted = FALSE
  /\ invoice = "none"
  /\ tx = [p \in Procs |-> NoTx]
  /\ audit = [change |-> "none", to |-> "DRAFT"]

\* Mutant: the card is read without its lock.
ReadCardUnlocked(p, ev) ==
  /\ tx[p] = NoTx
  /\ \E t \in CardState :
       /\ <<card, ev, t>> \in CardEdges
       /\ Guard(card, ev)
       /\ tx' = [tx EXCEPT ![p] = [to |-> t, event |-> ev]]
  /\ UNCHANGED <<card, deliveredAt, itemVars, moneyVars, audit>>

\* An edge whose guard holds of what the transaction has read.
ReadCard(p, ev) ==
  /\ Free
  /\ \E t \in CardState :
       /\ <<card, ev, t>> \in CardEdges
       /\ Guard(card, ev)
       /\ tx' = [tx EXCEPT ![p] = [to |-> t, event |-> ev]]
  /\ UNCHANGED <<card, deliveredAt, itemVars, moneyVars, audit>>

\* No such edge, or its guard refuses: the attempt is audited, the card stays.
RefuseCard(p, ev) ==
  /\ Free
  /\ (\E t \in CardState : <<card, ev, t>> \in CardEdges) => ~Guard(card, ev)
  /\ audit' = [change |-> "rejected", to |-> card]
  /\ UNCHANGED <<card, deliveredAt, itemVars, moneyVars, tx>>

\* The state, its timestamp, the audit record and the outbox event together.
CommitCard(p) ==
  /\ tx[p] # NoTx
  /\ card' = tx[p].to
  /\ deliveredAt' = (deliveredAt \/ tx[p].to = "DELIVERED")
  /\ audit' = [change |-> tx[p].event, to |-> tx[p].to]
  /\ tx' = [tx EXCEPT ![p] = NoTx]
  /\ UNCHANGED <<itemVars, moneyVars>>

\* The transaction fails before its commit; nothing of it remains.
RollBackCard(p) ==
  /\ tx[p] # NoTx
  /\ tx' = [tx EXCEPT ![p] = NoTx]
  /\ UNCHANGED <<card, deliveredAt, itemVars, moneyVars, audit>>

\* A decline or a deferral also inserts the item's ledger row, once (the insert
\* ignores a conflict).  An illegal event, or a decline without a reason,
\* changes nothing here.
ItemTransition(i, ev) ==
  /\ \E t \in ItemState :
       /\ <<item[i], ev, t>> \in ItemEdges
       /\ item' = [item EXCEPT ![i] = t]
       /\ approvedAt' = IF t = "APPROVED" THEN approvedAt \cup {i} ELSE approvedAt
       /\ ledger' = IF ev \in {"DECLINE", "DEFER"} /\ ledger[i] = "none"
                      THEN [ledger EXCEPT ![i] = t] ELSE ledger
  /\ UNCHANGED <<card, deliveredAt, moneyVars, tx, audit>>

ItemEvent == {"SUBMIT_FOR_APPROVAL", "APPROVE", "DECLINE", "DEFER", "START", "COMPLETE"}

\* The estimate is accepted outside the services.
AcceptEstimate ==
  /\ ~quoted /\ quoted' = TRUE
  /\ UNCHANGED <<card, deliveredAt, itemVars, invoice, tx, audit>>

\* The invoice service issues in any state of the card, once.
IssueInvoice ==
  /\ invoice = "none" /\ invoice' = "owed"
  /\ UNCHANGED <<card, deliveredAt, itemVars, quoted, tx, audit>>

\* The payment service writes what the invoice has been paid; a second payment's
\* figure may undo the first's.
SettleInvoice ==
  /\ invoice # "none" /\ invoice' \in {"owed", "settled"}
  /\ UNCHANGED <<card, deliveredAt, itemVars, quoted, tx, audit>>

Next ==
  \/ \E p \in Procs, ev \in CardEvent : ReadCard(p, ev) \/ RefuseCard(p, ev)
  \/ \E p \in Procs : CommitCard(p) \/ RollBackCard(p)
  \/ \E i \in Items, ev \in ItemEvent : ItemTransition(i, ev)
  \/ AcceptEstimate \/ IssueInvoice \/ SettleInvoice

Spec == Init /\ [][Next]_vars
-----------------------------------------------------------------------------
(* Properties. *)

TypeOK ==
  /\ card \in CardState
  /\ deliveredAt \in BOOLEAN
  /\ item \in [Items -> ItemState]
  /\ approvedAt \subseteq Items
  /\ ledger \in [Items -> {"none", "DECLINED", "DEFERRED"}]
  /\ quoted \in BOOLEAN
  /\ invoice \in {"none", "owed", "settled"}
  /\ tx \in [Procs -> [to : CardState, event : CardEvent] \cup {NoTx}]
  /\ audit \in [change : CardEvent \cup {"none", "rejected"}, to : CardState]

\* The audit chain tells the card's story without a gap: two callers that race
\* on a card never record an edge from a state it had already left.
AuditIsContinuous ==
  [][/\ card' # card => <<card, audit'.change, card'>> \in CardEdges
     /\ audit'.to = card']_vars

\* A vehicle that has left is never on a cancelled card, nor on one that waits
\* for anything but its closing (shops that collect payment before delivery).
DeliveredStaysDelivered == deliveredAt => card \in {"DELIVERED", "CLOSED"}

\* The card never waits for payment while required work awaits approval,
\* although the guard reads the items without locking them.
NoUnapprovedBill == card = "AWAITING_PAYMENT" => UnapprovedRequired = {}

\* The ledger that follow-ups re-pitch from holds exactly the work the customer
\* declined or deferred, as the customer last said it.
LedgerIsTheDecision ==
  \A i \in Items : ledger[i] = IF item[i] \in {"DECLINED", "DEFERRED"} THEN item[i] ELSE "none"

\* Work is started, and done, only on items somebody approved.
WorkWasApproved == \A i \in Items : item[i] \in {"APPROVED", "IN_PROGRESS", "DONE"} => i \in approvedAt

\* The card, its items, the ledger and the bill agree, where payment comes first.
CardIsSound ==
  TypeOK /\ DeliveredStaysDelivered /\ NoUnapprovedBill /\ LedgerIsTheDecision /\ WorkWasApproved
=============================================================================
