------------------------------ MODULE Billing ------------------------------
(***************************************************************************)
(* Collecting the money for one card: payment links, the provider's        *)
(* webhooks, money taken at the counter, the invoice, and the settlement   *)
(* that moves the card (PaymentService, with InvoiceService.issue).        *)
(*                                                                         *)
(* createLink is three transactions around a call to the provider;         *)
(* reconcile is one transaction for the ledger, then settleCard, which     *)
(* reads the card without a lock and sends it one or two events, each a    *)
(* transaction of its own.  The card's table and guards are JobCard's.     *)
(* The messages both send are left to the outbound gate.                   *)
(***************************************************************************)
EXTENDS Integers, FiniteSets, FiniteSetsExt

CONSTANTS
  MaxLinks,       \* calls of createLink, each with the payment row it may insert
  Total,          \* what the visit costs, on the estimate and on the invoice
  LinkAmounts,    \* what a link may be asked for: Total unless the caller names an amount
  AcceptPartial,  \* the shop's payments.acceptPartialPayment
  MaxManual,      \* bound: payments recorded at the counter
  CollectFirst,   \* the shop's payments.paymentBeforeDelivery
  StartState,     \* the card's state when billing begins, its work being done
  StaffEvents,    \* events the staff send to the card
  MayCrash        \* whether the process may die after the ledger's commit

VARIABLES
  jobCard,   \* job_cards.state
  bill,      \* [status, paid]: the card's invoice; status none before it exists
  linkCall,  \* linkCall[l]: how far createLink has come: idle, prepared, inserted, live, failed
  pay,       \* pay[l]: the payments row [status, amount, paid, billed]; billed: invoice_id is set
  taken,     \* taken[l]: what the customer has paid through the link
  ended,     \* links the provider no longer collects on
  sent,      \* provider events and counter records, each deliverable again and again
  seen,      \* those in payment_events
  settling   \* running settleCard calls [event, todo]

billingVars == <<jobCard, bill, linkCall, pay, taken, ended, sent, seen, settling>>

ASSUME BillingAssumption ==
  /\ MaxLinks \in Nat /\ MaxManual \in Nat /\ Total \in Nat \ {0}
  /\ LinkAmounts \subseteq Nat \ {0}
  /\ AcceptPartial \in BOOLEAN /\ CollectFirst \in BOOLEAN /\ MayCrash \in BOOLEAN

Links == 1..MaxLinks

PaymentStatus == {"PENDING", "PARTIALLY_PAID", "PAID", "FAILED", "EXPIRED", "CANCELLED"}
-----------------------------------------------------------------------------
(* The card, its work done. *)

InvoiceState ==
  IF bill.status = "none" THEN "none" ELSE IF bill.paid >= Total THEN "settled" ELSE "owed"

Work == {"work"}

JC == INSTANCE JobCard WITH
        Items <- Work, Required <- {}, Procs <- {}, PaymentFirst <- CollectFirst,
        card <- jobCard, deliveredAt <- jobCard \in {"DELIVERED", "CLOSED"},
        item <- [i \in Work |-> "DONE"], approvedAt <- Work, ledger <- [i \in Work |-> "none"],
        quoted <- TRUE, invoice <- InvoiceState,
        tx <- [p \in {} |-> "none"], audit <- "none"

Legal(ev) == JC!Guard(jobCard, ev) /\ \E t \in JC!CardState : <<jobCard, ev, t>> \in JC!CardEdges

\* One transition of the card, atomic here: JobCard shows what its lock gives.
MoveCard(ev) ==
  /\ JC!Guard(jobCard, ev)
  /\ \E t \in JC!CardState : <<jobCard, ev, t>> \in JC!CardEdges /\ jobCard' = t
-----------------------------------------------------------------------------
(* createLink.  Later calls read the clock later, so the newest row is the   *)
(* one with the greatest number.                                             *)

Rows == {l \in Links : linkCall[l] \in {"inserted", "live", "failed"}}

Newest(S) == {l \in S : \A k \in S : k <= l}

\* findOpenForCard
OpenForCard == Newest({l \in Rows : pay[l].status \notin {"CANCELLED", "EXPIRED"}})

Reusable == {l \in OpenForCard : linkCall[l] = "live"}

BillingInit ==
  /\ jobCard = StartState
  /\ bill = [status |-> "none", paid |-> 0]
  /\ linkCall = [l \in Links |-> "idle"]
  /\ pay = [l \in Links |-> [status |-> "PENDING", amount |-> 0, paid |-> 0, billed |-> FALSE]]
  /\ taken = [l \in Links |-> 0]
  /\ ended = {}
  /\ sent = {}
  /\ seen = {}
  /\ settling = {}

\* A call that finds a link to reuse changes nothing, whatever amount it names;
\* this one does not find one.
PrepareLink(l, amount) ==
  /\ linkCall[l] = "idle" /\ \A k \in 1..(l - 1) : linkCall[k] # "idle"
  /\ Reusable = {}
  /\ linkCall' = [linkCall EXCEPT ![l] = "prepared"]
  /\ pay' = [pay EXCEPT ![l] = [status |-> "PENDING", amount |-> amount, paid |-> 0,
                                billed |-> bill.status # "none"]]
  /\ UNCHANGED <<jobCard, bill, taken, ended, sent, seen, settling>>

InsertPayment(l) ==
  /\ linkCall[l] = "prepared"
  /\ linkCall' = [linkCall EXCEPT ![l] = "inserted"]
  /\ UNCHANGED <<jobCard, bill, pay, taken, ended, sent, seen, settling>>

\* The provider has answered; the link is attached and sent to the customer.
AttachLink(l) ==
  /\ linkCall[l] = "inserted"
  /\ linkCall' = [linkCall EXCEPT ![l] = "live"]
  /\ UNCHANGED <<jobCard, bill, pay, taken, ended, sent, seen, settling>>

\* The provider's call fails, or its answer is lost: the row keeps no link.
LoseLink(l) ==
  /\ linkCall[l] = "inserted"
  /\ linkCall' = [linkCall EXCEPT ![l] = "failed"]
  /\ UNCHANGED <<jobCard, bill, pay, taken, ended, sent, seen, settling>>

\* InvoiceService.issue: the unique index on the card allows it once.
IssueBill ==
  /\ bill.status = "none"
  /\ bill' = [status |-> "ISSUED", paid |-> 0]
  /\ UNCHANGED <<jobCard, linkCall, pay, taken, ended, sent, seen, settling>>
-----------------------------------------------------------------------------
(* The provider and the counter. *)

Event(l, kind, amount, nr) == [link |-> l, kind |-> kind, amount |-> amount, nr |-> nr]

Collecting(l) == linkCall[l] = "live" /\ l \notin ended /\ taken[l] < pay[l].amount

\* The customer pays an instalment, or what is left of the link's amount.
CustomerPays(l, a) ==
  LET all == taken[l] + a = pay[l].amount IN
  /\ Collecting(l) /\ taken[l] + a <= pay[l].amount
  /\ AcceptPartial \/ all
  /\ taken' = [taken EXCEPT ![l] = taken[l] + a]
  /\ sent' = sent \cup {Event(l, IF all THEN "PAID" ELSE "PARTIALLY_PAID", a, taken[l])}
  /\ UNCHANGED <<jobCard, bill, linkCall, pay, ended, seen, settling>>

\* The link expires, or is cancelled at the provider.
LinkEnds(l, kind) ==
  /\ Collecting(l)
  /\ ended' = ended \cup {l}
  /\ sent' = sent \cup {Event(l, kind, 0, 0)}
  /\ UNCHANGED <<jobCard, bill, linkCall, pay, taken, seen, settling>>

Manual == {e \in sent : e.kind = "MANUAL_RECORD"}

\* recordManualPayment: a fresh event id, under a payment that has a link.
CounterPayment(l, a) ==
  /\ linkCall[l] = "live" /\ Cardinality(Manual) < MaxManual
  /\ sent' = sent \cup {Event(l, "MANUAL_RECORD", a, Cardinality(Manual))}
  /\ UNCHANGED <<jobCard, bill, linkCall, pay, taken, ended, seen, settling>>
-----------------------------------------------------------------------------
(* reconcile and settleCard. *)

\* Mutant: the provider's label is taken at face value.
NextStatusByLabel(kind, paid, amount) ==
  IF kind \notin {"EXPIRED", "CANCELLED"} /\ paid >= amount THEN "PAID" ELSE kind

\* nextStatus, for the kinds the adapters send: against what the link asked for.
NextStatus(kind, paid, amount) ==
  CASE kind \in {"EXPIRED", "CANCELLED"} -> IF paid > 0 THEN "PARTIALLY_PAID" ELSE kind
    [] kind \in {"PAID", "PARTIALLY_PAID", "MANUAL_RECORD"} ->
         IF paid >= amount THEN "PAID" ELSE IF paid > 0 THEN "PARTIALLY_PAID" ELSE "PENDING"

\* Mutant: an event is applied whenever it is delivered.
UnseenAll == sent

\* appendEvent: an event already in payment_events is not applied again.
Unseen == sent \ seen

\* Mutant: any money settles the invoice and the card.
SettlesPartial(status) == status \in {"PAID", "PARTIALLY_PAID"}

Settles(status) == status = "PAID"

\* The ledger's transaction, under the payment's row lock: the event, the
\* payment and its invoice together.
Reconcile(e) ==
  LET l == e.link
      paid == pay[l].paid + e.amount
      status == NextStatus(e.kind, paid, pay[l].amount)
  IN
  /\ e \in Unseen
  /\ seen' = seen \cup {e}
  /\ pay' = [pay EXCEPT ![l].status = status, ![l].paid = paid]
  /\ bill' = IF pay[l].billed
                  THEN [status |-> IF Settles(status) THEN "PAID" ELSE "ISSUED", paid |-> paid]
                  ELSE bill
  /\ settling' = IF Settles(status) THEN settling \cup {[event |-> e, todo |-> "load"]}
                                    ELSE settling
  /\ UNCHANGED <<jobCard, linkCall, taken, ended, sent>>

\* The first event for a card in state s, and the one that follows it.
FirstEvent(s) ==
  CASE s = "READY_FOR_DELIVERY" -> "PAYMENT_REQUESTED"
    [] s = "AWAITING_PAYMENT"   -> "PAYMENT_SETTLED"
    [] OTHER                    -> "none"

\* Mutant: a card that was merely ready is asked for the money, and left there.
EventAfterStops(ev) == "none"

EventAfter(ev) == IF ev = "PAYMENT_REQUESTED" THEN "PAYMENT_SETTLED" ELSE "none"

Proceed(c, ev) == (settling \ {c}) \cup IF ev = "none" THEN {} ELSE {[event |-> c.event, todo |-> ev]}

\* settleCard reads the card in a transaction of its own.
LoadCard(c) ==
  /\ c.todo = "load"
  /\ settling' = Proceed(c, FirstEvent(jobCard))
  /\ UNCHANGED <<jobCard, bill, linkCall, pay, taken, ended, sent, seen>>

\* The next event; an illegal one ends the call.
SettleStep(c) ==
  /\ c.todo # "load"
  /\ \/ MoveCard(c.todo) /\ settling' = Proceed(c, EventAfter(c.todo))
     \/ ~Legal(c.todo) /\ settling' = settling \ {c} /\ UNCHANGED jobCard
  /\ UNCHANGED <<bill, linkCall, pay, taken, ended, sent, seen>>

\* The process dies, or a statement fails: the ledger stays committed, and the
\* provider has or will be told 200.
AbandonSettlement(c) ==
  /\ MayCrash
  /\ settling' = settling \ {c}
  /\ UNCHANGED <<jobCard, bill, linkCall, pay, taken, ended, sent, seen>>

StaffEvent(ev) == MoveCard(ev) /\ UNCHANGED <<bill, linkCall, pay, taken, ended, sent, seen, settling>>

BillingNext ==
  \/ \E l \in Links, amount \in LinkAmounts : PrepareLink(l, amount)
  \/ \E l \in Links : InsertPayment(l) \/ AttachLink(l) \/ LoseLink(l)
  \/ \E l \in Links : \E a \in 1..pay[l].amount : CustomerPays(l, a)
  \/ \E l \in Links, a \in 1..Total : CounterPayment(l, a)
  \/ \E l \in Links, kind \in {"EXPIRED", "CANCELLED"} : LinkEnds(l, kind)
  \/ IssueBill
  \/ \E e \in sent : Reconcile(e)
  \/ \E c \in settling : LoadCard(c) \/ SettleStep(c) \/ AbandonSettlement(c)
  \/ \E ev \in StaffEvents : StaffEvent(ev)

BillingSpec == BillingInit /\ [][BillingNext]_billingVars

\* The provider redelivers until it is answered, and a running call goes on.
Fairness ==
  /\ WF_billingVars(\E e \in sent : Reconcile(e))
  /\ WF_billingVars(\E c \in settling : LoadCard(c) \/ SettleStep(c))
-----------------------------------------------------------------------------
(* Properties. *)

BillingTypeOK ==
  /\ jobCard \in JC!CardState
  /\ bill \in [status : {"none", "ISSUED", "PAID"}, paid : Nat]
  /\ linkCall \in [Links -> {"idle", "prepared", "inserted", "live", "failed"}]
  /\ pay \in [Links -> [status : PaymentStatus, amount : Nat, paid : Nat, billed : BOOLEAN]]
  /\ taken \in [Links -> Nat]
  /\ ended \subseteq Links
  /\ seen \subseteq sent
  /\ \A e \in sent : /\ e.link \in Links /\ e.amount \in Nat
                     /\ e.kind \in {"PAID", "PARTIALLY_PAID", "EXPIRED", "CANCELLED", "MANUAL_RECORD"}
  /\ \A c \in settling :
       c.event \in seen /\ c.todo \in {"load", "PAYMENT_REQUESTED", "PAYMENT_SETTLED"}

\* Whatever is delivered again or out of order, a payment's ledger is the sum
\* of the distinct events applied to it: money is credited once.
MoneyCreditedOnce ==
  \A l \in Links : pay[l].paid = MapThenSumSet(LAMBDA e : e.amount, {e \in seen : e.link = l})

\* What the payment's own link asked for has come in.
PaidUp(l) == l \in Rows /\ pay[l].paid >= pay[l].amount

\* A payment is only called paid once its own amount is in, in whatever order
\* the provider's labels arrived.
PaidInFull == \A l \in Links : pay[l].status = "PAID" => PaidUp(l)

\* An invoice marked paid has a payment made out against it whose own amount is
\* in: the visit's total, unless the link was asked for another.
InvoicePaidIsReal == bill.status = "PAID" => \E l \in Links : pay[l].billed /\ PaidUp(l)

\* "Paid", on a payment or an invoice, means money that has come in.
PaidIsReal == BillingTypeOK /\ PaidInFull /\ InvoicePaidIsReal

\* A shop that collects first only lets a car go once some payment holds what its
\* link asked for, or the whole of the visit's total, though webhooks, staff and
\* several links race (staff leaving PAYMENT_SETTLED to the payment service).
HandedOverPaid ==
  [][jobCard # "DELIVERED" /\ jobCard' = "DELIVERED" =>
       \E l \in Links : PaidUp(l) \/ pay[l].paid >= Total]_billingVars

\* Money that has arrived in full moves a ready card on, if nobody interferes.
MoneyMovesTheCard ==
  (\E l \in Rows : taken[l] = pay[l].amount) ~> jobCard \notin {"READY_FOR_DELIVERY", "AWAITING_PAYMENT"}
=============================================================================
