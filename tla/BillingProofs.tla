--------------------------- MODULE BillingProofs ---------------------------
(***************************************************************************)
(* How a visit ends: the money (Billing), the passes of the same card      *)
(* (GatePass) and the pickup (Delivery).  For every number of links and    *)
(* counter payments, every total, and every interleaving of webhooks,      *)
(* staff, taps and workers.                                                *)
(***************************************************************************)
EXTENDS GatePass, Delivery, FiniteSetTheorems, WellFoundedInduction, TLAPS

\* Money only comes from links that were attached, and a row not yet prepared
\* has none; the invoice never claims more than one of its payments holds.
Backed ==
  /\ \A l \in Links : linkCall[l] \in {"idle", "prepared"} => pay[l].paid = 0
  /\ \A e \in sent : linkCall[e.link] = "live"
  /\ settling # {} => \E l \in Links : PaidUp(l)
  /\ bill.paid > 0 => \E l \in Links : pay[l].billed /\ pay[l].paid >= bill.paid
  /\ InvoicePaidIsReal

IInv == BillingTypeOK /\ PaidInFull /\ Backed

USE BillingAssumption

LEMMA InitInv == ASSUME StartState \in JC!CardState PROVE BillingInit => IInv
  BY DEF BillingInit, IInv, BillingTypeOK, PaidInFull, Backed, InvoicePaidIsReal, PaymentStatus

\* What is left alone when neither the ledger nor the events are touched.
LEMMA Frame ==
  ASSUME IInv, UNCHANGED <<bill, linkCall, pay, taken, ended, sent, seen, settling>>,
         jobCard' \in JC!CardState
  PROVE  IInv'
  BY DEF IInv, BillingTypeOK, PaidInFull, Backed, InvoicePaidIsReal, PaidUp, Rows, JC!CardState

\* Of a payment that is paid up and left alone, or added to.
LEMMA PaidUpStays ==
  ASSUME IInv, NEW l \in Links, pay'[l].amount = pay[l].amount, pay'[l].paid \in Nat,
         pay'[l].paid >= pay[l].paid, linkCall[l] \in {"inserted", "live", "failed"} =>
           linkCall'[l] \in {"inserted", "live", "failed"}
  PROVE  PaidUp(l) => PaidUp(l)'
<1>1. pay[l].paid \in Nat /\ pay[l].amount \in Nat BY DEF IInv, BillingTypeOK
<1>2. QED BY <1>1 DEF PaidUp, Rows

\* createLink touches only the caller's own row.
LEMMA PrepareInv ==
  ASSUME IInv, NEW l \in Links, NEW amount \in LinkAmounts, PrepareLink(l, amount)
  PROVE  IInv'
<1> DEFINE row == [status |-> "PENDING", amount |-> amount, paid |-> 0, billed |-> bill.status # "none"]
<1>1. /\ pay' = [pay EXCEPT ![l] = row] /\ linkCall' = [linkCall EXCEPT ![l] = "prepared"]
      /\ linkCall[l] = "idle" /\ UNCHANGED <<jobCard, bill, taken, ended, sent, seen, settling>>
  BY DEF PrepareLink
<1>2. row \in [status : PaymentStatus, amount : Nat, paid : Nat, billed : BOOLEAN]
      /\ row.paid = 0 /\ row.status = "PENDING"
  BY DEF PaymentStatus
<1> HIDE DEF row
<1>3. /\ \A k \in Links : k # l => pay'[k] = pay[k] /\ linkCall'[k] = linkCall[k]
      /\ pay'[l] = row /\ linkCall'[l] = "prepared" /\ pay[l].paid = 0
  BY <1>1 DEF IInv, BillingTypeOK, Backed
<1>4. BillingTypeOK' BY <1>1, <1>2 DEF IInv, BillingTypeOK, JC!CardState
<1>5. \A k \in Links : PaidUp(k) => k # l /\ PaidUp(k)'
  <2>1. \A k \in Links : PaidUp(k) => k # l BY <1>1 DEF PaidUp, Rows
  <2>2. QED BY <1>3, <2>1 DEF PaidUp, Rows
<1>6. PaidInFull' BY <1>2, <1>3, <1>5 DEF IInv, PaidInFull
<1>7. Backed'
  <2>1. \A e \in sent' : linkCall'[e.link] = "live"
    BY <1>1, <1>3 DEF IInv, BillingTypeOK, Backed
  <2>2. settling' # {} => \E k \in Links : PaidUp(k)' BY <1>1, <1>5 DEF IInv, Backed
  <2>3. bill'.paid > 0 => \E k \in Links : pay'[k].billed /\ pay'[k].paid >= bill'.paid
    BY <1>1, <1>3 DEF IInv, BillingTypeOK, Backed
  <2>4. \A k \in Links : linkCall'[k] \in {"idle", "prepared"} => pay'[k].paid = 0
    BY <1>2, <1>3 DEF IInv, Backed
  <2>5. InvoicePaidIsReal' BY <1>1, <1>3, <1>5 DEF IInv, Backed, InvoicePaidIsReal
  <2>6. QED BY <2>1, <2>2, <2>3, <2>4, <2>5 DEF Backed
<1>8. QED BY <1>4, <1>6, <1>7 DEF IInv

LEMMA LinkMoves ==
  ASSUME IInv, NEW l \in Links, InsertPayment(l) \/ AttachLink(l) \/ LoseLink(l)
  PROVE  IInv'
<1>1. /\ UNCHANGED <<jobCard, bill, pay, taken, ended, sent, seen, settling>>
      /\ linkCall' \in [Links -> {"idle", "prepared", "inserted", "live", "failed"}]
      /\ \A k \in Links : /\ linkCall[k] \in {"inserted", "live", "failed"} =>
                               linkCall'[k] \in {"inserted", "live", "failed"}
                          /\ linkCall[k] = "live" => linkCall'[k] = "live"
                          /\ linkCall'[k] \in {"idle", "prepared"} => linkCall[k] \in {"idle", "prepared"}
  BY DEF InsertPayment, AttachLink, LoseLink, IInv, BillingTypeOK
<1>2. \A k \in Links : PaidUp(k) => PaidUp(k)' BY <1>1 DEF PaidUp, Rows
<1>3. BillingTypeOK' BY <1>1 DEF IInv, BillingTypeOK, JC!CardState
<1>4. PaidInFull' BY <1>1, <1>2 DEF IInv, PaidInFull
<1>5. InvoicePaidIsReal' BY <1>1, <1>2 DEF IInv, Backed, InvoicePaidIsReal
<1>6. Backed' BY <1>1, <1>2, <1>5 DEF IInv, BillingTypeOK, Backed
<1>7. QED BY <1>3, <1>4, <1>6 DEF IInv

\* The provider and the counter only add events of live links.
LEMMA ProviderInv ==
  ASSUME IInv, NEW l \in Links, NEW a \in Nat, NEW kind \in {"EXPIRED", "CANCELLED"},
         CustomerPays(l, a) \/ CounterPayment(l, a) \/ LinkEnds(l, kind)
  PROVE  IInv'
<1>1. /\ UNCHANGED <<jobCard, bill, linkCall, pay, seen, settling>>
      /\ taken' \in [Links -> Nat] /\ ended' \subseteq Links
      /\ \E e : /\ sent' = sent \cup {e} /\ e.link \in Links /\ e.amount \in Nat
                /\ e.kind \in {"PAID", "PARTIALLY_PAID", "EXPIRED", "CANCELLED", "MANUAL_RECORD"}
                /\ linkCall[e.link] = "live"
  <2> DEFINE Is(e) == /\ sent' = sent \cup {e} /\ e.link \in Links /\ e.amount \in Nat
                      /\ e.kind \in {"PAID", "PARTIALLY_PAID", "EXPIRED", "CANCELLED", "MANUAL_RECORD"}
                      /\ linkCall[e.link] = "live"
  <2>1. CASE CustomerPays(l, a)
    <3> DEFINE kind2 == IF taken[l] + a = pay[l].amount THEN "PAID" ELSE "PARTIALLY_PAID"
    <3>1. Is(Event(l, kind2, a, taken[l])) BY <2>1 DEF CustomerPays, Collecting, Event
    <3>2. taken' \in [Links -> Nat] BY <2>1 DEF CustomerPays, IInv, BillingTypeOK
    <3>3. /\ UNCHANGED <<jobCard, bill, linkCall, pay, seen, settling>>
          /\ ended' \subseteq Links
      BY <2>1 DEF CustomerPays, IInv, BillingTypeOK
    <3>4. QED BY <3>1, <3>2, <3>3
  <2>2. CASE CounterPayment(l, a)
    <3>1. Is(Event(l, "MANUAL_RECORD", a, Cardinality(Manual))) BY <2>2 DEF CounterPayment, Event
    <3>2. QED BY <2>2, <3>1 DEF CounterPayment, IInv, BillingTypeOK
  <2>3. CASE LinkEnds(l, kind)
    <3>1. Is(Event(l, kind, 0, 0)) BY <2>3 DEF LinkEnds, Collecting, Event
    <3>2. QED BY <2>3, <3>1 DEF LinkEnds, IInv, BillingTypeOK
  <2>4. QED BY <2>1, <2>2, <2>3
<1>2. \A k \in Links : PaidUp(k) <=> PaidUp(k)' BY <1>1 DEF PaidUp, Rows
<1>3. BillingTypeOK' BY <1>1 DEF IInv, BillingTypeOK, JC!CardState
<1>4. PaidInFull' BY <1>1, <1>2 DEF IInv, PaidInFull
<1>5. InvoicePaidIsReal' BY <1>1, <1>2 DEF IInv, Backed, InvoicePaidIsReal
<1>6. Backed' BY <1>1, <1>2, <1>5 DEF IInv, Backed
<1>7. QED BY <1>3, <1>4, <1>6 DEF IInv

\* nextStatus goes by the amount the link asked for.
LEMMA NextStatusByAmount ==
  ASSUME NEW kind \in {"PAID", "PARTIALLY_PAID", "EXPIRED", "CANCELLED", "MANUAL_RECORD"},
         NEW paid \in Nat, NEW amount \in Nat
  PROVE  /\ NextStatus(kind, paid, amount) \in PaymentStatus
         /\ NextStatus(kind, paid, amount) = "PAID" => paid >= amount
  BY DEF NextStatus, PaymentStatus

\* The ledger's transaction: what a payment holds only grows.
LEMMA ReconcileInv ==
  ASSUME IInv, NEW e \in sent, Reconcile(e) PROVE IInv'
<1> DEFINE l == e.link
           paid == pay[l].paid + e.amount
           status == NextStatus(e.kind, paid, pay[l].amount)
<1>1. /\ l \in Links /\ e.amount \in Nat
      /\ pay[l] \in [status : PaymentStatus, amount : Nat, paid : Nat, billed : BOOLEAN]
      /\ e.kind \in {"PAID", "PARTIALLY_PAID", "EXPIRED", "CANCELLED", "MANUAL_RECORD"}
      /\ linkCall[l] = "live"
  BY DEF IInv, BillingTypeOK, Backed
<1>2. paid \in Nat /\ paid >= pay[l].paid BY <1>1
<1>3. status \in PaymentStatus /\ (status = "PAID" => paid >= pay[l].amount)
  BY <1>1, <1>2, NextStatusByAmount
<1>4. /\ pay' = [pay EXCEPT ![l].status = status, ![l].paid = paid]
      /\ seen' = seen \cup {e} /\ e \in sent
      /\ UNCHANGED <<jobCard, linkCall, taken, ended, sent>>
  BY DEF Reconcile, Unseen
<1>5. \A k \in Links : k # l => pay'[k] = pay[k] BY <1>4 DEF IInv, BillingTypeOK
<1>6. /\ pay'[l].status = status /\ pay'[l].paid = paid /\ pay'[l].amount = pay[l].amount
      /\ pay'[l].billed = pay[l].billed
      /\ pay' \in [Links -> [status : PaymentStatus, amount : Nat, paid : Nat, billed : BOOLEAN]]
  BY <1>1, <1>2, <1>3, <1>4 DEF IInv, BillingTypeOK
<1>7. \/ /\ pay[l].billed
         /\ bill' = [status |-> IF status = "PAID" THEN "PAID" ELSE "ISSUED", paid |-> paid]
      \/ ~pay[l].billed /\ bill' = bill
  BY DEF Reconcile, Settles
<1>8. \/ status = "PAID" /\ settling' = settling \cup {[event |-> e, todo |-> "load"]}
      \/ status # "PAID" /\ settling' = settling
  BY DEF Reconcile, Settles
<1> HIDE DEF status, paid, l
<1>9. \A k \in Links : /\ pay'[k].paid >= pay[k].paid /\ pay'[k].paid \in Nat /\ pay[k].paid \in Nat
                       /\ pay'[k].amount = pay[k].amount /\ pay'[k].billed = pay[k].billed
  <2> TAKE k \in Links
  <2>1. CASE k = l BY <1>1, <1>2, <1>6, <2>1
  <2>2. CASE k # l BY <1>5, <2>2 DEF IInv, BillingTypeOK
  <2>3. QED BY <2>1, <2>2
<1>10. \A k \in Links : PaidUp(k) => PaidUp(k)' BY <1>4, <1>9, PaidUpStays
<1>11. status = "PAID" => PaidUp(l)' BY <1>1, <1>3, <1>4, <1>6 DEF PaidUp, Rows
<1>12. BillingTypeOK'
  <2>1. bill' \in [status : {"none", "ISSUED", "PAID"}, paid : Nat]
    BY <1>2, <1>7 DEF IInv, BillingTypeOK
  <2>2. \A c \in settling' : c.event \in seen' /\
           c.todo \in {"load", "PAYMENT_REQUESTED", "PAYMENT_SETTLED"}
    BY <1>4, <1>8 DEF IInv, BillingTypeOK
  <2>3. QED BY <1>4, <1>6, <2>1, <2>2 DEF IInv, BillingTypeOK, JC!CardState
<1>13. PaidInFull'
  <2> SUFFICES ASSUME NEW k \in Links, pay'[k].status = "PAID" PROVE PaidUp(k)' BY DEF PaidInFull
  <2>1. CASE k = l BY <1>6, <1>11, <2>1
  <2>2. CASE k # l BY <1>5, <1>10, <2>2 DEF IInv, PaidInFull
  <2>3. QED BY <2>1, <2>2
<1>14. Backed'
  <2>1. \A k \in Links : linkCall'[k] \in {"idle", "prepared"} => pay'[k].paid = 0
    BY <1>1, <1>4, <1>5 DEF IInv, Backed
  <2>2. settling' # {} => \E k \in Links : PaidUp(k)'
    BY <1>1, <1>8, <1>10, <1>11 DEF IInv, Backed
  <2>3. bill'.paid > 0 => \E k \in Links : pay'[k].billed /\ pay'[k].paid >= bill'.paid
    <3>1. CASE pay[l].billed
      <4>1. bill'.paid = paid /\ pay'[l].paid = paid /\ pay'[l].billed BY <1>6, <1>7, <3>1
      <4>2. QED BY <1>1, <1>2, <4>1
    <3>2. CASE ~pay[l].billed
      <4>1. bill' = bill /\ bill.paid \in Nat BY <1>7, <3>2 DEF IInv, BillingTypeOK
      <4>2. SUFFICES ASSUME bill.paid > 0
                     PROVE  \E k \in Links : pay'[k].billed /\ pay'[k].paid >= bill.paid
        BY <4>1
      <4>3. PICK k \in Links : pay[k].billed /\ pay[k].paid >= bill.paid
        BY <4>2 DEF IInv, Backed
      <4>4. QED BY <1>9, <4>1, <4>3
    <3>3. QED BY <3>1, <3>2
  <2>4. InvoicePaidIsReal'
    <3> SUFFICES ASSUME bill'.status = "PAID" PROVE \E k \in Links : pay'[k].billed /\ PaidUp(k)'
      BY DEF InvoicePaidIsReal
    <3>1. CASE pay[l].billed
      <4>1. bill' = [status |-> IF status = "PAID" THEN "PAID" ELSE "ISSUED", paid |-> paid]
        BY <1>7, <3>1
      <4>2. status = "PAID" BY <4>1
      <4>3. pay'[l].billed /\ PaidUp(l)'
        <5>1. pay'[l].billed BY <1>6, <3>1
        <5>2. QED BY <1>11, <4>2, <5>1
      <4>4. QED BY <1>1, <4>3
    <3>2. CASE ~pay[l].billed BY <1>7, <1>9, <1>10, <3>2 DEF IInv, Backed, InvoicePaidIsReal
    <3>3. QED BY <3>1, <3>2
  <2>5. QED BY <1>4, <2>1, <2>2, <2>3, <2>4 DEF IInv, Backed
<1>15. QED BY <1>12, <1>13, <1>14 DEF IInv

LEMMA MoveCardType == ASSUME NEW ev, MoveCard(ev) PROVE jobCard' \in JC!CardState
  BY DEF MoveCard

\* A settlement call never outlives the payment it settles.
LEMMA SettleInv ==
  ASSUME IInv, NEW c \in settling, LoadCard(c) \/ SettleStep(c) \/ AbandonSettlement(c)
  PROVE  IInv'
<1>1. /\ UNCHANGED <<bill, linkCall, pay, taken, ended, sent, seen>>
      /\ \A d \in settling' : d.event \in seen
                              /\ d.todo \in {"load", "PAYMENT_REQUESTED", "PAYMENT_SETTLED"}
  <2>1. CASE LoadCard(c)
    BY <2>1 DEF LoadCard, Proceed, FirstEvent, IInv, BillingTypeOK
  <2>2. CASE SettleStep(c)
    BY <2>2 DEF SettleStep, Proceed, EventAfter, IInv, BillingTypeOK
  <2>3. CASE AbandonSettlement(c)
    BY <2>3 DEF AbandonSettlement, IInv, BillingTypeOK
  <2>4. QED BY <2>1, <2>2, <2>3
<1>2. jobCard' \in JC!CardState
  BY MoveCardType DEF LoadCard, SettleStep, AbandonSettlement, IInv, BillingTypeOK
<1>3. BillingTypeOK' BY <1>1, <1>2 DEF IInv, BillingTypeOK
<1>4. \E l \in Links : PaidUp(l) BY DEF IInv, Backed
<1>5. QED BY <1>1, <1>3, <1>4 DEF IInv, PaidInFull, Backed, InvoicePaidIsReal, PaidUp, Rows

LEMMA StepInv == ASSUME IInv, [BillingNext]_billingVars PROVE IInv'
<1>1. CASE \/ \E l \in Links, amount \in LinkAmounts : PrepareLink(l, amount)
           \/ \E l \in Links : InsertPayment(l) \/ AttachLink(l) \/ LoseLink(l)
  <2>1. ASSUME NEW l \in Links, InsertPayment(l) \/ AttachLink(l) \/ LoseLink(l) PROVE IInv'
    BY <2>1, LinkMoves
  <2>2. QED BY <1>1, <2>1, PrepareInv
<1>2. CASE \/ \E l \in Links : \E a \in 1..pay[l].amount : CustomerPays(l, a)
           \/ \E l \in Links, a \in 1..Total : CounterPayment(l, a)
  <2>1. \A l \in Links : \A a \in 1..pay[l].amount : a \in Nat OBVIOUS
  <2>2. \A a \in 1..Total : a \in Nat OBVIOUS
  <2>3. QED BY <1>2, <2>1, <2>2, ProviderInv
<1>3. CASE \E l \in Links, kind \in {"EXPIRED", "CANCELLED"} : LinkEnds(l, kind)
  BY <1>3, ProviderInv, 1 \in Nat
<1>4. CASE IssueBill
  BY <1>4 DEF IssueBill, IInv, BillingTypeOK, PaidInFull, Backed, InvoicePaidIsReal, PaidUp, Rows, JC!CardState
<1>5. CASE \E e \in sent : Reconcile(e) BY <1>5, ReconcileInv
<1>6. CASE \E c \in settling : LoadCard(c) \/ SettleStep(c) \/ AbandonSettlement(c)
  BY <1>6, SettleInv
<1>7. CASE \E ev \in StaffEvents : StaffEvent(ev)
  BY <1>7, MoveCardType, Frame DEF StaffEvent
<1>8. CASE UNCHANGED billingVars BY <1>8, Frame DEF billingVars, IInv, BillingTypeOK
<1>9. QED BY <1>1, <1>2, <1>3, <1>4, <1>5, <1>6, <1>7, <1>8 DEF BillingNext

LEMMA Invariance == ASSUME StartState \in JC!CardState PROVE BillingSpec => []IInv
  BY InitInv, StepInv, PTL DEF BillingSpec

\* The states the code can be in have the types of its tables.
THEOREM TypeCorrect == ASSUME StartState \in JC!CardState PROVE BillingSpec => []BillingTypeOK
<1>1. IInv => BillingTypeOK BY DEF IInv
<1>2. QED BY <1>1, Invariance, PTL

\* A payment called paid holds its amount, whatever the order of the labels.
THEOREM PaidCorrect == ASSUME StartState \in JC!CardState PROVE BillingSpec => []PaidInFull
<1>1. IInv => PaidInFull BY DEF IInv
<1>2. QED BY <1>1, Invariance, PTL

\* An invoice marked paid has a payment made out against it that holds what its
\* link asked for.
THEOREM InvoiceCorrect == ASSUME StartState \in JC!CardState PROVE BillingSpec => []InvoicePaidIsReal
<1>1. IInv => InvoicePaidIsReal BY DEF IInv, Backed
<1>2. QED BY <1>1, Invariance, PTL

\* The card enters DELIVERED by one of two events; a shop that collects first
\* guards the one and leaves the other to the payment service.
LEMMA DeliveredBy ==
  ASSUME NEW ev, MoveCard(ev), jobCard' = "DELIVERED", CollectFirst = TRUE, IInv,
         ev # "PAYMENT_SETTLED"
  PROVE  \E l \in Links : pay[l].paid >= Total
<1>1. ev = "VEHICLE_DELIVERED" BY DEF MoveCard, JC!CardEdges
<1>2. ~JC!Owes BY <1>1 DEF MoveCard, JC!Guard
<1>3. bill.status # "none" /\ bill.paid >= Total
  BY <1>2 DEF JC!Owes, InvoiceState, Work
<1>4. bill.paid \in Nat BY DEF IInv, BillingTypeOK
<1>5. PICK l \in Links : pay[l].paid >= bill.paid BY <1>3, <1>4 DEF IInv, Backed
<1>6. pay[l].paid \in Nat BY DEF IInv, BillingTypeOK
<1>7. QED BY <1>3, <1>4, <1>5, <1>6

\* In such a shop no car leaves before some payment holds what its link asked for,
\* or the whole total.
THEOREM Handover ==
  ASSUME StartState \in JC!CardState, CollectFirst = TRUE, "PAYMENT_SETTLED" \notin StaffEvents
  PROVE  BillingSpec => HandedOverPaid
<1> DEFINE Covered == jobCard # "DELIVERED" /\ jobCard' = "DELIVERED" => \E l \in Links : PaidUp(l) \/ pay[l].paid >= Total
<1>1. ASSUME IInv, [BillingNext]_billingVars PROVE [Covered]_billingVars
  <2>1. SUFFICES ASSUME jobCard # "DELIVERED", jobCard' = "DELIVERED"
                 PROVE  \E l \in Links : PaidUp(l) \/ pay[l].paid >= Total
    OBVIOUS
  <2>2. CASE \E c \in settling : SettleStep(c) BY <1>1, <2>2 DEF IInv, Backed
  <2>3. CASE \E ev \in StaffEvents : StaffEvent(ev) BY <1>1, <2>1, <2>3, DeliveredBy DEF StaffEvent
  <2>4. QED
    BY <1>1, <2>1, <2>2, <2>3
    DEF BillingNext, billingVars, PrepareLink, InsertPayment, AttachLink, LoseLink, CustomerPays, CounterPayment,
        LinkEnds, IssueBill, Reconcile, LoadCard, AbandonSettlement
<1>2. QED BY <1>1, Invariance, PTL DEF BillingSpec, HandedOverPaid

\* Of payments and invoices alike, "paid" means money that has come in.
THEOREM PaidIsMoney == ASSUME StartState \in JC!CardState PROVE BillingSpec => []PaidIsReal
<1>1. BillingTypeOK /\ PaidInFull /\ InvoicePaidIsReal => PaidIsReal
  BY DEF PaidIsReal
<1>2. QED BY <1>1, TypeCorrect, PaidCorrect, InvoiceCorrect, PTL
-----------------------------------------------------------------------------
(* The ledger is the sum of its events.  The fold that adds them up is a      *)
(* recursive function; what it needs of it is that it exists, that it does    *)
(* not depend on the set it was defined over, and that any member may be      *)
(* taken out first.  Each is an induction over the size of a set, written as  *)
(* the absence of a smallest counterexample.                                  *)

AmountOf(S) == MapThenSumSet(LAMBDA e : e.amount, S)

Pick(s) == CHOOSE x \in s : TRUE

SumStep(g, s) == IF s = {} THEN 0 ELSE Pick(s).amount + g[s \ {Pick(s)}]

Sums(g, S) == g = [s \in SUBSET S |-> SumStep(g, s)]

LEMMA SumIsRecursive == ASSUME NEW S PROVE AmountOf(S) = (CHOOSE g : Sums(g, S))[S]
BY DEF AmountOf, MapThenSumSet, MapThenFoldSet, Sums, SumStep, Pick

LEMMA Smallest ==
  ASSUME NEW T, T \subseteq Nat, T # {} PROVE \E n \in T : \A m \in T : n <= m
<1>1. PICK x \in T : \A y \in T : ~ (<<y, x>> \in OpToRel(<, Nat))
  BY NatLessThanWellFounded, WFMin
<1>2. \A y \in T : ~ (y < x)
  BY <1>1 DEF OpToRel
<1> QED BY <1>2

\* The subsets of a finite set of at most n members, and the function on them.
Upto(n, S) == {s \in SUBSET S : Cardinality(s) <= n}
SumsUpto(g, n, S) == g = [s \in Upto(n, S) |-> SumStep(g, s)]

LEMMA PickIn == ASSUME NEW s, s # {} PROVE Pick(s) \in s
BY DEF Pick

LEMMA SumUptoExists ==
  ASSUME NEW S, IsFiniteSet(S), NEW n \in Nat PROVE \E g : SumsUpto(g, n, S)
<1> DEFINE T == {k \in Nat : ~ \E g : SumsUpto(g, k, S)}
<1>1. ASSUME T # {} PROVE FALSE
  <2>1. PICK k \in T : \A j \in T : k <= j
    <3>1. T \subseteq Nat OBVIOUS
    <3> HIDE DEF T
    <3> QED BY <1>1, <3>1, Smallest
  <2>2. k \in Nat /\ ~ \E g : SumsUpto(g, k, S) OBVIOUS
  <2>3. CASE k = 0
    <3>1. \A s \in Upto(0, S) : s = {}
      <4> SUFFICES ASSUME NEW s \in SUBSET S, Cardinality(s) <= 0 PROVE s = {}
        BY DEF Upto
      <4>1. IsFiniteSet(s) BY FS_Subset
      <4>2. Cardinality(s) \in Nat BY <4>1, FS_CardinalityType
      <4>3. Cardinality(s) = 0 BY <4>2
      <4> QED BY <4>1, <4>3, FS_EmptySet
    <3>2. SumsUpto([s \in Upto(0, S) |-> 0], 0, S) BY <3>1 DEF SumsUpto, SumStep
    <3> QED BY <2>2, <2>3, <3>2
  <2>4. CASE k > 0
    <3>1. k - 1 \in Nat /\ k - 1 \notin T BY <2>1, <2>2, <2>4
    <3>2. PICK h : SumsUpto(h, k - 1, S) BY <3>1
    <3> DEFINE g == [s \in Upto(k, S) |-> SumStep(h, s)]
    <3>3. \A s \in Upto(k, S) : s # {} => s \ {Pick(s)} \in Upto(k - 1, S)
      <4> SUFFICES ASSUME NEW s \in SUBSET S, Cardinality(s) <= k, s # {}
                   PROVE  s \ {Pick(s)} \in SUBSET S /\ Cardinality(s \ {Pick(s)}) <= k - 1
        BY DEF Upto
      <4>1. IsFiniteSet(s) BY FS_Subset
      <4>2. Cardinality(s) \in Nat BY <4>1, FS_CardinalityType
      <4>3. Cardinality(s \ {Pick(s)}) = Cardinality(s) - 1 BY <4>1, PickIn, FS_RemoveElement
      <4> QED BY <2>2, <4>2, <4>3
    <3>4. \A s \in Upto(k - 1, S) : s \in Upto(k, S)
      <4> SUFFICES ASSUME NEW s \in SUBSET S, Cardinality(s) <= k - 1 PROVE Cardinality(s) <= k
        BY DEF Upto
      <4>1. Cardinality(s) \in Nat BY FS_Subset, FS_CardinalityType
      <4> QED BY <2>2, <4>1
    <3>5. \A s \in Upto(k - 1, S) : g[s] = h[s]
      <4>1. \A s \in Upto(k - 1, S) : g[s] = SumStep(h, s) BY <3>4
      <4> HIDE DEF g
      <4>2. \A s \in Upto(k - 1, S) : h[s] = SumStep(h, s) BY <3>2 DEF SumsUpto
      <4> QED BY <4>1, <4>2
    <3>6. \A s \in Upto(k, S) : SumStep(g, s) = SumStep(h, s)
      <4> HIDE DEF g
      <4> QED BY <3>3, <3>5 DEF SumStep
    <3>7. SumsUpto(g, k, S) BY <3>6 DEF SumsUpto
    <3> HIDE DEF g
    <3> QED BY <2>2, <3>7
  <2> QED BY <2>2, <2>3, <2>4
<1> QED BY <1>1

LEMMA SumExists == ASSUME NEW S, IsFiniteSet(S) PROVE \E g : Sums(g, S)
<1>1. Cardinality(S) \in Nat BY FS_CardinalityType
<1>2. Upto(Cardinality(S), S) = SUBSET S
  <2>1. \A s \in SUBSET S : Cardinality(s) <= Cardinality(S) BY FS_Subset
  <2> QED BY <2>1 DEF Upto
<1>3. PICK g : SumsUpto(g, Cardinality(S), S) BY <1>1, SumUptoExists
<1> QED BY <1>2, <1>3 DEF SumsUpto, Sums

\* Two such functions agree where both are defined.
LEMMA SumsAgree ==
  ASSUME NEW R, NEW S, NEW g, NEW h, IsFiniteSet(S), R \subseteq S, Sums(g, R), Sums(h, S)
  PROVE  g[R] = h[R]
<1> DEFINE T == {Cardinality(s) : s \in {r \in SUBSET R : g[r] # h[r]}}
<1>1. \A s \in SUBSET R : IsFiniteSet(s) /\ Cardinality(s) \in Nat
  BY FS_Subset, FS_CardinalityType
<1>2. ASSUME T # {} PROVE FALSE
  <2>1. PICK n \in T : \A m \in T : n <= m
    <3>1. T \subseteq Nat BY <1>1
    <3> HIDE DEF T
    <3> QED BY <1>2, <3>1, Smallest
  <2>2. PICK s \in SUBSET R : g[s] # h[s] /\ n = Cardinality(s) OBVIOUS
  <2>3. g[s] = SumStep(g, s) /\ h[s] = SumStep(h, s) BY DEF Sums
  <2>4. s # {} BY <2>2, <2>3 DEF SumStep
  <2>5. s \ {Pick(s)} \in SUBSET R /\ Cardinality(s \ {Pick(s)}) = Cardinality(s) - 1
    BY <1>1, <2>4, PickIn, FS_RemoveElement
  <2>6. g[s \ {Pick(s)}] = h[s \ {Pick(s)}]
    <3>1. ASSUME Cardinality(s \ {Pick(s)}) \in T PROVE FALSE
      <4>1. n <= Cardinality(s \ {Pick(s)}) BY <2>1, <3>1
      <4>2. Cardinality(s) \in Nat BY <1>1
      <4> QED BY <2>2, <2>5, <4>1, <4>2
    <3> QED BY <2>5, <3>1
  <2> QED BY <2>2, <2>3, <2>4, <2>6 DEF SumStep
<1> QED BY <1>2

LEMMA SumOf ==
  ASSUME NEW R, NEW S, IsFiniteSet(S), R \subseteq S, NEW g, Sums(g, S) PROVE AmountOf(R) = g[R]
<1>1. IsFiniteSet(R) BY FS_Subset
<1>2. Sums(CHOOSE h : Sums(h, R), R) BY <1>1, SumExists
<1> QED BY <1>2, SumsAgree, SumIsRecursive

LEMMA SumsAreNat ==
  ASSUME NEW S, IsFiniteSet(S), \A e \in S : e.amount \in Nat, NEW g, Sums(g, S)
  PROVE  \A s \in SUBSET S : g[s] \in Nat
<1> DEFINE T == {Cardinality(s) : s \in {r \in SUBSET S : g[r] \notin Nat}}
<1>1. \A s \in SUBSET S : IsFiniteSet(s) /\ Cardinality(s) \in Nat
  BY FS_Subset, FS_CardinalityType
<1>2. ASSUME T # {} PROVE FALSE
  <2>1. PICK n \in T : \A m \in T : n <= m
    <3>1. T \subseteq Nat BY <1>1
    <3> HIDE DEF T
    <3> QED BY <1>2, <3>1, Smallest
  <2>2. PICK s \in SUBSET S : g[s] \notin Nat /\ n = Cardinality(s) OBVIOUS
  <2>3. g[s] = SumStep(g, s) BY DEF Sums
  <2>4. s # {} BY <2>2, <2>3 DEF SumStep
  <2>5. Pick(s) \in s BY <2>4, PickIn
  <2>6. s \ {Pick(s)} \in SUBSET S /\ Cardinality(s \ {Pick(s)}) = Cardinality(s) - 1
    BY <1>1, <2>5, FS_RemoveElement
  <2>7. g[s \ {Pick(s)}] \in Nat
    <3>1. ASSUME Cardinality(s \ {Pick(s)}) \in T PROVE FALSE
      <4>1. n <= Cardinality(s \ {Pick(s)}) BY <2>1, <3>1
      <4>2. Cardinality(s) \in Nat BY <1>1
      <4> QED BY <2>2, <2>6, <4>1, <4>2
    <3> QED BY <2>6, <3>1
  <2>8. Pick(s).amount \in Nat BY <2>5
  <2> QED BY <2>2, <2>3, <2>4, <2>7, <2>8 DEF SumStep
<1> QED BY <1>2

\* Any member may be taken out first.
LEMMA SumTakesAny ==
  ASSUME NEW S, IsFiniteSet(S), \A e \in S : e.amount \in Nat, NEW g, Sums(g, S)
  PROVE  \A s \in SUBSET S : \A x \in s : g[s] = x.amount + g[s \ {x}]
<1> DEFINE Off(s) == \E x \in s : g[s] # x.amount + g[s \ {x}]
           T == {Cardinality(s) : s \in {r \in SUBSET S : Off(r)}}
<1>1. \A s \in SUBSET S : IsFiniteSet(s) /\ Cardinality(s) \in Nat
  BY FS_Subset, FS_CardinalityType
<1>2. \A s \in SUBSET S : g[s] \in Nat BY SumsAreNat
<1>3. \A s \in SUBSET S : s # {} => g[s] = Pick(s).amount + g[s \ {Pick(s)}]
  BY DEF Sums, SumStep
<1>4. ASSUME T # {} PROVE FALSE
  <2>1. PICK n \in T : \A m \in T : n <= m
    <3>1. T \subseteq Nat BY <1>1
    <3> HIDE DEF T
    <3> QED BY <1>4, <3>1, Smallest
  <2>2. PICK s \in SUBSET S : Off(s) /\ n = Cardinality(s) OBVIOUS
  <2>3. PICK x \in s : g[s] # x.amount + g[s \ {x}] BY <2>2
  <2> DEFINE c == Pick(s)
  <2>4. c \in s /\ g[s] = c.amount + g[s \ {c}] BY <1>3, PickIn
  <2> HIDE DEF c
  <2>5. x # c BY <2>3, <2>4
  <2>6. \A y \in s : /\ s \ {y} \in SUBSET S
                    /\ \A z \in s \ {y} : g[s \ {y}] = z.amount + g[(s \ {y}) \ {z}]
    <3> SUFFICES ASSUME NEW y \in s
                 PROVE  s \ {y} \in SUBSET S /\ ~Off(s \ {y})
      OBVIOUS
    <3>1. Cardinality(s \ {y}) = Cardinality(s) - 1 BY <1>1, FS_RemoveElement
    <3>2. s \ {y} \in SUBSET S OBVIOUS
    <3>3. ASSUME Cardinality(s \ {y}) \in T PROVE FALSE
      <4>1. n <= Cardinality(s \ {y}) BY <2>1, <3>3
      <4>2. Cardinality(s) \in Nat BY <1>1
      <4> QED BY <2>2, <3>1, <4>1, <4>2
    <3> HIDE DEF Off
    <3> QED BY <3>2, <3>3
  <2>7. g[s \ {c}] = x.amount + g[(s \ {c}) \ {x}] BY <2>4, <2>5, <2>6
  <2>8. g[s \ {x}] = c.amount + g[(s \ {x}) \ {c}] BY <2>4, <2>5, <2>6
  <2>9. (s \ {c}) \ {x} = (s \ {x}) \ {c} OBVIOUS
  <2>10. x.amount \in Nat /\ c.amount \in Nat /\ g[(s \ {c}) \ {x}] \in Nat
    <3>1. (s \ {c}) \ {x} \in SUBSET S OBVIOUS
    <3> QED BY <1>2, <2>4, <3>1
  <2> DEFINE rest == g[(s \ {c}) \ {x}]
  <2>11. g[s] = c.amount + (x.amount + rest) /\ g[s \ {x}] = c.amount + rest
    BY <2>4, <2>7, <2>8, <2>9
  <2> HIDE DEF rest
  <2>12. rest \in Nat BY <2>10 DEF rest
  <2> QED BY <2>3, <2>10, <2>11, <2>12
<1> QED BY <1>4

\* The sum over no event, and over one event more.
LEMMA SumOfNone == AmountOf({}) = 0
<1>1. IsFiniteSet({}) BY FS_EmptySet
<1>2. PICK g : Sums(g, {}) BY <1>1, SumExists
<1>3. AmountOf({}) = g[{}] BY <1>1, <1>2, SumOf
<1> QED BY <1>2, <1>3 DEF Sums, SumStep

LEMMA SumOfOneMore ==
  ASSUME NEW S, IsFiniteSet(S), \A e \in S : e.amount \in Nat,
         NEW x, x \notin S, x.amount \in Nat
  PROVE  AmountOf(S \cup {x}) = AmountOf(S) + x.amount
<1>1. IsFiniteSet(S \cup {x}) BY FS_AddElement
<1>2. PICK g : Sums(g, S \cup {x}) BY <1>1, SumExists
<1>3. AmountOf(S \cup {x}) = g[S \cup {x}] /\ AmountOf(S) = g[S] BY <1>1, <1>2, SumOf
<1>4. \A e \in S \cup {x} : e.amount \in Nat OBVIOUS
<1>5. g[S \cup {x}] = x.amount + g[(S \cup {x}) \ {x}]
  <2>1. S \cup {x} \in SUBSET (S \cup {x}) /\ x \in S \cup {x} OBVIOUS
  <2> QED BY <1>1, <1>2, <1>4, <2>1, SumTakesAny
<1>6. (S \cup {x}) \ {x} = S OBVIOUS
<1>7. g[S] \in Nat BY <1>1, <1>2, <1>4, SumsAreNat
<1>8. g[S \cup {x}] = x.amount + g[S] BY <1>5, <1>6
<1>9. x.amount + g[S] = g[S] + x.amount BY <1>7
<1> QED BY <1>3, <1>8, <1>9

\* What has been applied is finite, and adds up.
Credited == IsFiniteSet(seen) /\ MoneyCreditedOnce

Of(l, E) == {e \in E : e.link = l}

LEMMA CreditedIsSum == MoneyCreditedOnce <=> \A l \in Links : pay[l].paid = AmountOf(Of(l, seen))
BY DEF MoneyCreditedOnce, AmountOf, Of

LEMMA CreditedIsSumNext ==
  MoneyCreditedOnce' <=> \A l \in Links : pay'[l].paid = AmountOf(Of(l, seen'))
BY DEF MoneyCreditedOnce, AmountOf, Of, MapThenSumSet, MapThenFoldSet

LEMMA CreditedInit == BillingInit => Credited
<1> SUFFICES ASSUME BillingInit PROVE Credited
  OBVIOUS
<1>1. seen = {} /\ \A l \in Links : pay[l].paid = 0 BY DEF BillingInit
<1>2. \A l \in Links : Of(l, seen) = {} BY <1>1 DEF Of
<1>3. IsFiniteSet(seen) BY <1>1, FS_EmptySet
<1> QED BY <1>1, <1>2, <1>3, SumOfNone, CreditedIsSum DEF Credited

\* A row is emptied before it exists only, and what a payment holds grows by the
\* amount of an event that had not been applied.
LEMMA CreditedStep == ASSUME IInv, Credited, [BillingNext]_billingVars PROVE Credited'
<1>0. \A l \in Links : pay[l].paid = AmountOf(Of(l, seen)) BY CreditedIsSum DEF Credited
<1>1. CASE seen' = seen /\ \A l \in Links : pay'[l].paid = pay[l].paid
  BY <1>0, <1>1, CreditedIsSumNext DEF Credited
<1>2. ASSUME NEW l \in Links, NEW amount \in LinkAmounts, PrepareLink(l, amount)
      PROVE  seen' = seen /\ \A k \in Links : pay'[k].paid = pay[k].paid
  <2>1. pay[l].paid = 0 BY <1>2 DEF PrepareLink, IInv, Backed
  <2> QED BY <1>2, <2>1 DEF PrepareLink, IInv, BillingTypeOK
<1>3. ASSUME NEW e \in sent, Reconcile(e) PROVE Credited'
  <2>1. /\ e \notin seen /\ seen' = seen \cup {e}
        /\ pay'[e.link].paid = pay[e.link].paid + e.amount
        /\ \A k \in Links : k # e.link => pay'[k] = pay[k]
        /\ e.link \in Links /\ e.amount \in Nat
    BY <1>3 DEF Reconcile, Unseen, IInv, BillingTypeOK
  <2>2. IsFiniteSet(seen) /\ IsFiniteSet(seen') BY <2>1, FS_AddElement DEF Credited
  <2>3. Of(e.link, seen') = Of(e.link, seen) \cup {e} /\ e \notin Of(e.link, seen)
        /\ \A k \in Links : k # e.link => Of(k, seen') = Of(k, seen)
    BY <2>1 DEF Of
  <2>4. IsFiniteSet(Of(e.link, seen)) BY <2>2, FS_Subset DEF Of
  <2>5. \A x \in Of(e.link, seen) : x.amount \in Nat BY DEF Of, IInv, BillingTypeOK
  <2>6. AmountOf(Of(e.link, seen) \cup {e}) = AmountOf(Of(e.link, seen)) + e.amount
    BY <2>1, <2>3, <2>4, <2>5, SumOfOneMore
  <2>7. \A k \in Links : pay'[k].paid = AmountOf(Of(k, seen')) BY <1>0, <2>1, <2>3, <2>6
  <2> QED BY <2>2, <2>7, CreditedIsSumNext DEF Credited
<1>4. CASE ~(\E l \in Links, amount \in LinkAmounts : PrepareLink(l, amount)) /\ ~(\E e \in sent : Reconcile(e))
  <2>1. UNCHANGED <<pay, seen>>
    BY <1>4 DEF BillingNext, billingVars, InsertPayment, AttachLink, LoseLink, CustomerPays, CounterPayment,
      LinkEnds, IssueBill, LoadCard, SettleStep, AbandonSettlement, StaffEvent
  <2> QED BY <1>1, <2>1
<1> QED BY <1>1, <1>2, <1>3, <1>4

\* Whatever is delivered again or out of order, a payment holds the sum of the
\* distinct events applied to it, for every number of links, payments and events.
THEOREM CreditedOnce == ASSUME StartState \in JC!CardState PROVE BillingSpec => []MoneyCreditedOnce
<1>1. BillingSpec => []Credited
  <2>1. ASSUME IInv, Credited, [BillingNext]_billingVars PROVE Credited'
    BY <2>1, CreditedStep
  <2> QED BY <2>1, CreditedInit, Invariance, PTL DEF BillingSpec
<1>2. Credited => MoneyCreditedOnce BY DEF Credited
<1> QED BY <1>1, <1>2, PTL
-----------------------------------------------------------------------------
(* The gate passes. *)

\* A call of issue has not inserted its row yet; a barrier that opened leaves a
\* row that is used up or revoked, and one used up has opened it.
GateInv ==
  /\ GateTypeOK /\ UsedWasOpened
  /\ \A p \in Passes : issue[p] # "idle" => pass[p] = "none" /\ opened[p] = 0
  /\ \A p \in Passes : pass[p] = "none" => opened[p] = 0
  /\ \A p \in Passes : opened[p] > 0 => pass[p] \in {"USED", "REVOKED"}
  /\ \A g \in Gates : gate[g] # NoScan => pass[gate[g].pass] # "none"

LEMMA GateInitInv == GateInit => GateInv
  BY DEF GateInit, GateInv, GateTypeOK, UsedWasOpened

LEMMA VerdictInResult == ASSUME NEW p \in Passes PROVE Verdict(p) \in Result
  BY DEF Verdict, Result

\* The scan in progress, by its parts.
LEMMA ScanInProgress ==
  ASSUME GateInv, NEW g \in Gates, gate[g] # NoScan
  PROVE  /\ gate[g].pass \in Passes /\ gate[g].verdict \in Result
         /\ pass[gate[g].pass] # "none"
  BY DEF GateInv, GateTypeOK

LEMMA GateStepInv == ASSUME GateInv, [GateNext]_gatePassVars PROVE GateInv'
<1>1. CASE UNCHANGED gateVars
  BY <1>1 DEF gateVars, GateInv, GateTypeOK, UsedWasOpened
<1>2. ASSUME NEW p \in Passes, NEW override \in BOOLEAN, CheckIssue(p, override) PROVE GateInv'
  BY <1>2 DEF CheckIssue, GateInv, GateTypeOK, UsedWasOpened
<1>3. ASSUME NEW p \in Passes, InsertPass(p) PROVE GateInv'
  BY <1>3 DEF InsertPass, GateInv, GateTypeOK, UsedWasOpened
<1>4. ASSUME NEW p \in Passes, Expire(p) PROVE GateInv'
  BY <1>4 DEF Expire, GateInv, GateTypeOK, UsedWasOpened
<1>5. ASSUME NEW p \in Passes, Revoke(p) PROVE GateInv'
  BY <1>5 DEF Revoke, GateInv, GateTypeOK, UsedWasOpened
<1>6. ASSUME NEW g \in Gates, NEW p \in Passes, Scan(g, p) PROVE GateInv'
  <2>1. Verdict(p) \in Result BY VerdictInResult
  <2>2. QED BY <1>6, <2>1 DEF Scan, GateInv, GateTypeOK, UsedWasOpened, NoScan
<1>7. ASSUME NEW g \in Gates, RecordScan(g) PROVE GateInv'
  <2> DEFINE p == gate[g].pass
  <2>1. p \in Passes /\ pass[p] # "none" BY <1>7, ScanInProgress DEF RecordScan
  <2>2. gate' = [gate EXCEPT ![g] = NoScan] /\ UNCHANGED <<issue, expired>> BY <1>7 DEF RecordScan
  <2>3. CASE gate[g].verdict = "VALID"
    <3>1. pass' = [pass EXCEPT ![p] = "USED"] /\ opened' = [opened EXCEPT ![p] = opened[p] + 1]
      BY <1>7, <2>3 DEF RecordScan, MarksUsed
    <3>2. QED BY <2>1, <2>2, <3>1 DEF GateInv, GateTypeOK, UsedWasOpened
  <2>4. CASE gate[g].verdict # "VALID"
    <3>1. pass' = pass /\ opened' = opened BY <1>7, <2>4 DEF RecordScan, MarksUsed
    <3>2. QED BY <2>1, <2>2, <3>1 DEF GateInv, GateTypeOK, UsedWasOpened
  <2>5. QED BY <2>3, <2>4
<1>8. QED BY <1>1, <1>2, <1>3, <1>4, <1>5, <1>6, <1>7 DEF GateNext, GateStep, gatePassVars

\* Only a pass that has opened nothing is judged good, so that the openings of a
\* pass are of screens that were reading it together.
LEMMA OpeningsStep ==
  ASSUME GateInv, OpensOncePerScan, [GateNext]_gatePassVars PROVE OpensOncePerScan'
<1>0. Cardinality(Gates) \in Nat BY GateAssumption, FS_CardinalityType
<1>1. \A p \in Passes : IsFiniteSet(Scanning(p)) /\ Cardinality(Scanning(p)) \in Nat
  BY GateAssumption, FS_Subset, FS_CardinalityType DEF Scanning
<1>2. CASE UNCHANGED <<gate, opened>>
  <2>1. \A p \in Passes : Scanning(p)' = Scanning(p) BY <1>2 DEF Scanning
  <2>2. \A p \in Passes : opened'[p] >= 1 => pass'[p] \in {"USED", "REVOKED"}
    BY GateStepInv DEF GateInv, GateTypeOK
  <2>3. QED BY <1>2, <2>1, <2>2 DEF OpensOncePerScan
<1>3. ASSUME NEW g \in Gates, NEW p \in Passes, Scan(g, p) PROVE OpensOncePerScan'
  <2>1. Verdict(p) = "VALID" => opened[p] = 0 BY DEF Verdict, GateInv, GateTypeOK
  <2>2. /\ gate[g] = NoScan /\ gate' = [gate EXCEPT ![g] = [pass |-> p, verdict |-> Verdict(p)]]
        /\ UNCHANGED <<pass, opened>>
    BY <1>3 DEF Scan
  <2>3. ASSUME NEW q \in Passes PROVE opened'[q] + Cardinality(Scanning(q)') <= Cardinality(Gates)
    <3>1. CASE q = p /\ Verdict(p) = "VALID"
      <4>1. Scanning(q)' \subseteq Gates BY DEF Scanning
      <4>2. Cardinality(Scanning(q)') <= Cardinality(Gates) /\ Cardinality(Scanning(q)') \in Nat
        BY <4>1, GateAssumption, FS_Subset, FS_CardinalityType
      <4>3. QED BY <1>0, <2>1, <2>2, <3>1, <4>2
    <3>2. CASE ~(q = p /\ Verdict(p) = "VALID")
      <4>1. Scanning(q)' = Scanning(q)
        BY <2>2, <3>2 DEF Scanning, NoScan, GateInv, GateTypeOK
      <4>2. QED BY <2>2, <4>1 DEF OpensOncePerScan
    <3>3. QED BY <3>1, <3>2
  <2>4. QED BY <2>2, <2>3 DEF OpensOncePerScan
<1>4. ASSUME NEW g \in Gates, RecordScan(g) PROVE OpensOncePerScan'
  <2> DEFINE p == gate[g].pass
  <2>1. p \in Passes /\ gate[g].verdict \in Result /\ gate[g] # NoScan
    BY <1>4, ScanInProgress DEF RecordScan
  <2>2. gate' = [gate EXCEPT ![g] = NoScan] BY <1>4 DEF RecordScan
  <2>3. \A q \in Passes : opened'[q] >= 1 => pass'[q] \in {"USED", "REVOKED"}
    BY GateStepInv DEF GateInv, GateTypeOK
  <2>4. ASSUME NEW q \in Passes PROVE opened'[q] + Cardinality(Scanning(q)') <= Cardinality(Gates)
    <3>1. CASE q = p /\ gate[g].verdict = "VALID"
      <4>1. g \in Scanning(q) BY <3>1 DEF Scanning, GateInv, GateTypeOK, NoScan
      <4>2. Scanning(q)' = Scanning(q) \ {g} BY <2>2 DEF Scanning, NoScan, GateInv, GateTypeOK
      <4>3. Cardinality(Scanning(q)') = Cardinality(Scanning(q)) - 1
        BY <1>1, <4>1, <4>2, FS_RemoveElement
      <4>4. opened'[q] = opened[q] + 1 /\ opened[q] \in Nat
        BY <1>4, <2>1, <3>1 DEF RecordScan, GateInv, GateTypeOK
      <4>5. opened[q] + Cardinality(Scanning(q)) <= Cardinality(Gates) BY DEF OpensOncePerScan
      <4>6. QED BY <1>0, <1>1, <4>3, <4>4, <4>5
    <3>2. CASE ~(q = p /\ gate[g].verdict = "VALID")
      <4>1. Scanning(q)' = Scanning(q)
        BY <2>1, <2>2, <3>2 DEF Scanning, NoScan, GateInv, GateTypeOK
      <4>2. opened'[q] = opened[q]
        BY <1>4, <2>1, <3>2 DEF RecordScan, GateInv, GateTypeOK
      <4>3. QED BY <4>1, <4>2 DEF OpensOncePerScan
    <3>3. QED BY <3>1, <3>2
  <2>5. QED BY <2>3, <2>4 DEF OpensOncePerScan
<1>5. QED
  BY <1>2, <1>3, <1>4
  DEF GateNext, GateStep, gatePassVars, gateVars, CheckIssue, InsertPass, Expire, Revoke

\* A live pass is one of those that calls of issue made together.
Issuing == {p \in Passes : issue[p] # "idle"}
IssuesCounted == Cardinality(Issuing) + Cardinality(Live) <= Advisors

LEMMA FinitePasses ==
  ASSUME NEW A, A \subseteq Passes PROVE IsFiniteSet(A) /\ Cardinality(A) \in Nat
  BY GateAssumption, FS_Subset, FS_CardinalityType

LEMMA IssuesStay ==
  ASSUME IssuesCounted, Issuing' = Issuing, Live' \subseteq Live PROVE IssuesCounted'
<1>1. Live \subseteq Passes /\ Issuing \subseteq Passes BY DEF Live, Issuing
<1>2. IsFiniteSet(Live) /\ Cardinality(Live) \in Nat /\ Cardinality(Issuing) \in Nat
  BY <1>1, FinitePasses
<1>3. Cardinality(Live') \in Nat BY <1>1, FinitePasses
<1>4. Cardinality(Live') <= Cardinality(Live) BY <1>2, FS_Subset
<1>5. QED BY <1>2, <1>3, <1>4, GateAssumption DEF IssuesCounted

LEMMA IssuesStep ==
  ASSUME GateInv, IssuesCounted, [GateNext]_gatePassVars PROVE IssuesCounted'
<1>0. Live \subseteq Passes /\ Issuing \subseteq Passes BY DEF Live, Issuing
<1>1. /\ IsFiniteSet(Live) /\ Cardinality(Live) \in Nat
      /\ IsFiniteSet(Issuing) /\ Cardinality(Issuing) \in Nat
  BY <1>0, FinitePasses
<1>2. CASE UNCHANGED <<issue, pass, expired>>
  BY <1>2, IssuesStay DEF Issuing, Live
<1>3. ASSUME NEW p \in Passes, NEW override \in BOOLEAN, CheckIssue(p, override) PROVE IssuesCounted'
  <2>1. Live' = {} /\ p \notin Issuing /\ Issuing' = Issuing \cup {p} /\ Cardinality(Issuing) < Advisors
    BY <1>3 DEF CheckIssue, Live, Issuing, GateInv, GateTypeOK
  <2>2. Cardinality(Issuing') = Cardinality(Issuing) + 1 BY <1>1, <2>1, FS_AddElement
  <2>3. Cardinality(Live') = 0 BY <2>1, FS_EmptySet
  <2>4. QED BY <1>1, <2>1, <2>2, <2>3, GateAssumption DEF IssuesCounted
<1>4. ASSUME NEW p \in Passes, InsertPass(p) PROVE IssuesCounted'
  <2>1. p \in Issuing /\ Issuing' = Issuing \ {p} /\ Live' \subseteq Live \cup {p} /\ p \notin Live
    BY <1>4 DEF InsertPass, Live, Issuing, GateInv, GateTypeOK
  <2>2. Cardinality(Issuing') = Cardinality(Issuing) - 1 BY <1>1, <2>1, FS_RemoveElement
  <2>3. IsFiniteSet(Live \cup {p}) /\ Cardinality(Live \cup {p}) = Cardinality(Live) + 1
    BY <1>1, <2>1, FS_AddElement
  <2>4. Cardinality(Live') <= Cardinality(Live \cup {p}) BY <2>1, <2>3, FS_Subset
  <2>5. Live' \subseteq Passes BY DEF Live
  <2>6. Cardinality(Live') \in Nat BY <2>5, FinitePasses
  <2>7. QED BY <1>1, <2>2, <2>3, <2>4, <2>6, GateAssumption DEF IssuesCounted
<1>5. ASSUME NEW p \in Passes, Expire(p) PROVE IssuesCounted'
  BY <1>5, IssuesStay DEF Expire, Live, Issuing
<1>6. ASSUME NEW p \in Passes, Revoke(p) PROVE IssuesCounted'
  <2>1. Issuing' = Issuing /\ Live' \subseteq Live
    BY <1>6 DEF Revoke, Live, Issuing, GateInv, GateTypeOK
  <2>2. QED BY <2>1, IssuesStay
<1>7. ASSUME NEW g \in Gates, RecordScan(g) PROVE IssuesCounted'
  <2>1. \A p \in Passes : pass'[p] = "ISSUED" => pass[p] = "ISSUED"
    BY <1>7 DEF RecordScan, GateInv, GateTypeOK
  <2>2. Issuing' = Issuing /\ Live' \subseteq Live BY <1>7, <2>1 DEF RecordScan, Live, Issuing
  <2>3. QED BY <2>2, IssuesStay
<1>8. QED
  BY <1>2, <1>3, <1>4, <1>5, <1>6, <1>7 DEF GateNext, GateStep, gatePassVars, gateVars, Scan

\* However many advisors and screens, a pass is only used up by opening the gate.
THEOREM UsedUpByOpening == GateSpec => []UsedWasOpened
<1>1. GateInv => UsedWasOpened BY DEF GateInv
<1>2. QED BY <1>1, GateInitInv, GateStepInv, PTL DEF GateSpec

\* However many advisors and screens: a pass opens the barrier at most once for each
\* screen, and only for screens that had read it before the first opening was on
\* record; and a card has no more good passes than advisors issuing at once.
THEOREM PassesAlwaysSound == GateSpec => []PassesAreSound
<1> DEFINE I == GateInv /\ OpensOncePerScan /\ IssuesCounted
<1>1. GateInit => I
  <2> SUFFICES ASSUME GateInit PROVE I OBVIOUS
  <2>1. \A p \in Passes : Scanning(p) = {} /\ opened[p] = 0 BY DEF GateInit, Scanning, NoScan
  <2>2. Live = {} /\ Issuing = {} BY DEF GateInit, Live, Issuing
  <2>3. Cardinality({}) = 0 BY FS_EmptySet
  <2>4. Cardinality(Gates) \in Nat BY GateAssumption, FS_CardinalityType
  <2>5. OpensOncePerScan BY <2>1, <2>3, <2>4 DEF OpensOncePerScan
  <2>6. IssuesCounted BY <2>2, <2>3, GateAssumption DEF IssuesCounted
  <2>7. QED BY <2>5, <2>6, GateInitInv
<1>2. I /\ [GateNext]_gatePassVars => I' BY GateStepInv, OpeningsStep, IssuesStep
<1>3. I => PassesAreSound
  <2> SUFFICES ASSUME I PROVE PassesAreSound OBVIOUS
  <2>1. Live \subseteq Passes /\ Issuing \subseteq Passes BY DEF Live, Issuing
  <2>2. Cardinality(Live) \in Nat /\ Cardinality(Issuing) \in Nat BY <2>1, FinitePasses
  <2>3. OneLivePassPerAdvisor BY <2>2, GateAssumption DEF IssuesCounted, OneLivePassPerAdvisor
  <2>4. QED BY <2>3 DEF PassesAreSound, GateInv
<1>4. QED BY <1>1, <1>2, <1>3, PTL DEF GateSpec
-----------------------------------------------------------------------------
(* Pickup: slots, offers and reminders. *)

Bookings ==
  [card : Cards, status : {"OFFERED", "CHOSEN", "REMINDED"}, slots : SUBSET Slots, slot : Slots \cup {"none"}]
Offers == [card : Cards, slots : SUBSET Slots, row : {0} \cup Row] \cup {NoOffer}
PickupTypeOK ==
  /\ booking \in [Row -> Bookings \cup {NoBooking}]
  /\ offer \in [Callers -> Offers]
  /\ tap \in [Taps -> [row : Row, slot : Slots] \cup {NoTap}]
  /\ batch \in [Reminders -> SUBSET Row] /\ sending \in [Reminders -> {0} \cup Row]
  /\ told \in [Row -> Nat] /\ lost \in Nat

\* The rows are written one after the other.
RowsInOrder == PickupRows = 1..Cardinality(PickupRows)

\* What each tap is about to take is still to be taken, and by no other.
TapsHold ==
  /\ \A t \in Taps : tap[t] # NoTap =>
       booking[tap[t].row].status = "OFFERED" /\ booking[tap[t].row].slot = "none"
  /\ \A t, u \in Taps : tap[t] # NoTap /\ tap[u].row = tap[t].row => t = u

Holders(s) == {n \in PickupRows : booking[n].slot = s}
TapsOn(s) == {t \in Taps : tap[t].slot = s}
\* The last tap the count let in found room.
SlotCount(s) == Cardinality(Holders(s)) + Cardinality(TapsOn(s)) <= SlotCapacity + Cardinality(Taps) - 1
SlotsCounted == \A s \in Slots : SlotCount(s)

\* Callers that found no offer and have yet to write theirs.
Offering(k) == {c \in Callers : offer[c].card = k /\ offer[c].row = 0}
OfferCount(k) == Cardinality(OfCard(k)) + Cardinality(Offering(k)) <= Cardinality(Callers)
OffersCounted == \A k \in Cards : OfferCount(k)

ToSend(n) == {w \in Reminders : n \in batch[w] /\ sending[w] # n}
SentBy(n) == {w \in Reminders : sending[w] = n}
\* Every reminder sent is one worker's, or was marked or lost.
SendCount(n) == told[n] + Cardinality(ToSend(n)) <= Cardinality(Reminders) + lost
SentCount(n) == booking[n].status = "CHOSEN" => told[n] <= Cardinality(SentBy(n)) + lost
Unchosen(n) ==
  IF booking[n].status \in {"CHOSEN", "REMINDED"} THEN booking[n].slot # "none"
  ELSE told[n] = 0 /\ \A w \in Reminders : n \notin batch[w]
RemindersCounted ==
  /\ \A n \in Row : SendCount(n) /\ SentCount(n) /\ Unchosen(n)
  /\ \A w \in Reminders : sending[w] # 0 => sending[w] \in batch[w]

PickupInv ==
  PickupTypeOK /\ RowsInOrder /\ TapsHold /\ SlotsCounted /\ OffersCounted /\ RemindersCounted

LEMMA PartCounts ==
  ASSUME NEW S, IsFiniteSet(S), NEW A \in SUBSET S, NEW B \in SUBSET S, NEW x
  PROVE  /\ Cardinality(A) \in Nat /\ Cardinality(B) \in Nat /\ Cardinality(S) \in Nat
         /\ Cardinality(A) <= Cardinality(S) /\ Cardinality(B) <= Cardinality(S)
         /\ B \subseteq A => Cardinality(B) <= Cardinality(A)
         /\ x \notin A /\ B = A \cup {x} => Cardinality(B) = Cardinality(A) + 1
         /\ x \in A /\ B = A \ {x} => Cardinality(B) = Cardinality(A) - 1
<1>1. IsFiniteSet(A) /\ IsFiniteSet(B)
  BY FS_Subset
<1> QED BY <1>1, FS_Subset, FS_AddElement, FS_RemoveElement, FS_CardinalityType

LEMMA PickupSizes ==
  /\ IsFiniteSet(PickupRows) /\ Cardinality(PickupRows) \in Nat
  /\ Cardinality(Callers) \in Nat /\ Cardinality(Taps) \in Nat /\ Cardinality(Reminders) \in Nat
<1>1. IsFiniteSet(Row) /\ PickupRows \subseteq Row
  BY DeliveryConstants, FS_Interval DEF Row, PickupRows
<1> QED BY <1>1, DeliveryConstants, FS_Subset, FS_CardinalityType

LEMMA BookingKinds ==
  ASSUME PickupTypeOK, NEW n \in Row
  PROVE  /\ n \in PickupRows <=> booking[n].status # "none"
         /\ n \in PickupRows <=> booking[n] \in Bookings
         /\ n \notin PickupRows <=> booking[n] = NoBooking
BY DEF PickupTypeOK, PickupRows, Bookings, NoBooking

LEMMA LoadIs == ASSUME NEW s PROVE Load(s) = Cardinality(Holders(s))
BY DEF Load, Holders

LEMMA SlotsStay ==
  ASSUME SlotsCounted, UNCHANGED tap, \A s \in Slots : Holders(s)' = Holders(s)
  PROVE  SlotsCounted'
BY DEF SlotsCounted, SlotCount, TapsOn

LEMMA OffersStay ==
  ASSUME OffersCounted, \A k \in Cards : OfCard(k)' = OfCard(k) /\ Offering(k)' = Offering(k)
  PROVE  OffersCounted'
BY DEF OffersCounted, OfferCount

LEMMA RemindersStay ==
  ASSUME RemindersCounted, UNCHANGED <<batch, sending, told, lost>>,
         \A n \in Row : \/ booking'[n].status = booking[n].status /\ booking'[n].slot = booking[n].slot
                        \/ Unchosen(n)' /\ booking'[n].status # "CHOSEN"
  PROVE  RemindersCounted'
<1>1. \A n \in Row : ToSend(n)' = ToSend(n) /\ SentBy(n)' = SentBy(n)
  BY DEF ToSend, SentBy
<1>2. ASSUME NEW n \in Row PROVE SendCount(n)' /\ SentCount(n)' /\ Unchosen(n)'
  <2>1. SendCount(n) /\ SentCount(n) /\ Unchosen(n)
    BY DEF RemindersCounted
  <2> QED BY <1>1, <2>1 DEF SendCount, SentCount, Unchosen
<1> QED BY <1>2 DEF RemindersCounted

LEMMA PickupInit == DeliveryInit => PickupInv
<1> SUFFICES ASSUME DeliveryInit PROVE PickupInv
  OBVIOUS
<1>1. PickupRows = {} /\ Cardinality(PickupRows) = 0
  BY FS_EmptySet DEF DeliveryInit, PickupRows
<1>2. PickupTypeOK
  BY DEF DeliveryInit, PickupTypeOK, Offers
<1>3. RowsInOrder
  BY <1>1 DEF RowsInOrder
<1>4. TapsHold
  BY DEF DeliveryInit, TapsHold
<1>5. SlotsCounted
  <2>1. ASSUME NEW s \in Slots PROVE Holders(s) = {} /\ TapsOn(s) = {}
    BY <1>1, DeliveryConstants DEF DeliveryInit, Holders, TapsOn, NoTap
  <2>2. \A s \in Slots : Cardinality(Holders(s)) = 0 /\ Cardinality(TapsOn(s)) = 0
    BY <2>1, FS_EmptySet
  <2> QED BY <2>2, PickupSizes, DeliveryConstants DEF SlotsCounted, SlotCount
<1>6. OffersCounted
  <2>1. ASSUME NEW k \in Cards PROVE OfCard(k) = {} /\ Offering(k) = {}
    BY <1>1, DeliveryConstants DEF DeliveryInit, OfCard, Offering, NoOffer
  <2>2. \A k \in Cards : Cardinality(OfCard(k)) = 0 /\ Cardinality(Offering(k)) = 0
    BY <2>1, FS_EmptySet
  <2> QED BY <2>2, PickupSizes DEF OffersCounted, OfferCount
<1>7. RemindersCounted
  <2>1. ASSUME NEW n \in Row PROVE ToSend(n) = {}
    BY DEF DeliveryInit, ToSend
  <2>2. \A n \in Row : told[n] = 0 /\ Cardinality(ToSend(n)) = 0
    BY <2>1, FS_EmptySet DEF DeliveryInit
  <2>3. \A n \in Row : SendCount(n)
    BY <2>2, PickupSizes DEF DeliveryInit, SendCount
  <2>4. \A n \in Row : SentCount(n) /\ Unchosen(n)
    BY DEF DeliveryInit, SentCount, Unchosen, NoBooking
  <2> QED BY <2>3, <2>4 DEF DeliveryInit, RemindersCounted
<1> QED BY <1>2, <1>3, <1>4, <1>5, <1>6, <1>7 DEF PickupInv

\* announceReady looks for an offer, and writes its own.
LEMMA LoadReadyInv ==
  ASSUME PickupInv, NEW c \in Callers, NEW k \in Cards, LoadReady(c, k)
  PROVE  PickupInv'
<1>0. PickupTypeOK /\ RowsInOrder /\ TapsHold /\ SlotsCounted /\ OffersCounted /\ RemindersCounted
  BY DEF PickupInv
<1>1. /\ offer[c] = NoOffer /\ OpenBooking(k) = {}
      /\ offer' = [offer EXCEPT ![c] = [card |-> k, slots |-> Suggested, row |-> 0]]
      /\ UNCHANGED <<booking, tap, batch, sending, told, lost>>
  BY DEF LoadReady
<1>2. PickupTypeOK'
  <2>1. [card |-> k, slots |-> Suggested, row |-> 0] \in Offers
    BY DEF Offers, Suggested
  <2> QED BY <1>0, <1>1, <2>1 DEF PickupTypeOK
<1>3. RowsInOrder' /\ TapsHold' /\ SlotsCounted' /\ RemindersCounted'
  BY <1>0, <1>1, SlotsStay, RemindersStay DEF RowsInOrder, TapsHold, Holders, PickupRows
<1>4. ASSUME NEW j \in Cards PROVE OfferCount(j)'
  <2>1. OfCard(j)' = OfCard(j)
    BY <1>1 DEF OfCard, PickupRows
  <2>2. CASE j = k
    <3>1. OfCard(j) = {}
      <4>1. \A n \in PickupRows : booking[n] \in Bookings
        BY <1>0, BookingKinds DEF PickupRows
      <4> QED BY <1>1, <2>2, <4>1 DEF OpenBooking, OfCard, Bookings
    <3>2. Offering(j)' \subseteq Callers /\ IsFiniteSet(Callers)
      BY DeliveryConstants DEF Offering
    <3>3. Cardinality(Offering(j)') <= Cardinality(Callers) /\ Cardinality(Offering(j)') \in Nat
      BY <3>2, FS_Subset, FS_CardinalityType
    <3>4. Cardinality(OfCard(j)') = 0
      BY <2>1, <3>1, FS_EmptySet
    <3> QED BY <3>3, <3>4, PickupSizes DEF OfferCount
  <2>3. CASE j # k
    <3>1. Offering(j)' = Offering(j)
      BY <1>0, <1>1, <2>3, DeliveryConstants DEF Offering, NoOffer, PickupTypeOK
    <3> QED BY <1>0, <2>1, <3>1 DEF OffersCounted, OfferCount
  <2> QED BY <2>2, <2>3
<1> QED BY <1>2, <1>3, <1>4 DEF PickupInv, OffersCounted

LEMMA InsertBookingInv == ASSUME PickupInv, NEW c \in Callers, InsertBooking(c) PROVE PickupInv'
<1>0. PickupTypeOK /\ RowsInOrder /\ TapsHold /\ SlotsCounted /\ OffersCounted /\ RemindersCounted
  BY DEF PickupInv
<1> DEFINE b == [card |-> offer[c].card, status |-> "OFFERED", slots |-> offer[c].slots, slot |-> "none"]
<1>1. PICK n \in Row :
        /\ n = Cardinality(PickupRows) + 1
        /\ offer[c].card \in Cards /\ offer[c].row = 0
        /\ booking' = [booking EXCEPT ![n] = b]
        /\ offer' = [offer EXCEPT ![c].row = n]
        /\ UNCHANGED <<tap, batch, sending, told, lost>>
  BY DEF InsertBooking
<1>2. offer[c] \in [card : Cards, slots : SUBSET Slots, row : {0} \cup Row]
  BY <1>0, <1>1, DeliveryConstants DEF PickupTypeOK, Offers, NoOffer
<1>3. /\ b \in Bookings /\ b.status = "OFFERED" /\ b.slot = "none" /\ b.card = offer[c].card
      /\ b # NoBooking
  BY <1>1, <1>2 DEF Bookings, NoBooking
<1> HIDE DEF b
<1>4. n \notin PickupRows /\ booking[n] = NoBooking
  <2>1. n \notin PickupRows
    BY <1>0, <1>1, PickupSizes DEF RowsInOrder
  <2> QED BY <1>0, <2>1, BookingKinds
<1>5. \A j \in Row : booking'[j] = IF j = n THEN b ELSE booking[j]
  BY <1>0, <1>1 DEF PickupTypeOK
<1>6. PickupTypeOK'
  <2>1. booking' \in [Row -> Bookings \cup {NoBooking}]
    BY <1>0, <1>1, <1>3 DEF PickupTypeOK
  <2>2. [offer[c] EXCEPT !.row = n] \in Offers
    BY <1>2 DEF Offers
  <2>3. offer' \in [Callers -> Offers]
    BY <1>0, <1>1, <2>2 DEF PickupTypeOK
  <2> QED BY <1>0, <1>1, <2>1, <2>3 DEF PickupTypeOK
<1>7. PickupRows' = PickupRows \cup {n}
  BY <1>3, <1>5 DEF PickupRows
<1>8. RowsInOrder'
  <2>1. Cardinality(PickupRows \cup {n}) = Cardinality(PickupRows) + 1
    BY <1>4, PickupSizes, FS_AddElement
  <2>2. PickupRows = 1..Cardinality(PickupRows) /\ Cardinality(PickupRows) \in Nat
    BY <1>0, PickupSizes DEF RowsInOrder
  <2>3. Cardinality(PickupRows') = n
    BY <1>1, <1>7, <2>1
  <2>4. PickupRows' = 1..n
    BY <1>1, <1>7, <2>2
  <2> QED BY <2>3, <2>4 DEF RowsInOrder
<1>9. TapsHold'
  <2>1. \A t \in Taps : tap[t] # NoTap => tap[t].row \in Row
    BY <1>0 DEF PickupTypeOK
  <2> QED BY <1>0, <1>1, <1>4, <1>5, <2>1 DEF TapsHold, NoBooking
<1>10. SlotsCounted'
  <2>1. \A s \in Slots : Holders(s)' = Holders(s)
    BY <1>3, <1>4, <1>5, <1>7, DeliveryConstants DEF Holders, PickupRows
  <2> QED BY <1>0, <1>1, <2>1, SlotsStay
<1>11. ASSUME NEW k \in Cards PROVE OfferCount(k)'
  <2>0. OfferCount(k)
    BY <1>0 DEF OffersCounted
  <2>1. \A e \in Callers : offer'[e] = IF e = c THEN [offer[c] EXCEPT !.row = n] ELSE offer[e]
    BY <1>0, <1>1 DEF PickupTypeOK
  <2>2. CASE offer[c].card = k
    <3>1. OfCard(k)' = OfCard(k) \cup {n} /\ n \notin OfCard(k)
      BY <1>3, <1>4, <1>5, <1>7, <2>2 DEF OfCard, PickupRows
    <3>2. Offering(k)' = Offering(k) \ {c} /\ c \in Offering(k)
      <4>1. n # 0
        BY DEF Row
      <4>2. [offer[c] EXCEPT !.row = n].row = n
        BY <1>2
      <4> QED BY <1>1, <2>1, <2>2, <4>1, <4>2 DEF Offering
    <3>3. Cardinality(OfCard(k)') = Cardinality(OfCard(k)) + 1 /\ Cardinality(OfCard(k)) \in Nat
      <4>1. IsFiniteSet(OfCard(k))
        <5>1. OfCard(k) \subseteq PickupRows
          BY DEF OfCard
        <5> QED BY <5>1, PickupSizes, FS_Subset
      <4> QED BY <3>1, <4>1, FS_AddElement, FS_CardinalityType
    <3>4. Cardinality(Offering(k)') = Cardinality(Offering(k)) - 1 /\ Cardinality(Offering(k)) \in Nat
      <4>1. Offering(k) \subseteq Callers
        BY DEF Offering
      <4>2. IsFiniteSet(Offering(k))
        BY <4>1, DeliveryConstants, FS_Subset
      <4> QED BY <3>2, <4>2, FS_RemoveElement, FS_CardinalityType
    <3> QED BY <2>0, <3>3, <3>4, PickupSizes DEF OfferCount
  <2>3. CASE offer[c].card # k
    <3>1. OfCard(k)' = OfCard(k)
      BY <1>3, <1>4, <1>5, <1>7, <2>3 DEF OfCard, PickupRows
    <3>2. [offer[c] EXCEPT !.row = n].card = offer[c].card
      BY <1>2
    <3>3. Offering(k)' = Offering(k)
      BY <2>1, <2>3, <3>2 DEF Offering
    <3> QED BY <2>0, <3>1, <3>3 DEF OfferCount
  <2> QED BY <2>2, <2>3
<1>12. RemindersCounted'
  <2>1. Unchosen(n)
    BY <1>0 DEF RemindersCounted
  <2>2. Unchosen(n)' /\ booking'[n].status # "CHOSEN"
    BY <1>1, <1>3, <1>4, <1>5, <2>1 DEF Unchosen, NoBooking
  <2> QED BY <1>0, <1>1, <1>5, <2>2, RemindersStay
<1> QED BY <1>6, <1>8, <1>9, <1>10, <1>11, <1>12 DEF PickupInv, OffersCounted

LEMMA AttachOfferInv == ASSUME PickupInv, NEW c \in Callers, AttachOffer(c) PROVE PickupInv'
<1>0. PickupTypeOK /\ RowsInOrder /\ TapsHold /\ SlotsCounted /\ OffersCounted /\ RemindersCounted
  BY DEF PickupInv
<1>1. /\ offer[c].row # 0 /\ offer' = [offer EXCEPT ![c] = NoOffer]
      /\ UNCHANGED <<booking, tap, batch, sending, told, lost>>
  BY DEF AttachOffer
<1>2. PickupTypeOK'
  BY <1>0, <1>1 DEF PickupTypeOK, Offers
<1>3. RowsInOrder' /\ TapsHold' /\ SlotsCounted' /\ RemindersCounted'
  BY <1>0, <1>1, SlotsStay, RemindersStay DEF RowsInOrder, TapsHold, Holders, PickupRows
<1>4. \A k \in Cards : OfCard(k)' = OfCard(k) /\ Offering(k)' = Offering(k)
  BY <1>0, <1>1, DeliveryConstants DEF OfCard, PickupRows, Offering, NoOffer, PickupTypeOK
<1> QED BY <1>0, <1>2, <1>3, <1>4, OffersStay DEF PickupInv

\* A booking's own move: its card and its place stay.
LEMMA BookingMoves ==
  ASSUME PickupTypeOK, RowsInOrder, OffersCounted, NEW n \in PickupRows, NEW b \in Bookings,
         booking' = [booking EXCEPT ![n] = b], b.card = booking[n].card, UNCHANGED offer
  PROVE  /\ n \in Row /\ \A j \in Row : booking'[j] = IF j = n THEN b ELSE booking[j]
         /\ booking' \in [Row -> Bookings \cup {NoBooking}]
         /\ PickupRows' = PickupRows /\ RowsInOrder' /\ OffersCounted'
<1>1. n \in Row /\ \A j \in Row : booking'[j] = IF j = n THEN b ELSE booking[j]
  BY DEF PickupTypeOK, PickupRows
<1>2. booking[n] # NoBooking /\ b # NoBooking
  BY DEF PickupRows, Bookings, NoBooking
<1>3. booking' \in [Row -> Bookings \cup {NoBooking}]
  BY DEF PickupTypeOK
<1>4. PickupRows' = PickupRows
  BY <1>1, <1>2 DEF PickupRows
<1>5. \A k : OfCard(k)' = OfCard(k)
  BY <1>1, <1>4 DEF OfCard, PickupRows
<1>6. OffersCounted'
  BY <1>5, OffersStay DEF Offering
<1> QED BY <1>1, <1>3, <1>4, <1>6 DEF RowsInOrder

\* chooseSlot counts, and commits.
LEMMA ReadChoiceInv ==
  ASSUME PickupInv, NEW t \in Taps, NEW n \in PickupRows, NEW s \in Slots, ReadChoice(t, n, s)
  PROVE  PickupInv'
<1>0. PickupTypeOK /\ RowsInOrder /\ TapsHold /\ SlotsCounted /\ OffersCounted /\ RemindersCounted
  BY DEF PickupInv
<1>1. /\ tap[t] = NoTap /\ (\A u \in Taps : tap[u].row # n)
      /\ booking[n].slot = "none" /\ Load(s) < SlotCapacity
      /\ tap' = [tap EXCEPT ![t] = [row |-> n, slot |-> s]]
      /\ UNCHANGED <<booking, offer, batch, sending, told, lost>>
  BY DEF ReadChoice, MayChoose, Available
<1>2. n \in Row /\ booking[n].status = "OFFERED"
  <2>1. n \in Row /\ booking[n] \in Bookings
    BY <1>0, BookingKinds DEF PickupRows
  <2>2. Unchosen(n)
    BY <1>0, <2>1 DEF RemindersCounted
  <2> QED BY <1>1, <2>1, <2>2 DEF Unchosen, Bookings
<1>3. \A u \in Taps : tap'[u] = IF u = t THEN [row |-> n, slot |-> s] ELSE tap[u]
  BY <1>0, <1>1 DEF PickupTypeOK
<1>4. PickupTypeOK'
  BY <1>0, <1>1, <1>2 DEF PickupTypeOK
<1>5. TapsHold'
  <2>1. [row |-> n, slot |-> s] # NoTap
    BY <1>2 DEF Row, NoTap
  <2> QED BY <1>0, <1>1, <1>2, <1>3, <2>1 DEF TapsHold
<1>6. ASSUME NEW z \in Slots PROVE SlotCount(z)'
  <2>1. Holders(z)' = Holders(z)
    BY <1>1 DEF Holders, PickupRows
  <2>2. CASE z = s
    <3>1. Cardinality(TapsOn(z)') <= Cardinality(Taps) /\ Cardinality(TapsOn(z)') \in Nat
      <4>1. TapsOn(z)' \subseteq Taps
        BY DEF TapsOn
      <4> QED BY <4>1, DeliveryConstants, FS_Subset, FS_CardinalityType
    <3>2. Cardinality(Holders(z)) < SlotCapacity /\ Cardinality(Holders(z)) \in Nat
      <4>1. Holders(z) \subseteq PickupRows
        BY DEF Holders
      <4>2. Cardinality(Holders(z)) \in Nat
        BY <4>1, PickupSizes, FS_Subset, FS_CardinalityType
      <4> QED BY <1>1, <2>2, <4>2, LoadIs
    <3> QED BY <2>1, <3>1, <3>2, PickupSizes, DeliveryConstants DEF SlotCount
  <2>3. CASE z # s
    <3>1. TapsOn(z)' = TapsOn(z)
      BY <1>1, <1>3, <2>3, DeliveryConstants DEF TapsOn, NoTap
    <3> QED BY <1>0, <2>1, <3>1 DEF SlotsCounted, SlotCount
  <2> QED BY <2>2, <2>3
<1>7. RowsInOrder' /\ OffersCounted' /\ RemindersCounted'
  BY <1>0, <1>1, OffersStay, RemindersStay DEF RowsInOrder, OfCard, PickupRows, Offering
<1> QED BY <1>4, <1>5, <1>6, <1>7 DEF PickupInv, SlotsCounted

LEMMA CommitChoiceInv == ASSUME PickupInv, NEW t \in Taps, CommitChoice(t) PROVE PickupInv'
<1>0. PickupTypeOK /\ RowsInOrder /\ TapsHold /\ SlotsCounted /\ OffersCounted /\ RemindersCounted
  BY DEF PickupInv
<1>1. PICK n \in Row, s \in Slots : tap[t] = [row |-> n, slot |-> s] /\ tap[t] # NoTap
  BY <1>0 DEF CommitChoice, PickupTypeOK
<1>2. tap[t].row = n /\ tap[t].slot = s
  BY <1>1
<1> DEFINE b == [booking[n] EXCEPT !.status = "CHOSEN", !.slot = s]
<1>3. /\ booking' = [booking EXCEPT ![n] = b] /\ tap' = [tap EXCEPT ![t] = NoTap]
      /\ UNCHANGED <<offer, batch, sending, told, lost>>
  BY <1>2 DEF CommitChoice
<1>4. booking[n].status = "OFFERED" /\ booking[n].slot = "none"
  BY <1>0, <1>1, <1>2 DEF TapsHold
<1>5. n \in PickupRows /\ booking[n] \in Bookings
  BY <1>0, <1>4, BookingKinds
<1>6. b \in Bookings /\ b.status = "CHOSEN" /\ b.slot = s /\ b.card = booking[n].card
  BY <1>5 DEF Bookings
<1> HIDE DEF b
<1>7. /\ \A j \in Row : booking'[j] = IF j = n THEN b ELSE booking[j]
      /\ booking' \in [Row -> Bookings \cup {NoBooking}]
      /\ PickupRows' = PickupRows /\ RowsInOrder' /\ OffersCounted'
  BY <1>0, <1>3, <1>5, <1>6, BookingMoves
<1>8. \A u \in Taps : tap'[u] = IF u = t THEN NoTap ELSE tap[u]
  BY <1>0, <1>3 DEF PickupTypeOK
<1>9. PickupTypeOK'
  BY <1>0, <1>3, <1>7 DEF PickupTypeOK
<1>10. TapsHold'
  <2>1. \A u \in Taps : tap[u] # NoTap => tap[u].row \in Row
    BY <1>0 DEF PickupTypeOK
  <2>2. \A u \in Taps : u # t => tap[u].row # n
    BY <1>0, <1>1, <1>2 DEF TapsHold
  <2>3. NoTap.row = 0
    BY DEF NoTap
  <2>4. 0 \notin Row
    BY DEF Row
  <2>5. ASSUME NEW u \in Taps, tap'[u] # NoTap, NEW v \in Taps, tap'[v].row = tap'[u].row
        PROVE  u = v /\ booking'[tap'[u].row].status = "OFFERED" /\ booking'[tap'[u].row].slot = "none"
    <3>1. u # t /\ tap'[u] = tap[u] /\ tap[u].row \in Row
      BY <1>8, <2>1, <2>5
    <3>2. v # t /\ tap'[v] = tap[v]
      BY <1>8, <2>3, <2>4, <2>5, <3>1
    <3> QED BY <1>0, <1>7, <2>2, <2>5, <3>1, <3>2 DEF TapsHold
  <2> QED BY <2>5 DEF TapsHold
<1>11. ASSUME NEW z \in Slots PROVE SlotCount(z)'
  <2>0. SlotCount(z)
    BY <1>0 DEF SlotsCounted
  <2>1. Holders(z) \subseteq PickupRows /\ TapsOn(z) \subseteq Taps /\ PickupRows \subseteq Row
    BY DEF Holders, TapsOn, PickupRows
  <2>2. CASE z = s
    <3>1. Holders(z)' = Holders(z) \cup {n} /\ n \notin Holders(z)
      BY <1>4, <1>5, <1>6, <1>7, <2>1, <2>2, DeliveryConstants DEF Holders
    <3>2. TapsOn(z)' = TapsOn(z) \ {t} /\ t \in TapsOn(z)
      BY <1>2, <1>8, <2>2, DeliveryConstants DEF TapsOn, NoTap
    <3>3. Cardinality(Holders(z)') = Cardinality(Holders(z)) + 1 /\ Cardinality(Holders(z)) \in Nat
      <4>1. IsFiniteSet(Holders(z))
        BY <2>1, PickupSizes, FS_Subset
      <4> QED BY <3>1, <4>1, FS_AddElement, FS_CardinalityType
    <3>4. Cardinality(TapsOn(z)') = Cardinality(TapsOn(z)) - 1 /\ Cardinality(TapsOn(z)) \in Nat
      <4>1. IsFiniteSet(TapsOn(z))
        BY <2>1, DeliveryConstants, FS_Subset
      <4> QED BY <3>2, <4>1, FS_RemoveElement, FS_CardinalityType
    <3> QED BY <2>0, <3>3, <3>4, PickupSizes, DeliveryConstants DEF SlotCount
  <2>3. CASE z # s
    <3>1. Holders(z)' = Holders(z)
      BY <1>4, <1>6, <1>7, <2>1, <2>3, DeliveryConstants DEF Holders
    <3>2. TapsOn(z)' = TapsOn(z)
      BY <1>2, <1>8, <2>3, DeliveryConstants DEF TapsOn, NoTap
    <3> QED BY <2>0, <3>1, <3>2 DEF SlotCount
  <2> QED BY <2>2, <2>3
<1>12. RemindersCounted'
  <2>1. Unchosen(n) /\ told[n] \in Nat /\ lost \in Nat
    BY <1>0 DEF RemindersCounted, PickupTypeOK
  <2>2. told[n] = 0 /\ (\A w \in Reminders : n \notin batch[w])
    BY <1>4, <2>1 DEF Unchosen
  <2>3. \A j \in Row : ToSend(j)' = ToSend(j) /\ SentBy(j)' = SentBy(j)
    BY <1>3 DEF ToSend, SentBy
  <2>4. \A j \in Row : SendCount(j)'
    BY <1>0, <1>3, <2>3 DEF RemindersCounted, SendCount
  <2>5. SentCount(n)'
    <3>1. SentBy(n) \subseteq Reminders
      BY DEF SentBy
    <3>2. Cardinality(SentBy(n)) \in Nat
      BY <3>1, DeliveryConstants, FS_Subset, FS_CardinalityType
    <3> QED BY <1>3, <2>1, <2>2, <2>3, <3>2 DEF SentCount
  <2>6. Unchosen(n)'
    BY <1>6, <1>7, DeliveryConstants DEF Unchosen
  <2>7. \A j \in Row : j # n => SentCount(j)' /\ Unchosen(j)'
    BY <1>0, <1>3, <1>7, <2>3 DEF RemindersCounted, SentCount, Unchosen
  <2> QED BY <1>0, <1>3, <2>4, <2>5, <2>6, <2>7 DEF RemindersCounted
<1> QED BY <1>7, <1>9, <1>10, <1>11, <1>12 DEF PickupInv, SlotsCounted

\* What the reminders do leaves the slots and the offers alone.
LEMMA ReminderFrame ==
  ASSUME PickupInv, UNCHANGED <<booking, offer, tap>>
  PROVE  RowsInOrder' /\ TapsHold' /\ SlotsCounted' /\ OffersCounted'
<1>1. RowsInOrder /\ TapsHold /\ SlotsCounted /\ OffersCounted
  BY DEF PickupInv
<1> QED BY <1>1, SlotsStay, OffersStay DEF RowsInOrder, TapsHold, Holders, OfCard, PickupRows, Offering

LEMMA ReminderSizes ==
  ASSUME NEW n
  PROVE  /\ IsFiniteSet(ToSend(n)) /\ IsFiniteSet(SentBy(n))
         /\ Cardinality(ToSend(n)) \in Nat /\ Cardinality(SentBy(n)) \in Nat
<1>1. ToSend(n) \subseteq Reminders /\ SentBy(n) \subseteq Reminders
  BY DEF ToSend, SentBy
<1> QED BY <1>1, DeliveryConstants, FS_Subset, FS_CardinalityType

LEMMA ClaimRemindersInv == ASSUME PickupInv, NEW w \in Reminders, ClaimReminders(w) PROVE PickupInv'
<1>0. PickupTypeOK /\ RemindersCounted
  BY DEF PickupInv
<1>1. PICK D \in SUBSET Due :
        /\ batch[w] = {} /\ sending[w] = 0 /\ batch' = [batch EXCEPT ![w] = D]
        /\ UNCHANGED <<booking, offer, tap, sending, told, lost>>
  BY DEF ClaimReminders
<1>2. D \subseteq Row /\ (\A n \in D : booking[n].status = "CHOSEN")
  BY DEF Due, PickupRows
<1>3. \A v \in Reminders : batch'[v] = IF v = w THEN D ELSE batch[v]
  BY <1>0, <1>1 DEF PickupTypeOK
<1>4. PickupTypeOK'
  BY <1>0, <1>1, <1>2 DEF PickupTypeOK
<1>5. ASSUME NEW n \in Row PROVE SendCount(n)' /\ SentCount(n)' /\ Unchosen(n)'
  <2>0. SendCount(n) /\ SentCount(n) /\ Unchosen(n)
    BY <1>0 DEF RemindersCounted
  <2>1. SentBy(n)' = SentBy(n)
    BY <1>1 DEF SentBy
  <2>2. CASE n \in D
    <3>1. told[n] <= Cardinality(SentBy(n)) + lost
      BY <1>2, <2>0, <2>2 DEF SentCount
    <3>2. Cardinality(ToSend(n)') + Cardinality(SentBy(n)) <= Cardinality(Reminders)
      <4>1. ToSend(n)' \subseteq Reminders \ SentBy(n) /\ SentBy(n) \subseteq Reminders
        BY <1>1 DEF ToSend, SentBy
      <4>2. IsFiniteSet(Reminders \ SentBy(n))
            /\ Cardinality(Reminders \ SentBy(n)) = Cardinality(Reminders) - Cardinality(SentBy(n))
        <5>1. Cardinality(Reminders \cap SentBy(n)) = Cardinality(SentBy(n))
          <6>1. Reminders \cap SentBy(n) = SentBy(n)
            BY <4>1
          <6> QED BY <6>1
        <5> QED BY <5>1, DeliveryConstants, FS_Difference
      <4>3. IsFiniteSet(ToSend(n)') /\ Cardinality(ToSend(n)') <= Cardinality(Reminders \ SentBy(n))
        BY <4>1, <4>2, FS_Subset
      <4>4. Cardinality(ToSend(n)') \in Nat
        BY <4>3, FS_CardinalityType
      <4> QED BY <4>2, <4>3, <4>4, ReminderSizes, PickupSizes
    <3>3. Cardinality(ToSend(n)') \in Nat
      <4>1. ToSend(n)' \subseteq Reminders
        BY DEF ToSend
      <4> QED BY <4>1, DeliveryConstants, FS_Subset, FS_CardinalityType
    <3>4. told[n] \in Nat /\ lost \in Nat
      BY <1>0 DEF PickupTypeOK
    <3>5. SendCount(n)'
      BY <1>1, <3>1, <3>2, <3>3, <3>4, ReminderSizes, PickupSizes DEF SendCount
    <3>6. SentCount(n)'
      BY <1>1, <2>0, <2>1 DEF SentCount
    <3>7. Unchosen(n)'
      BY <1>1, <1>2, <2>0, <2>2 DEF Unchosen
    <3> QED BY <3>5, <3>6, <3>7
  <2>3. CASE n \notin D
    <3>1. ToSend(n)' = ToSend(n)
      BY <1>1, <1>3, <2>3 DEF ToSend
    <3>2. Unchosen(n)'
      BY <1>1, <1>3, <2>0, <2>3 DEF Unchosen
    <3> QED BY <1>1, <2>0, <2>1, <3>1, <3>2 DEF SendCount, SentCount
  <2> QED BY <2>2, <2>3
<1>6. \A v \in Reminders : sending'[v] # 0 => sending'[v] \in batch'[v]
  BY <1>0, <1>1, <1>3 DEF RemindersCounted
<1> QED BY <1>1, <1>4, <1>5, <1>6, ReminderFrame DEF PickupInv, RemindersCounted

LEMMA SendReminderInv ==
  ASSUME PickupInv, NEW w \in Reminders, NEW n \in Row, SendPickupReminder(w, n)
  PROVE  PickupInv'
<1>0. PickupTypeOK /\ RemindersCounted
  BY DEF PickupInv
<1>1. PICK d \in {0, 1} :
        /\ sending[w] = 0 /\ n \in batch[w] /\ sending' = [sending EXCEPT ![w] = n]
        /\ told' = [told EXCEPT ![n] = told[n] + d]
        /\ UNCHANGED <<booking, offer, tap, batch, lost>>
  <2>1. told = [told EXCEPT ![n] = told[n] + 0]
    BY <1>0 DEF PickupTypeOK
  <2> QED BY <2>1 DEF SendPickupReminder
<1>2. /\ \A v \in Reminders : sending'[v] = IF v = w THEN n ELSE sending[v]
      /\ \A j \in Row : told'[j] = IF j = n THEN told[n] + d ELSE told[j]
      /\ told[n] \in Nat /\ lost \in Nat /\ n # 0
  BY <1>0, <1>1 DEF PickupTypeOK, Row
<1>3. PickupTypeOK'
  <2>1. told[n] + d \in Nat
    BY <1>2
  <2> QED BY <1>0, <1>1, <2>1 DEF PickupTypeOK
<1>4. ASSUME NEW j \in Row PROVE SendCount(j)' /\ SentCount(j)' /\ Unchosen(j)'
  <2>0. SendCount(j) /\ SentCount(j) /\ Unchosen(j)
    BY <1>0 DEF RemindersCounted
  <2>1. CASE j = n
    <3>1. ToSend(n)' = ToSend(n) \ {w} /\ w \in ToSend(n)
      BY <1>1, <1>2 DEF ToSend
    <3>2. SentBy(n)' = SentBy(n) \cup {w} /\ w \notin SentBy(n)
      BY <1>1, <1>2 DEF SentBy
    <3>3. /\ Cardinality(ToSend(n)') = Cardinality(ToSend(n)) - 1
          /\ Cardinality(SentBy(n)') = Cardinality(SentBy(n)) + 1
      <4>1. IsFiniteSet(ToSend(n)) /\ IsFiniteSet(SentBy(n))
        BY ReminderSizes
      <4>2. Cardinality(ToSend(n) \ {w}) = Cardinality(ToSend(n)) - 1
        BY <3>1, <4>1, FS_RemoveElement
      <4>3. Cardinality(SentBy(n) \cup {w}) = Cardinality(SentBy(n)) + 1
        BY <3>2, <4>1, FS_AddElement
      <4> QED BY <3>1, <3>2, <4>2, <4>3
    <3>4. SendCount(j)'
      BY <1>1, <1>2, <2>0, <2>1, <3>3, ReminderSizes, PickupSizes DEF SendCount
    <3>5. SentCount(j)'
      BY <1>1, <1>2, <2>0, <2>1, <3>3, ReminderSizes, PickupSizes DEF SentCount
    <3>6. Unchosen(j)'
      BY <1>1, <2>0, <2>1 DEF Unchosen
    <3> QED BY <3>4, <3>5, <3>6
  <2>2. CASE j # n
    <3>1. ToSend(j)' = ToSend(j) /\ SentBy(j)' = SentBy(j)
      <4>1. j # 0
        BY DEF Row
      <4> QED BY <1>1, <1>2, <2>2, <4>1 DEF ToSend, SentBy
    <3> QED BY <1>1, <1>2, <2>0, <2>2, <3>1 DEF SendCount, SentCount, Unchosen
  <2> QED BY <2>1, <2>2
<1>5. \A v \in Reminders : sending'[v] # 0 => sending'[v] \in batch'[v]
  BY <1>0, <1>1, <1>2 DEF RemindersCounted
<1> QED BY <1>1, <1>3, <1>4, <1>5, ReminderFrame DEF PickupInv, RemindersCounted

LEMMA MarkRemindedInv == ASSUME PickupInv, NEW w \in Reminders, MarkReminded(w) PROVE PickupInv'
<1>0. PickupTypeOK /\ RowsInOrder /\ TapsHold /\ SlotsCounted /\ OffersCounted /\ RemindersCounted
  BY DEF PickupInv
<1>1. PICK n \in Row : sending[w] = n /\ n # 0
  BY <1>0 DEF MarkReminded, PickupTypeOK
<1> DEFINE b == [booking[n] EXCEPT !.status = "REMINDED"]
<1>2. /\ booking' = [booking EXCEPT ![n] = b] /\ batch' = [batch EXCEPT ![w] = batch[w] \ {n}]
      /\ sending' = [sending EXCEPT ![w] = 0]
      /\ UNCHANGED <<offer, tap, told, lost>>
  BY <1>1 DEF MarkReminded
<1>3. n \in batch[w] /\ booking[n].status \in {"CHOSEN", "REMINDED"} /\ booking[n].slot # "none"
  BY <1>0, <1>1 DEF RemindersCounted, Unchosen
<1>4. n \in PickupRows /\ booking[n] \in Bookings
  BY <1>0, <1>3, BookingKinds
<1>5. b \in Bookings /\ b.status = "REMINDED" /\ b.slot = booking[n].slot /\ b.card = booking[n].card
  BY <1>4 DEF Bookings
<1> HIDE DEF b
<1>6. /\ \A j \in Row : booking'[j] = IF j = n THEN b ELSE booking[j]
      /\ booking' \in [Row -> Bookings \cup {NoBooking}]
      /\ PickupRows' = PickupRows /\ RowsInOrder' /\ OffersCounted'
  BY <1>0, <1>2, <1>4, <1>5, BookingMoves
<1>7. /\ \A v \in Reminders : sending'[v] = IF v = w THEN 0 ELSE sending[v]
      /\ \A v \in Reminders : batch'[v] = IF v = w THEN batch[w] \ {n} ELSE batch[v]
  BY <1>0, <1>2 DEF PickupTypeOK
<1>8. PickupTypeOK'
  BY <1>0, <1>2, <1>6 DEF PickupTypeOK
<1>9. TapsHold'
  <2>1. \A u \in Taps : tap[u] # NoTap => tap[u].row \in Row
    BY <1>0 DEF PickupTypeOK
  <2> QED BY <1>0, <1>2, <1>3, <1>6, <2>1 DEF TapsHold
<1>10. SlotsCounted'
  <2>1. \A s \in Slots : Holders(s)' = Holders(s)
    BY <1>5, <1>6 DEF Holders, PickupRows
  <2> QED BY <1>0, <1>2, <2>1, SlotsStay
<1>11. ASSUME NEW j \in Row PROVE SendCount(j)' /\ SentCount(j)' /\ Unchosen(j)'
  <2>0. SendCount(j) /\ SentCount(j) /\ Unchosen(j)
    BY <1>0 DEF RemindersCounted
  <2>1. ToSend(j)' = ToSend(j)
    BY <1>1, <1>7 DEF ToSend, Row
  <2>2. CASE j = n
    BY <1>2, <1>3, <1>5, <1>6, <2>0, <2>1, <2>2 DEF SendCount, SentCount, Unchosen
  <2>3. CASE j # n
    <3>1. SentBy(j)' = SentBy(j)
      <4>1. j # 0
        BY DEF Row
      <4> QED BY <1>1, <1>7, <2>3, <4>1 DEF SentBy
    <3>2. Unchosen(j)'
      BY <1>2, <1>6, <1>7, <2>0, <2>3 DEF Unchosen
    <3> QED BY <1>2, <1>6, <2>0, <2>1, <2>3, <3>1, <3>2 DEF SendCount, SentCount
  <2> QED BY <2>2, <2>3
<1>12. \A v \in Reminders : sending'[v] # 0 => sending'[v] \in batch'[v]
  BY <1>0, <1>7 DEF RemindersCounted
<1> QED BY <1>6, <1>8, <1>9, <1>10, <1>11, <1>12 DEF PickupInv, RemindersCounted

LEMMA LoseRemindersInv == ASSUME PickupInv, NEW w \in Reminders, LoseReminders(w) PROVE PickupInv'
<1>0. PickupTypeOK /\ RemindersCounted
  BY DEF PickupInv
<1>1. /\ lost' = lost + 1 /\ batch' = [batch EXCEPT ![w] = {}] /\ sending' = [sending EXCEPT ![w] = 0]
      /\ UNCHANGED <<booking, offer, tap, told>>
  BY DEF LoseReminders
<1>2. /\ \A v \in Reminders : sending'[v] = IF v = w THEN 0 ELSE sending[v]
      /\ \A v \in Reminders : batch'[v] = IF v = w THEN {} ELSE batch[v]
  BY <1>0, <1>1 DEF PickupTypeOK
<1>3. PickupTypeOK'
  BY <1>0, <1>1 DEF PickupTypeOK
<1>4. ASSUME NEW n \in Row PROVE SendCount(n)' /\ SentCount(n)' /\ Unchosen(n)'
  <2>0. SendCount(n) /\ SentCount(n) /\ Unchosen(n) /\ told[n] \in Nat /\ lost \in Nat
    BY <1>0 DEF RemindersCounted, PickupTypeOK
  <2>1. ToSend(n)' \subseteq ToSend(n)
    BY <1>2 DEF ToSend, Row
  <2>2. Cardinality(ToSend(n)') \in Nat /\ Cardinality(ToSend(n)') <= Cardinality(ToSend(n))
    BY <2>1, ReminderSizes, FS_Subset, FS_CardinalityType
  <2>3. SentBy(n)' = SentBy(n) \ {w}
    BY <1>2 DEF SentBy, Row
  <2>4. Cardinality(SentBy(n)') \in {Cardinality(SentBy(n)), Cardinality(SentBy(n)) - 1}
    BY <2>3, ReminderSizes, FS_RemoveElement
  <2>5. SendCount(n)'
    BY <1>1, <2>0, <2>2, ReminderSizes, PickupSizes DEF SendCount
  <2>6. SentCount(n)'
    BY <1>1, <2>0, <2>4, ReminderSizes DEF SentCount
  <2>7. Unchosen(n)'
    BY <1>1, <1>2, <2>0 DEF Unchosen
  <2> QED BY <2>5, <2>6, <2>7
<1>5. \A v \in Reminders : sending'[v] # 0 => sending'[v] \in batch'[v]
  BY <1>0, <1>2 DEF RemindersCounted
<1> QED BY <1>1, <1>3, <1>4, <1>5, ReminderFrame DEF PickupInv, RemindersCounted

LEMMA PickupStep == PickupInv /\ [DeliveryNext]_pickupVars => PickupInv'
<1> SUFFICES ASSUME PickupInv, [DeliveryNext]_pickupVars PROVE PickupInv'
  OBVIOUS
<1>1. CASE \/ \E s \in Slots : SlotPasses(s)
           \/ UNCHANGED pickupVars
  <2>1. UNCHANGED <<booking, offer, tap, batch, sending, told, lost>>
    BY <1>1 DEF SlotPasses, pickupVars
  <2>2. PickupTypeOK' /\ RemindersCounted'
    BY <2>1, RemindersStay DEF PickupInv, PickupTypeOK
  <2> QED BY <2>1, <2>2, ReminderFrame DEF PickupInv
<1>2. ASSUME NEW c \in Callers, InsertBooking(c) \/ AttachOffer(c) \/ \E k \in Cards : LoadReady(c, k)
      PROVE  PickupInv'
  BY <1>2, InsertBookingInv, AttachOfferInv, LoadReadyInv
<1>3. ASSUME NEW t \in Taps, CommitChoice(t) \/ \E n \in PickupRows, s \in Slots : ReadChoice(t, n, s)
      PROVE  PickupInv'
  BY <1>3, CommitChoiceInv, ReadChoiceInv
<1>4. ASSUME NEW w \in Reminders,
             \/ ClaimReminders(w) \/ MarkReminded(w) \/ LoseReminders(w)
             \/ \E n \in Row : SendPickupReminder(w, n)
      PROVE  PickupInv'
  BY <1>4, ClaimRemindersInv, MarkRemindedInv, LoseRemindersInv, SendReminderInv
<1> QED BY <1>1, <1>2, <1>3, <1>4 DEF DeliveryNext

\* What a chosen booking says of its slot no step changes.
LEMMA SlotStays ==
  ASSUME PickupInv, [DeliveryNext]_pickupVars, NEW n \in PickupRows, booking[n].slot # "none"
  PROVE  booking'[n].slot = booking[n].slot
<1>0. PickupTypeOK /\ RowsInOrder /\ TapsHold /\ n \in Row
  BY DEF PickupInv, PickupRows
<1>1. ASSUME NEW c \in Callers, InsertBooking(c) PROVE booking'[n] = booking[n]
  <2>1. n # Cardinality(PickupRows) + 1
    BY <1>0, PickupSizes DEF RowsInOrder
  <2> QED BY <1>0, <1>1, <2>1 DEF InsertBooking, PickupTypeOK
<1>2. ASSUME NEW t \in Taps, CommitChoice(t) PROVE booking'[n] = booking[n]
  <2>1. tap[t].row # n
    BY <1>0, <1>2 DEF CommitChoice, TapsHold
  <2> QED BY <1>0, <1>2, <2>1 DEF CommitChoice, PickupTypeOK
<1>3. ASSUME NEW w \in Reminders, MarkReminded(w) PROVE booking'[n].slot = booking[n].slot
  <2>1. booking[n] \in Bookings
    BY <1>0, BookingKinds
  <2>2. [booking[n] EXCEPT !.status = "REMINDED"].slot = booking[n].slot
    BY <2>1 DEF Bookings
  <2> QED BY <1>0, <1>3, <2>2 DEF MarkReminded, PickupTypeOK
<1>4. CASE \/ \E c \in Callers : AttachOffer(c) \/ \E k \in Cards : LoadReady(c, k)
           \/ \E t \in Taps, j \in PickupRows, s \in Slots : ReadChoice(t, j, s)
           \/ \E s \in Slots : SlotPasses(s)
           \/ \E w \in Reminders : ClaimReminders(w) \/ LoseReminders(w) \/ \E j \in Row : SendPickupReminder(w, j)
           \/ UNCHANGED pickupVars
  BY <1>4 DEF AttachOffer, LoadReady, ReadChoice, SlotPasses, ClaimReminders, LoseReminders,
              SendPickupReminder, pickupVars
<1> QED BY <1>1, <1>2, <1>3, <1>4 DEF DeliveryNext

\* What the shop tells a customer about the pickup holds (announceReady, chooseSlot,
\* claimDueReminders): a slot is overbooked by no more than the taps served at once, a
\* card is offered once for each caller, a customer is reminded once for each worker
\* and fault, and a slot once confirmed is never moved.
THEOREM PickupAlwaysKept == DeliverySpec => PickupIsKept
<1>1. DeliveryInit => PickupInv
  BY PickupInit
<1>2. PickupInv /\ [DeliveryNext]_pickupVars => PickupInv'
  BY PickupStep
<1>3. ASSUME PickupInv PROVE SlotsHold /\ OffersBounded /\ RemindedOnce
  <2>1. SlotsHold
    <3>1. ASSUME NEW s \in Slots PROVE Load(s) <= SlotCapacity + Cardinality(Taps) - 1
      <4>1. SlotCount(s) /\ Load(s) = Cardinality(Holders(s))
        BY <1>3, LoadIs DEF PickupInv, SlotsCounted
      <4>2. Holders(s) \subseteq PickupRows /\ TapsOn(s) \subseteq Taps
        BY DEF Holders, TapsOn
      <4>3. Cardinality(Holders(s)) \in Nat /\ Cardinality(TapsOn(s)) \in Nat
        BY <4>2, PickupSizes, DeliveryConstants, FS_Subset, FS_CardinalityType
      <4> QED BY <4>1, <4>3, PickupSizes, DeliveryConstants DEF SlotCount
    <3> QED BY <3>1 DEF SlotsHold
  <2>2. OffersBounded
    <3>1. ASSUME NEW k \in Cards PROVE Cardinality(OfCard(k)) <= Cardinality(Callers)
      <4>1. OfferCount(k)
        BY <1>3 DEF PickupInv, OffersCounted
      <4>2. OfCard(k) \subseteq PickupRows /\ Offering(k) \subseteq Callers
        BY DEF OfCard, Offering
      <4>3. Cardinality(OfCard(k)) \in Nat /\ Cardinality(Offering(k)) \in Nat
        BY <4>2, PickupSizes, DeliveryConstants, FS_Subset, FS_CardinalityType
      <4> QED BY <4>1, <4>3, PickupSizes DEF OfferCount
    <3> QED BY <3>1 DEF OffersBounded
  <2>3. RemindedOnce
    <3>1. ASSUME NEW n \in Row PROVE told[n] <= Cardinality(Reminders) + lost
      <4>1. SendCount(n) /\ told[n] \in Nat /\ lost \in Nat
        BY <1>3 DEF PickupInv, RemindersCounted, PickupTypeOK
      <4> QED BY <4>1, ReminderSizes, PickupSizes DEF SendCount
    <3> QED BY <3>1 DEF RemindedOnce
  <2> QED BY <2>1, <2>2, <2>3
<1>4. PickupInv /\ [DeliveryNext]_pickupVars =>
        [\A n \in PickupRows : booking[n].slot # "none" => booking'[n].slot = booking[n].slot]_pickupVars
  BY SlotStays
<1> QED BY <1>1, <1>2, <1>3, <1>4, PTL DEF DeliverySpec, PickupIsKept, ChoiceStands
=============================================================================
