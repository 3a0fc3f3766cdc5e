--------------------------- MODULE JobCardProofs ----------------------------
(***************************************************************************)
(* Proofs about JobCard, for any set of items and callers: type            *)
(* correctness, the ledger and the approval of work in every shop; and,    *)
(* where payment is collected before delivery, that a delivered vehicle's  *)
(* card stays delivered and that no unapproved work waits for payment.     *)
(* And about StatusSignal: a note acts once, and only by JobCard's steps.  *)
(***************************************************************************)
EXTENDS StatusSignal, TLAPS

\* The row lock: at most one caller is between its read and its commit, and
\* the card is still in the state it read.
LockHeld ==
  /\ \A p, q \in Procs : tx[p] # NoTx /\ tx[q] # NoTx => p = q
  /\ \A p \in Procs : tx[p] # NoTx => <<card, tx[p].event, tx[p].to>> \in CardEdges

\* What of a guard is still true when its transaction commits.
GuardKept ==
  \A p \in Procs : tx[p] # NoTx =>
    /\ card = "DELIVERED" /\ tx[p].event = "PAYMENT_REQUESTED" => ~PaymentFirst
    /\ tx[p].to = "AWAITING_PAYMENT" /\ PaymentFirst => UnapprovedRequired = {}

PaymentFirstInv == PaymentFirst => DeliveredStaysDelivered /\ NoUnapprovedBill

\* The last audit record leads to the card's state.
AuditIsCurrent == audit.to = card

JInv ==
  /\ AuditIsCurrent
  /\ TypeOK /\ LockHeld /\ GuardKept /\ PaymentFirstInv /\ LedgerIsTheDecision /\ WorkWasApproved
-----------------------------------------------------------------------------
(* Facts about the two tables. *)

LEMMA NoTxIsNone == NoTx.to \notin CardState
BY DEF NoTx, CardState

LEMMA CardEdgeType ==
  ASSUME NEW s, NEW ev, NEW t, <<s, ev, t>> \in CardEdges
  PROVE  s \in CardState /\ ev \in CardEvent /\ t \in CardState
BY DEF CardEdges, CardState, CardEvent

\* Where the edges of a delivered card lead, and what leads to AWAITING_PAYMENT.
LEMMA DeliveredEdges ==
  ASSUME NEW s, NEW ev, NEW t, <<s, ev, t>> \in CardEdges
  PROVE  /\ s = "DELIVERED" => ev = "PAYMENT_REQUESTED" \/ t = "CLOSED"
         /\ s # "CLOSED"
         /\ t = "AWAITING_PAYMENT" => ev = "PAYMENT_REQUESTED" /\ s \in {"READY_FOR_DELIVERY", "DELIVERED"}
BY DEF CardEdges, CardState

\* No edge leads back to an undecided item, and only APPROVE to approved work.
LEMMA ItemEdgeFacts ==
  ASSUME NEW s, NEW ev, NEW t, <<s, ev, t>> \in ItemEdges
  PROVE  /\ t \in ItemState
         /\ t \in {"PROPOSED", "PENDING_APPROVAL"} => s \in {"PROPOSED", "PENDING_APPROVAL"}
         /\ t \in {"IN_PROGRESS", "DONE"} => s \in {"APPROVED", "IN_PROGRESS"}
         /\ s \notin {"DECLINED", "DEFERRED"}
         /\ ev \in {"DECLINE", "DEFER"} <=> t \in {"DECLINED", "DEFERRED"}
BY DEF ItemEdges, ItemState
-----------------------------------------------------------------------------
LEMMA InvInit == Init => JInv
<1> SUFFICES ASSUME Init PROVE JInv
  OBVIOUS
<1>1. TypeOK
  BY DEF Init, TypeOK, CardState, ItemState
<1>2. LockHeld /\ GuardKept
  BY DEF Init, LockHeld, GuardKept
<1>3. PaymentFirstInv /\ LedgerIsTheDecision /\ WorkWasApproved /\ AuditIsCurrent
  BY DEF Init, AuditIsCurrent, PaymentFirstInv, DeliveredStaysDelivered, NoUnapprovedBill, LedgerIsTheDecision,
     WorkWasApproved
<1> QED BY <1>1, <1>2, <1>3 DEF JInv

LEMMA ReadInv ==
  ASSUME JInv, NEW p \in Procs, NEW ev \in CardEvent, ReadCard(p, ev)
  PROVE  JInv'
<1>1. PICK t \in CardState : /\ <<card, ev, t>> \in CardEdges
                             /\ Guard(card, ev)
                             /\ tx' = [tx EXCEPT ![p] = [to |-> t, event |-> ev]]
  BY DEF ReadCard
<1>2. /\ Free
      /\ UNCHANGED <<card, deliveredAt, item, approvedAt, ledger, quoted, invoice, audit>>
  BY DEF ReadCard, itemVars, moneyVars
<1>3. TypeOK'
  BY <1>1, <1>2 DEF JInv, TypeOK
<1>4. \A q \in Procs : tx'[q] # NoTx => q = p /\ tx'[q].to = t /\ tx'[q].event = ev
  BY <1>1, <1>2 DEF JInv, TypeOK, Free
<1>5. LockHeld'
  BY <1>1, <1>2, <1>4 DEF LockHeld
<1>6. card = "DELIVERED" /\ ev = "PAYMENT_REQUESTED" => ~PaymentFirst
  BY <1>1 DEF Guard
<1>7. t = "AWAITING_PAYMENT" /\ PaymentFirst => UnapprovedRequired = {}
  <2> SUFFICES ASSUME t = "AWAITING_PAYMENT", PaymentFirst PROVE UnapprovedRequired = {}
    OBVIOUS
  <2>1. ev = "PAYMENT_REQUESTED" /\ card = "READY_FOR_DELIVERY"
    BY <1>1, <1>6, DeliveredEdges
  <2> QED BY <1>1, <2>1 DEF Guard
<1>8. UnapprovedRequired' = UnapprovedRequired
  BY <1>2 DEF UnapprovedRequired, Undecided
<1>9. GuardKept'
  BY <1>2, <1>4, <1>6, <1>7, <1>8 DEF GuardKept
<1>10. PaymentFirstInv' /\ LedgerIsTheDecision' /\ WorkWasApproved' /\ AuditIsCurrent'
  BY <1>2, <1>8 DEF JInv, AuditIsCurrent, PaymentFirstInv, DeliveredStaysDelivered, NoUnapprovedBill,
     LedgerIsTheDecision, WorkWasApproved
<1> QED BY <1>3, <1>5, <1>9, <1>10 DEF JInv

LEMMA CommitInv ==
  ASSUME JInv, NEW p \in Procs, CommitCard(p)
  PROVE  JInv'
<1> DEFINE t == tx[p].to
           ev == tx[p].event
<1>1. /\ tx[p] # NoTx
      /\ card' = t
      /\ deliveredAt' = (deliveredAt \/ t = "DELIVERED")
      /\ audit' = [change |-> ev, to |-> t]
      /\ tx' = [tx EXCEPT ![p] = NoTx]
      /\ UNCHANGED <<item, approvedAt, ledger, quoted, invoice>>
  BY DEF CommitCard, itemVars, moneyVars
<1>2. <<card, ev, t>> \in CardEdges
  BY <1>1 DEF JInv, LockHeld
<1>3. TypeOK'
  BY <1>1, <1>2, CardEdgeType DEF JInv, TypeOK
<1>4. \A q \in Procs : tx'[q] = NoTx
  BY <1>1 DEF JInv, TypeOK, LockHeld
<1>5. LockHeld' /\ GuardKept'
  BY <1>4 DEF LockHeld, GuardKept
<1>6. UnapprovedRequired' = UnapprovedRequired
  BY <1>1 DEF UnapprovedRequired, Undecided
<1>7. PaymentFirst => DeliveredStaysDelivered'
  <2> SUFFICES ASSUME PaymentFirst, deliveredAt' PROVE card' \in {"DELIVERED", "CLOSED"}
    BY DEF DeliveredStaysDelivered
  <2>1. CASE t = "DELIVERED"
    BY <1>1, <2>1
  <2>2. CASE t # "DELIVERED"
    <3>1. card = "DELIVERED"
      BY <1>1, <1>2, <2>2, DeliveredEdges DEF JInv, PaymentFirstInv, DeliveredStaysDelivered
    <3>2. ev # "PAYMENT_REQUESTED"
      BY <1>1, <3>1 DEF JInv, GuardKept
    <3> QED BY <1>1, <1>2, <3>1, <3>2, DeliveredEdges
  <2> QED BY <2>1, <2>2
<1>8. PaymentFirst => NoUnapprovedBill'
  BY <1>1, <1>6 DEF JInv, GuardKept, NoUnapprovedBill
<1>9. LedgerIsTheDecision' /\ WorkWasApproved' /\ AuditIsCurrent'
  BY <1>1 DEF JInv, AuditIsCurrent, LedgerIsTheDecision, WorkWasApproved
<1> QED BY <1>3, <1>5, <1>7, <1>8, <1>9 DEF JInv, PaymentFirstInv

LEMMA ItemInv ==
  ASSUME JInv, NEW i \in Items, NEW ev \in ItemEvent, ItemTransition(i, ev)
  PROVE  JInv'
<1>1. PICK t \in ItemState :
        /\ <<item[i], ev, t>> \in ItemEdges
        /\ item' = [item EXCEPT ![i] = t]
        /\ approvedAt' = IF t = "APPROVED" THEN approvedAt \cup {i} ELSE approvedAt
        /\ ledger' = IF ev \in {"DECLINE", "DEFER"} /\ ledger[i] = "none"
                       THEN [ledger EXCEPT ![i] = t] ELSE ledger
  BY DEF ItemTransition
<1>2. UNCHANGED <<card, deliveredAt, quoted, invoice, tx, audit>>
  BY DEF ItemTransition, moneyVars
<1>3. /\ t \in {"PROPOSED", "PENDING_APPROVAL"} => item[i] \in {"PROPOSED", "PENDING_APPROVAL"}
      /\ t \in {"IN_PROGRESS", "DONE"} => item[i] \in {"APPROVED", "IN_PROGRESS"}
      /\ item[i] \notin {"DECLINED", "DEFERRED"}
      /\ ev \in {"DECLINE", "DEFER"} <=> t \in {"DECLINED", "DEFERRED"}
  BY <1>1, ItemEdgeFacts
<1>4. ledger[i] = "none"
  BY <1>3 DEF JInv, LedgerIsTheDecision
<1>5. ledger' = [ledger EXCEPT ![i] = IF t \in {"DECLINED", "DEFERRED"} THEN t ELSE "none"]
  BY <1>1, <1>3, <1>4 DEF JInv, TypeOK
<1>6. TypeOK'
  BY <1>1, <1>2, <1>5 DEF JInv, TypeOK
<1>7. UnapprovedRequired' \subseteq UnapprovedRequired
  BY <1>1, <1>3 DEF UnapprovedRequired, Undecided, JInv, TypeOK
<1>8. LockHeld' /\ GuardKept' /\ PaymentFirstInv' /\ AuditIsCurrent'
  BY <1>2, <1>7 DEF JInv, AuditIsCurrent, LockHeld, GuardKept, PaymentFirstInv, DeliveredStaysDelivered,
     NoUnapprovedBill
<1>9. LedgerIsTheDecision'
  BY <1>1, <1>5 DEF JInv, TypeOK, LedgerIsTheDecision
<1>10. WorkWasApproved'
  BY <1>1, <1>3 DEF JInv, TypeOK, WorkWasApproved, ItemState
<1> QED BY <1>6, <1>8, <1>9, <1>10 DEF JInv

\* Steps that leave the card and its items alone.
LEMMA FrameInv ==
  ASSUME JInv, TypeOK',
         UNCHANGED <<card, deliveredAt, item, approvedAt, ledger>>, audit'.to = card,
         tx' = tx \/ \A p \in Procs : tx'[p] \in {tx[p], NoTx}
  PROVE  JInv'
<1>1. UnapprovedRequired' = UnapprovedRequired
  BY DEF UnapprovedRequired, Undecided
<1>2. LockHeld' /\ GuardKept'
  BY <1>1 DEF JInv, LockHeld, GuardKept
<1>3. PaymentFirstInv' /\ LedgerIsTheDecision' /\ WorkWasApproved' /\ AuditIsCurrent'
  BY <1>1 DEF JInv, AuditIsCurrent, PaymentFirstInv, DeliveredStaysDelivered, NoUnapprovedBill,
     LedgerIsTheDecision, WorkWasApproved
<1> QED BY <1>2, <1>3 DEF JInv

LEMMA InvStep == JInv /\ [Next]_vars => JInv'
<1> SUFFICES ASSUME JInv, [Next]_vars PROVE JInv'
  OBVIOUS
<1>1. CASE UNCHANGED vars
  <2>1. TypeOK'
    BY <1>1 DEF JInv, TypeOK, vars, itemVars, moneyVars
  <2> QED BY <1>1, <2>1, FrameInv DEF vars, itemVars, JInv, AuditIsCurrent
<1>2. ASSUME NEW p \in Procs, NEW ev \in CardEvent, RefuseCard(p, ev) PROVE JInv'
  <2>1. TypeOK'
    BY <1>2 DEF RefuseCard, JInv, TypeOK, itemVars, moneyVars
  <2> QED BY <1>2, <2>1, FrameInv DEF RefuseCard, itemVars
<1>3. ASSUME NEW p \in Procs, RollBackCard(p) PROVE JInv'
  <2>1. TypeOK' /\ \A q \in Procs : tx'[q] \in {tx[q], NoTx}
    BY <1>3 DEF RollBackCard, JInv, TypeOK, itemVars, moneyVars
  <2> QED BY <1>3, <2>1, FrameInv DEF RollBackCard, itemVars, JInv, AuditIsCurrent
<1>4. CASE AcceptEstimate \/ IssueInvoice \/ SettleInvoice
  <2>1. TypeOK'
    BY <1>4 DEF AcceptEstimate, IssueInvoice, SettleInvoice, JInv, TypeOK, itemVars
  <2> QED BY <1>4, <2>1, FrameInv DEF AcceptEstimate, IssueInvoice, SettleInvoice, itemVars, JInv, AuditIsCurrent
<1> QED BY <1>1, <1>2, <1>3, <1>4, ReadInv, CommitInv, ItemInv DEF Next

LEMMA Invariance == Spec => []JInv
BY InvInit, InvStep, PTL DEF Spec

\* Card, items, ledger and audit stay in their ranges.
THEOREM TypeCorrect == Spec => []TypeOK
<1>1. JInv => TypeOK
  BY DEF JInv
<1> QED BY <1>1, Invariance, PTL

\* In every shop, the ledger holds exactly what customers declined or deferred.
THEOREM LedgerCorrect == Spec => []LedgerIsTheDecision
<1>1. JInv => LedgerIsTheDecision
  BY DEF JInv
<1> QED BY <1>1, Invariance, PTL

\* In every shop, work is only done on approved items.
THEOREM ApprovalCorrect == Spec => []WorkWasApproved
<1>1. JInv => WorkWasApproved
  BY DEF JInv
<1> QED BY <1>1, Invariance, PTL

\* Where payment comes first, a delivered vehicle's card ends closed and no other way.
THEOREM DeliveryFinal ==
  ASSUME PaymentFirst PROVE Spec => []DeliveredStaysDelivered
<1>1. JInv => DeliveredStaysDelivered
  BY DEF JInv, PaymentFirstInv
<1> QED BY <1>1, Invariance, PTL

\* Where payment comes first, no unapproved work waits for payment: items never
\* return to an undecided state, so the guard's unlocked read stays true.
THEOREM BillApproved ==
  ASSUME PaymentFirst PROVE Spec => []NoUnapprovedBill
<1>1. JInv => NoUnapprovedBill
  BY DEF JInv, PaymentFirstInv
<1> QED BY <1>1, Invariance, PTL

LEMMA AuditStep ==
  JInv /\ [Next]_vars =>
    [/\ card' # card => <<card, audit'.change, card'>> \in CardEdges
     /\ audit'.to = card']_vars
<1> SUFFICES ASSUME JInv, Next
             PROVE  /\ card' # card => <<card, audit'.change, card'>> \in CardEdges
                    /\ audit'.to = card'
  OBVIOUS
<1>1. audit'.to = card'
  BY InvStep DEF JInv, AuditIsCurrent
<1>2. ASSUME NEW p \in Procs, CommitCard(p)
      PROVE  <<card, audit'.change, card'>> \in CardEdges
  BY <1>2 DEF CommitCard, JInv, LockHeld
<1>3. ASSUME card' # card PROVE \E p \in Procs : CommitCard(p)
  BY <1>3 DEF Next, ReadCard, RefuseCard, RollBackCard, ItemTransition, AcceptEstimate,
     IssueInvoice, SettleInvoice
<1> QED BY <1>1, <1>2, <1>3

\* Concurrent transitions leave an audit chain in which every record starts
\* where the previous one ended.
THEOREM AuditCorrect == Spec => AuditIsContinuous
BY Invariance, AuditStep, PTL DEF Spec, AuditIsContinuous

\* Where payment comes first, all of it at once: card, items, ledger and bill agree.
THEOREM CardCorrect ==
  ASSUME PaymentFirst PROVE Spec => []CardIsSound
<1>1. JInv => CardIsSound
  BY DEF JInv, PaymentFirstInv, CardIsSound
<1> QED BY <1>1, Invariance, PTL
-----------------------------------------------------------------------------
(* The bench's notes.  A note moves the card and its items only by JobCard's  *)
(* own transitions; so what holds of the card holds with notes.               *)

LEMMA NoteInit == SignalInit => JInv
<1> SUFFICES ASSUME SignalInit PROVE JInv
  OBVIOUS
<1>1. TypeOK
  BY DEF SignalInit, TypeOK, CardState, CardEvent, ItemState, NoTx
<1>2. LockHeld /\ GuardKept /\ AuditIsCurrent
  BY DEF SignalInit, LockHeld, GuardKept, AuditIsCurrent
<1>3. PaymentFirstInv
  BY DEF SignalInit, PaymentFirstInv, DeliveredStaysDelivered, NoUnapprovedBill
<1>4. LedgerIsTheDecision /\ WorkWasApproved
  <2>1. \A i \in Items : item[i] \in {"APPROVED", "IN_PROGRESS"} /\ ledger[i] = "none" /\ i \in approvedAt
    BY DEF SignalInit
  <2> QED BY <2>1 DEF LedgerIsTheDecision, WorkWasApproved
<1> QED BY <1>1, <1>2, <1>3, <1>4 DEF JInv

\* What the tables do not know is no event.
LEMMA OnlyEvents ==
  /\ \A p \in Procs : \A ev : ReadCard(p, ev) => ev \in CardEvent
  /\ \A i \in Items : \A ev : ItemTransition(i, ev) => ev \in ItemEvent
<1>1. ASSUME NEW s, NEW ev, NEW t, <<s, ev, t>> \in CardEdges PROVE ev \in CardEvent
  BY <1>1 DEF CardEdges, CardEvent
<1>2. ASSUME NEW s, NEW ev, NEW t, <<s, ev, t>> \in ItemEdges PROVE ev \in ItemEvent
  BY <1>2 DEF ItemEdges, ItemEvent
<1> QED BY <1>1, <1>2 DEF ReadCard, ItemTransition

LEMMA EventIsOne == ASSUME NEW c, NEW type PROVE EventFor(c, type) \in CardEvent \cup {"none"}
<1>1. EventFor(c, type) \in {"PARTS_AWAITED", "PARTS_RECEIVED", "WORK_COMPLETED", "none"}
  BY DEF EventFor
<1> QED BY <1>1 DEF CardEvent

CallAt == {"idle", "matched", "loaded", "claimed", "confirming", "apply", "moving", "final"}
Route == {"none", "ROUTED_TO_EVIDENCE", "AUTO_APPLIED", "PENDING_CONFIRMATION", "AMBIGUOUS",
          "CONFIRMED", "DISCARDED"}
NoteType == {"none", "progress", "blocked_parts", "done", "issue_found"}
SignalRow == [route : Route, type : NoteType, items : SUBSET Items]
CallRow ==
  [at : CallAt, note : Notes \cup {"none"}, state : CardState \cup {"none"},
   items : [Items -> ItemState \cup {"none"}], named : SUBSET Items,
   left : SUBSET (Items \X {"START", "COMPLETE"})]

SignalTypeOK ==
  /\ signal \in [Notes -> SignalRow]
  /\ call \in [Procs -> CallRow]
  /\ \A p \in Procs : call[p].at # "idle" => call[p].note \in Notes
  /\ applied \in [Notes -> Nat]
  /\ discarded \subseteq Notes

Waiting == Pending \cup {"none"}
Asking == {"claimed", "confirming"}
Acting == {"apply", "moving", "final"}

\* While nobody's answer to the note overlapped another's: it has acted on the
\* card at most once, not after it was discarded, and not at all while it still
\* waits for an answer; at most one call is answering it, and then it waits.
ActsOnce(n) ==
  /\ signal[n].route \in Waiting => applied[n] = 0 /\ n \notin discarded
  /\ applied[n] <= 1 /\ (n \in discarded => applied[n] = 0)
  /\ \A p \in Answering(n) : signal[n].route \in Pending /\ \A q \in Answering(n) : q = p

NInv ==
  /\ JInv /\ SignalTypeOK
  /\ \A p \in Procs : call[p].at \in Acting => signal[call[p].note].route \notin Waiting
  /\ \A n \in Notes \ raced : ActsOnce(n)

LEMMA NoCallRow == NoCall \in CallRow /\ NoCall.at = "idle"
  BY DEF NoCall, Call, CallRow, Unread, CallAt

LEMMA NoteStep == ASSUME SignalTypeOK, [SignalNext]_<<jobVars, signalVars>> PROVE [Next]_vars
<1>1. ASSUME UNCHANGED jobVars PROVE [Next]_vars
  BY <1>1 DEF jobVars, vars
<1>2. ASSUME NEW p \in Procs, ApplyItem(p) PROVE [Next]_vars
  <2>1. PICK step \in call[p].left : ItemTransition(step[1], step[2]) \/ UNCHANGED jobVars
    BY <1>2 DEF ApplyItem
  <2>2. step[1] \in Items
    BY <2>1 DEF SignalTypeOK, CallRow
  <2> QED BY <1>1, <2>1, <2>2, OnlyEvents DEF Next
<1>3. ASSUME NEW p \in Procs, ApplyCard(p) PROVE [Next]_vars
  <2> DEFINE ev == EventFor(call[p], signal[call[p].note].type)
  <2>1. CASE ev # "none" /\ (ReadCard(p, ev) \/ RefuseCard(p, ev))
    <3>1. ev \in CardEvent
      BY <2>1, EventIsOne
    <3> HIDE DEF ev
    <3> QED BY <2>1, <3>1 DEF Next
  <2> QED BY <1>1, <1>3, <2>1 DEF ApplyCard
<1>4. ASSUME NEW p \in Procs, CardMoves(p) PROVE [Next]_vars
  BY <1>4 DEF CardMoves, Next
<1>5. ASSUME NEW p \in Procs, CallDies(p) PROVE [Next]_vars
  BY <1>1, <1>5 DEF CallDies, Next
<1>6. ASSUME OthersMove PROVE [Next]_vars
  BY <1>6, OnlyEvents DEF OthersMove, Next
<1>7. ASSUME NEW p \in Procs, NEW n \in Notes, MatchCard(p, n) \/ ClaimPending(p, n) PROVE [Next]_vars
  BY <1>1, <1>7 DEF MatchCard, ClaimPending
<1>8. ASSUME NEW p \in Procs, LoadMatched(p) \/ LoadClaimed(p) \/ Confirm(p) \/ ResolveApplied(p)
      PROVE  [Next]_vars
  BY <1>1, <1>8 DEF LoadMatched, LoadClaimed, Confirm, ResolveApplied
<1>9. ASSUME NEW p \in Procs, NEW named, NEW sure, NEW alone, NEW type,
             InsertSignal(p, type, named, sure, alone)
      PROVE  [Next]_vars
  BY <1>1, <1>9 DEF InsertSignal
<1>10. ASSUME NEW n \in Notes, Discard(n) PROVE [Next]_vars
  BY <1>1, <1>10 DEF Discard
<1>11. ASSUME UNCHANGED <<jobVars, signalVars>> PROVE [Next]_vars
  BY <1>1, <1>11
<1> QED BY <1>2, <1>3, <1>4, <1>5, <1>6, <1>7, <1>8, <1>9, <1>10, <1>11 DEF SignalNext

LEMMA NoteInitInv == SignalInit => NInv
<1> SUFFICES ASSUME SignalInit PROVE NInv
  OBVIOUS
<1>1. JInv
  BY NoteInit
<1>2. \A p \in Procs : call[p] = NoCall
  BY DEF SignalInit
<1>3. SignalTypeOK
  BY <1>2, NoCallRow DEF SignalInit, SignalTypeOK, NoSignal, SignalRow, Route, NoteType
<1>4. \A n \in Notes : ActsOnce(n)
  BY <1>2, NoCallRow DEF SignalInit, ActsOnce, Answering
<1> QED BY <1>1, <1>2, <1>3, <1>4, NoCallRow DEF NInv, Acting

\* One call goes on and its note's row stays: it may not come to answer, nor to
\* act unless it is acting.
LEMMA CallGoesOn ==
  ASSUME NInv, JInv', NEW p \in Procs, NEW c \in CallRow, call' = [call EXCEPT ![p] = c],
         c.at # "idle" => c.note \in Notes,
         c.at \in Asking => call[p].at \in Asking /\ c.note = call[p].note,
         c.at \in Acting => call[p].at \in Acting /\ c.note = call[p].note,
         UNCHANGED <<signal, applied, discarded, raced>>
  PROVE  NInv'
<1>1. \A q \in Procs : call'[q] = IF q = p THEN c ELSE call[q]
  BY DEF NInv, SignalTypeOK
<1>2. SignalTypeOK'
  BY <1>1 DEF NInv, SignalTypeOK
<1>3. \A n \in Notes : Answering(n)' \subseteq Answering(n)
  BY <1>1, NoCallRow DEF Answering, Asking
<1>4. \A n \in Notes \ raced : ActsOnce(n)'
  BY <1>3 DEF NInv, ActsOnce
<1> QED BY <1>1, <1>2, <1>4 DEF NInv

\* What a call carries of the card and the items it loaded.
LEMMA LoadedRow ==
  ASSUME NInv, NEW at \in CallAt, NEW n \in Notes, NEW named \in SUBSET Items
  PROVE  /\ Call(at, n, card, item, named) \in CallRow
         /\ Call(at, n, "none", Unread, named) \in CallRow
         /\ Call(at, n, card, Unread, named) \in CallRow
BY DEF NInv, JInv, TypeOK, Call, CallRow, Unread

\* The rows of a step of p's own that leaves the note's row alone.
LEMMA QuietStep ==
  ASSUME NInv, JInv', NEW p \in Procs, NEW n \in Notes,
         MatchCard(p, n) \/ LoadMatched(p) \/ LoadClaimed(p) \/ ApplyItem(p) \/ ApplyCard(p)
           \/ CardMoves(p) \/ CallDies(p)
  PROVE  NInv'
<1> DEFINE c == call[p]
<1>0. c \in CallRow /\ (c.at # "idle" => c.note \in Notes)
  BY DEF NInv, SignalTypeOK
<1>1. CASE MatchCard(p, n)
  <2>1. Call("matched", n, card, Unread, {}) \in CallRow
    BY LoadedRow DEF CallAt
  <2>2. Call("matched", n, card, Unread, {}).at = "matched" /\ Call("matched", n, card, Unread, {}).note = n
    BY DEF Call
  <2> QED BY <1>1, <2>1, <2>2, CallGoesOn DEF MatchCard, Asking, Acting
<1>2. CASE LoadMatched(p)
  <2> DEFINE d == Call("loaded", c.note, c.state, item, {})
  <2>1. d \in CallRow /\ d.at = "loaded" /\ d.note = c.note
    BY <1>0, <1>2 DEF LoadMatched, NInv, JInv, TypeOK, Call, CallRow, CallAt
  <2>2. call' = [call EXCEPT ![p] = d] /\ UNCHANGED <<signal, applied, discarded, raced>> /\ c.note \in Notes
    BY <1>0, <1>2 DEF LoadMatched
  <2> HIDE DEF d
  <2> QED BY <2>1, <2>2, CallGoesOn DEF Asking, Acting
<1>3. CASE LoadClaimed(p)
  <2> DEFINE d == Call("confirming", c.note, card, item, c.named)
  <2>1. d \in CallRow /\ d.at = "confirming" /\ d.note = c.note
    BY <1>0, <1>3 DEF LoadClaimed, NInv, JInv, TypeOK, Call, CallRow, CallAt
  <2>2. /\ call' = [call EXCEPT ![p] = d] /\ UNCHANGED <<signal, applied, discarded, raced>>
        /\ c.note \in Notes /\ c.at \in Asking
    BY <1>0, <1>3 DEF LoadClaimed, Asking
  <2> HIDE DEF d
  <2> QED BY <2>1, <2>2, CallGoesOn DEF Asking, Acting
<1>4. CASE ApplyItem(p)
  <2>1. PICK step \in c.left : call' = [call EXCEPT ![p].left = c.left \ {step}]
    BY <1>4 DEF ApplyItem
  <2> DEFINE d == [c EXCEPT !.left = c.left \ {step}]
  <2>2. call' = [call EXCEPT ![p] = d] /\ c.at = "apply" /\ UNCHANGED <<signal, applied, discarded, raced>>
    BY <1>4, <2>1 DEF ApplyItem
  <2>3. d \in CallRow /\ d.at = c.at /\ d.note = c.note
    BY <1>0 DEF CallRow
  <2> HIDE DEF d
  <2> QED BY <1>0, <2>2, <2>3, CallGoesOn DEF Asking, Acting
<1>5. CASE ApplyCard(p) \/ CardMoves(p)
  <2>1. /\ Ending(c) \in CallRow /\ Ending(c).at = "final" /\ Ending(c).note = c.note
        /\ [c EXCEPT !.at = "moving"] \in CallRow /\ [c EXCEPT !.at = "moving"].at = "moving"
        /\ [c EXCEPT !.at = "moving"].note = c.note
    BY <1>0 DEF Ending, Call, CallRow, CallAt, Unread
  <2>2. PICK d \in {Ending(c), [c EXCEPT !.at = "moving"]} : call' = [call EXCEPT ![p] = d]
    BY <1>5 DEF ApplyCard, CardMoves
  <2>3. c.at \in Acting /\ UNCHANGED <<signal, applied, discarded, raced>>
    BY <1>5 DEF ApplyCard, CardMoves, Acting
  <2>4. d \in CallRow /\ d.at \in Acting /\ d.note = c.note /\ c.note \in Notes
    BY <1>0, <2>1, <2>2, <2>3 DEF Acting
  <2> QED BY <2>2, <2>3, <2>4, CallGoesOn DEF Asking, Acting
<1>6. CASE CallDies(p)
  BY <1>6, NoCallRow, CallGoesOn DEF CallDies, Asking, Acting
<1> QED BY <1>1, <1>2, <1>3, <1>4, <1>5, <1>6

\* The insert: a first delivery may act at once, and then waits for nobody.
LEMMA InsertInv ==
  ASSUME NInv, JInv', NEW p \in Procs, NEW named \in SUBSET Items, NEW sure \in BOOLEAN,
         NEW alone \in BOOLEAN, NEW type \in {"progress", "blocked_parts", "done", "issue_found"},
         InsertSignal(p, type, named, sure, alone)
  PROVE  NInv'
<1> DEFINE c == call[p]  n == c.note  route == RouteOf(type, named, sure, alone)
           new == [route |-> route, type |-> type, items |-> IF alone THEN named ELSE {}]
           d == IF route = "AUTO_APPLIED" THEN Applying(c, type, named) ELSE NoCall
<1>1. c \in CallRow /\ n \in Notes /\ c.at = "loaded"
  BY DEF InsertSignal, NInv, SignalTypeOK
<1>2. CASE ~FirstDelivery(n)
  BY <1>2, NoCallRow, CallGoesOn DEF InsertSignal, Asking, Acting
<1>3. CASE FirstDelivery(n)
  <2>1. /\ signal' = [signal EXCEPT ![n] = new]
        /\ call' = [call EXCEPT ![p] = d]
        /\ applied' = [applied EXCEPT ![n] = applied[n] + (IF route = "AUTO_APPLIED" THEN 1 ELSE 0)]
        /\ UNCHANGED <<discarded, raced>>
    BY <1>3 DEF InsertSignal
  <2>2. route \in {"AMBIGUOUS", "ROUTED_TO_EVIDENCE", "AUTO_APPLIED", "PENDING_CONFIRMATION"}
    BY DEF RouteOf
  <2>3. new \in SignalRow /\ new.route = route
    BY <2>2 DEF SignalRow, Route, NoteType
  <2>4. Applying(c, type, named) \in CallRow /\ Applying(c, type, named).at = "apply" /\ Applying(c, type, named).note = n
    <3>1. Attempts(type, c.items, named) \in SUBSET (Items \X {"START", "COMPLETE"})
      BY DEF Attempts
    <3> QED BY <1>1, <3>1 DEF Applying, CallRow, CallAt
  <2>5. /\ d \in CallRow /\ (d.at # "idle" => d.note = n /\ route = "AUTO_APPLIED") /\ d.at \in {"apply", "idle"}
    BY <2>4, NoCallRow
  <2>6. signal[n].route = "none"
    BY <1>3 DEF FirstDelivery, NoSignal
  <2> HIDE DEF new, d
  <2>7. /\ \A q \in Procs : call'[q] = IF q = p THEN d ELSE call[q]
        /\ \A m \in Notes : signal'[m] = IF m = n THEN new ELSE signal[m]
        /\ \A m \in Notes \ {n} : applied'[m] = applied[m]
        /\ applied'[n] = applied[n] + (IF route = "AUTO_APPLIED" THEN 1 ELSE 0)
    BY <1>1, <2>1 DEF NInv, SignalTypeOK
  <2>8. SignalTypeOK'
    <3>1. signal' \in [Notes -> SignalRow] /\ call' \in [Procs -> CallRow] /\ applied' \in [Notes -> Nat]
      BY <1>1, <2>1, <2>3, <2>5 DEF NInv, SignalTypeOK
    <3>2. \A q \in Procs : call'[q].at # "idle" => call'[q].note \in Notes
      BY <1>1, <2>5, <2>7 DEF NInv, SignalTypeOK
    <3> QED BY <2>1, <3>1, <3>2 DEF NInv, SignalTypeOK
  <2>9. \A q \in Procs : call'[q].at \in Acting => signal'[call'[q].note].route \notin Waiting
    <3>1. ASSUME NEW q \in Procs, call'[q].at \in Acting PROVE signal'[call'[q].note].route \notin Waiting
      <4>1. CASE q = p
        BY <2>3, <2>5, <2>7, <3>1, <4>1, <1>1 DEF Acting, Waiting, Pending
      <4>2. CASE q # p
        BY <2>6, <2>7, <3>1, <4>2 DEF NInv, Waiting, SignalTypeOK, Acting
      <4> QED BY <4>1, <4>2
    <3> QED BY <3>1
  <2>10. \A m \in Notes : Answering(m)' \subseteq Answering(m)
    BY <2>5, <2>7, NoCallRow DEF Answering
  <2>11. ASSUME NEW m \in Notes \ raced PROVE ActsOnce(m)'
    <3>1. CASE m # n
      BY <2>1, <2>7, <2>10, <3>1 DEF NInv, ActsOnce
    <3>2. CASE m = n
      <4>1. Answering(n) = {} /\ applied[n] = 0 /\ n \notin discarded
        BY <2>6, <3>2 DEF NInv, ActsOnce, Waiting, Pending
      <4>2. signal'[n].route = route /\ applied'[n] = (IF route = "AUTO_APPLIED" THEN 1 ELSE 0)
        BY <1>1, <2>3, <2>7, <4>1
      <4> HIDE DEF n, route
      <4> QED BY <2>1, <2>10, <3>2, <4>1, <4>2, <1>1 DEF ActsOnce, Waiting, Pending
    <3> QED BY <3>1, <3>2
  <2> QED BY <2>1, <2>8, <2>9, <2>11 DEF NInv
<1> QED BY <1>2, <1>3

\* A second call that answers the same note marks it as raced.
LEMMA ClaimInv ==
  ASSUME NInv, JInv', NEW p \in Procs, NEW n \in Notes, ClaimPending(p, n)
  PROVE  NInv'
<1> DEFINE d == Call("claimed", n, "none", Unread, signal[n].items)
<1>1. signal[n].items \in SUBSET Items
  BY DEF NInv, SignalTypeOK, SignalRow
<1>2. d \in CallRow /\ d.at = "claimed" /\ d.note = n
  BY <1>1, LoadedRow DEF Call, CallAt
<1>3. /\ call' = [call EXCEPT ![p] = d] /\ UNCHANGED <<signal, applied, discarded>>
      /\ raced' = (IF Answering(n) # {} THEN raced \cup {n} ELSE raced) /\ signal[n].route \in Pending
  BY DEF ClaimPending
<1> HIDE DEF d
<1>4. \A q \in Procs : call'[q] = IF q = p THEN d ELSE call[q]
  BY <1>3 DEF NInv, SignalTypeOK
<1>5. SignalTypeOK'
  BY <1>2, <1>3, <1>4 DEF NInv, SignalTypeOK
<1>6. \A q \in Procs : call'[q].at \in Acting => signal'[call'[q].note].route \notin Waiting
  BY <1>2, <1>3, <1>4 DEF NInv, Acting
<1>7. /\ \A m \in Notes \ {n} : Answering(m)' \subseteq Answering(m)
      /\ Answering(n)' \subseteq Answering(n) \cup {p}
  BY <1>2, <1>4, NoCallRow DEF Answering
<1>8. ASSUME NEW m \in Notes \ raced' PROVE ActsOnce(m)'
  BY <1>3, <1>7 DEF NInv, ActsOnce
<1> QED BY <1>5, <1>6, <1>8 DEF NInv

\* A note's row is written over: what is left to say of it.
LEMMA RowWritten ==
  ASSUME NInv, JInv', NEW n \in Notes, NEW row \in SignalRow, signal' = [signal EXCEPT ![n] = row],
         call' \in [Procs -> CallRow], applied' \in [Notes -> Nat], discarded' \subseteq Notes,
         \A p \in Procs : call'[p].at # "idle" => call'[p].note \in Notes,
         \A p \in Procs : call'[p].at \in Acting =>
           \/ call'[p].note = n
           \/ call[p].at \in Acting /\ call'[p].note = call[p].note,
         row.route \notin Waiting,
         \A m \in Notes : Answering(m)' \subseteq Answering(m),
         \A m \in Notes \ {n} : applied'[m] = applied[m] /\ (m \in discarded' <=> m \in discarded),
         raced \subseteq raced',
         n \notin raced' => /\ applied'[n] <= 1 /\ (n \in discarded' => applied'[n] = 0)
                            /\ Answering(n)' = {}
  PROVE  NInv'
<1>1. \A m \in Notes : signal'[m] = IF m = n THEN row ELSE signal[m]
  BY DEF NInv, SignalTypeOK
<1>2. SignalTypeOK'
  BY DEF NInv, SignalTypeOK
<1>3. \A p \in Procs : call'[p].at \in Acting => signal'[call'[p].note].route \notin Waiting
  <2>1. ASSUME NEW p \in Procs, call'[p].at \in Acting PROVE signal'[call'[p].note].route \notin Waiting
    <3>1. call'[p].note \in Notes
      BY <2>1 DEF Acting
    <3> QED BY <1>1, <2>1, <3>1 DEF NInv
  <2> QED BY <2>1
<1>4. ASSUME NEW m \in Notes \ raced' PROVE ActsOnce(m)'
  <2>1. CASE m = n
    BY <1>1, <2>1 DEF ActsOnce, Waiting
  <2>2. CASE m # n
    BY <1>1, <2>2 DEF ActsOnce, NInv
  <2> QED BY <2>1, <2>2
<1> QED BY <1>2, <1>3, <1>4 DEF NInv

LEMMA ConfirmInv ==
  ASSUME NInv, JInv', NEW p \in Procs, NEW n \in Notes, n = call[p].note, Confirm(p)
  PROVE  NInv'
<1> DEFINE c == call[p]
           live == LiveOf(c.items)
           named == IF c.named # {} THEN c.named ELSE IF Cardinality(live) = 1 THEN live ELSE {}
           row == [signal[n] EXCEPT !.items = named, !.route = "CONFIRMED"]
           d == Applying(c, signal[n].type, named)
<1>1. c \in CallRow /\ n \in Notes /\ c.at = "confirming" /\ signal[n] \in SignalRow
  BY DEF Confirm, NInv, SignalTypeOK
<1>2. named \in SUBSET Items
  BY <1>1 DEF CallRow, LiveOf
<1>3. /\ signal' = [signal EXCEPT ![n] = row] /\ call' = [call EXCEPT ![p] = d]
      /\ applied' = [applied EXCEPT ![n] = applied[n] + 1] /\ UNCHANGED <<discarded, raced>>
  <2>1. /\ signal' = [signal EXCEPT ![n].items = named, ![n].route = "CONFIRMED"]
        /\ call' = [call EXCEPT ![p] = d]
        /\ applied' = [applied EXCEPT ![n] = applied[n] + 1] /\ UNCHANGED <<discarded, raced>>
    BY DEF Confirm
  <2>2. signal' = [signal EXCEPT ![n] = row]
    BY <1>1, <2>1 DEF NInv, SignalTypeOK
  <2> QED BY <2>1, <2>2
<1>4. d \in CallRow /\ d.at = "apply" /\ d.note = n
  <2> HIDE DEF named
  <2>1. Attempts(signal[n].type, c.items, named) \in SUBSET (Items \X {"START", "COMPLETE"})
    BY <1>2 DEF Attempts
  <2> QED BY <1>1, <1>2, <2>1 DEF Applying, CallRow, CallAt
<1>5. row \in SignalRow /\ row.route = "CONFIRMED"
  <2> HIDE DEF named
  <2> QED BY <1>1, <1>2 DEF SignalRow, Route
<1> HIDE DEF row, d
<1>6. \A q \in Procs : call'[q] = IF q = p THEN d ELSE call[q]
  BY <1>3 DEF NInv, SignalTypeOK
<1>7. call' \in [Procs -> CallRow] /\ applied' \in [Notes -> Nat]
  BY <1>1, <1>3, <1>4 DEF NInv, SignalTypeOK
<1>8. \A q \in Procs : call'[q].at # "idle" => call'[q].note \in Notes
  BY <1>1, <1>4, <1>6 DEF NInv, SignalTypeOK
<1>9. /\ \A m \in Notes : Answering(m)' \subseteq Answering(m) \ {p}
      /\ p \in Answering(n)
  <2>1. d.at \notin {"claimed", "confirming"}
    BY <1>4
  <2> QED BY <1>1, <1>6, <2>1, NoCallRow DEF Answering
<1>10. n \notin raced => /\ applied[n] = 0 /\ n \notin discarded /\ Answering(n) = {p}
  BY <1>1, <1>9 DEF NInv, ActsOnce, Waiting
<1>11. /\ \A m \in Notes \ {n} : applied'[m] = applied[m] /\ (m \in discarded' <=> m \in discarded)
       /\ applied'[n] = applied[n] + 1
  BY <1>1, <1>3 DEF NInv, SignalTypeOK
<1>12. \A q \in Procs : call'[q].at \in Acting =>
         \/ call'[q].note = n
         \/ call[q].at \in Acting /\ call'[q].note = call[q].note
  BY <1>4, <1>6
<1>13. n \notin raced' => /\ applied'[n] <= 1 /\ (n \in discarded' => applied'[n] = 0)
                          /\ Answering(n)' = {}
  BY <1>1, <1>3, <1>9, <1>10, <1>11
<1>14. row.route \notin Waiting /\ discarded' \subseteq Notes /\ raced \subseteq raced'
  BY <1>3, <1>5 DEF Waiting, Pending, NInv, SignalTypeOK
<1>15. \A m \in Notes : Answering(m)' \subseteq Answering(m)
  BY <1>9
<1>16. signal' = [signal EXCEPT ![n] = row]
  BY <1>3
<1> HIDE DEF c
<1> QED BY <1>5, <1>7, <1>8, <1>11, <1>12, <1>13, <1>14, <1>15, <1>16, RowWritten

LEMMA DiscardInv == ASSUME NInv, JInv', NEW n \in Notes, Discard(n) PROVE NInv'
<1> DEFINE row == [signal[n] EXCEPT !.route = "DISCARDED", !.items = {}]
<1>1. signal' = [signal EXCEPT ![n] = row] /\ row \in SignalRow /\ row.route = "DISCARDED"
  BY DEF Discard, NInv, SignalTypeOK, SignalRow, Route
<1>2. /\ discarded' = discarded \cup {n} /\ UNCHANGED <<call, applied>> /\ signal[n].route \in Pending
      /\ raced' = IF Answering(n) # {} THEN raced \cup {n} ELSE raced
  BY DEF Discard
<1>3. \A m \in Notes : Answering(m)' = Answering(m)
  BY <1>2 DEF Answering
<1>4. /\ call' \in [Procs -> CallRow] /\ applied' \in [Notes -> Nat] /\ discarded' \subseteq Notes
      /\ \A p \in Procs : call'[p].at # "idle" => call'[p].note \in Notes
  BY <1>2 DEF NInv, SignalTypeOK
<1>5. n \notin raced' => /\ applied'[n] <= 1 /\ (n \in discarded' => applied'[n] = 0)
                         /\ Answering(n)' = {}
  <2>1. n \notin raced' => n \notin raced /\ Answering(n) = {}
    BY <1>2
  <2>2. n \notin raced => applied'[n] = 0
    BY <1>2 DEF NInv, ActsOnce, Waiting
  <2> QED BY <1>3, <2>1, <2>2
<1>6. row.route \notin Waiting /\ raced \subseteq raced'
  BY <1>1, <1>2 DEF Waiting, Pending
<1>7. \A m \in Notes : Answering(m)' \subseteq Answering(m)
  BY <1>3
<1>8. \A m \in Notes \ {n} : applied'[m] = applied[m] /\ (m \in discarded' <=> m \in discarded)
  BY <1>2
<1>9. \A p \in Procs : call'[p].at \in Acting =>
        \/ call'[p].note = n
        \/ call[p].at \in Acting /\ call'[p].note = call[p].note
  BY <1>2
<1> HIDE DEF row
<1> QED BY <1>1, <1>4, <1>5, <1>6, <1>7, <1>8, <1>9, RowWritten

LEMMA ResolveInv ==
  ASSUME NInv, JInv', NEW p \in Procs, NEW n \in Notes, n = call[p].note, ResolveApplied(p)
  PROVE  NInv'
<1> DEFINE c == call[p]
           row == [signal[n] EXCEPT !.route = "AUTO_APPLIED", !.items = c.named]
<1>1. c \in CallRow /\ n \in Notes /\ c.at = "final" /\ signal[n] \in SignalRow
  BY DEF ResolveApplied, NInv, SignalTypeOK
<1>2. /\ signal' = [signal EXCEPT ![n] = row] /\ call' = [call EXCEPT ![p] = NoCall]
      /\ UNCHANGED <<applied, discarded, raced>>
  <2>1. /\ signal' = [signal EXCEPT ![n].route = "AUTO_APPLIED", ![n].items = c.named]
        /\ call' = [call EXCEPT ![p] = NoCall] /\ UNCHANGED <<applied, discarded, raced>>
    BY DEF ResolveApplied
  <2>2. signal' = [signal EXCEPT ![n] = row]
    BY <1>1, <2>1 DEF NInv, SignalTypeOK
  <2> QED BY <2>1, <2>2
<1>3. row \in SignalRow /\ row.route = "AUTO_APPLIED"
  BY <1>1 DEF SignalRow, Route, CallRow
<1> HIDE DEF row
<1>4. \A q \in Procs : call'[q] = IF q = p THEN NoCall ELSE call[q]
  BY <1>2 DEF NInv, SignalTypeOK
<1>5. call' \in [Procs -> CallRow] /\ applied' \in [Notes -> Nat] /\ discarded' \subseteq Notes
  BY <1>2, NoCallRow DEF NInv, SignalTypeOK
<1>6. /\ \A q \in Procs : call'[q].at # "idle" => call'[q].note \in Notes
      /\ \A q \in Procs : call'[q].at \in Acting => call[q].at \in Acting /\ call'[q].note = call[q].note
  BY <1>4, NoCallRow DEF NInv, SignalTypeOK, Acting
<1>7. \A m \in Notes : Answering(m)' \subseteq Answering(m)
  BY <1>4 DEF Answering
<1>8. n \notin raced => /\ applied[n] <= 1 /\ (n \in discarded => applied[n] = 0) /\ Answering(n) = {}
  BY <1>1 DEF NInv, ActsOnce, Acting, Waiting
<1>9. row.route \notin Waiting /\ raced \subseteq raced' /\ signal' = [signal EXCEPT ![n] = row]
  BY <1>2, <1>3 DEF Waiting, Pending
<1>10. n \notin raced' => /\ applied'[n] <= 1 /\ (n \in discarded' => applied'[n] = 0)
                          /\ Answering(n)' = {}
  BY <1>2, <1>7, <1>8
<1>11. \A m \in Notes \ {n} : applied'[m] = applied[m] /\ (m \in discarded' <=> m \in discarded)
  BY <1>2
<1>12. \A q \in Procs : call'[q].at \in Acting =>
         \/ call'[q].note = n
         \/ call[q].at \in Acting /\ call'[q].note = call[q].note
  BY <1>6
<1> HIDE DEF c
<1> QED BY <1>3, <1>5, <1>6, <1>7, <1>9, <1>10, <1>11, <1>12, RowWritten

LEMMA NoteStepInv == ASSUME NInv, [SignalNext]_<<jobVars, signalVars>> PROVE NInv'
<1>1. JInv'
  BY NoteStep, InvStep DEF NInv
<1>2. ASSUME UNCHANGED signalVars PROVE NInv'
  <2>1. \A n \in Notes : Answering(n)' = Answering(n)
    BY <1>2 DEF signalVars, Answering
  <2> QED BY <1>1, <1>2, <2>1 DEF signalVars, NInv, SignalTypeOK, ActsOnce
<1>3. ASSUME NEW p \in Procs, NEW n \in Notes, MatchCard(p, n) \/ ClaimPending(p, n) PROVE NInv'
  BY <1>1, <1>3, QuietStep, ClaimInv
<1>4. ASSUME NEW p \in Procs,
             LoadMatched(p) \/ LoadClaimed(p) \/ ApplyItem(p) \/ ApplyCard(p) \/ CardMoves(p) \/ CallDies(p)
      PROVE  NInv'
  <2>1. CASE call[p].at = "idle"
    <3>1. CallDies(p)
      BY <1>4, <2>1 DEF LoadMatched, LoadClaimed, ApplyItem, ApplyCard, CardMoves
    <3> QED BY <1>1, <3>1, NoCallRow, CallGoesOn DEF CallDies, Asking, Acting
  <2>2. CASE call[p].at # "idle"
    <3>1. call[p].note \in Notes
      BY <2>2 DEF NInv, SignalTypeOK
    <3> QED BY <1>1, <1>4, <3>1, QuietStep
  <2> QED BY <2>1, <2>2
<1>5. ASSUME NEW p \in Procs, Confirm(p) \/ ResolveApplied(p) PROVE NInv'
  <2>1. call[p].note \in Notes
    BY <1>5 DEF Confirm, ResolveApplied, NInv, SignalTypeOK
  <2> QED BY <1>1, <1>5, <2>1, ConfirmInv, ResolveInv
<1>6. CASE OthersMove
  BY <1>2, <1>6 DEF OthersMove
<1>7. CASE UNCHANGED <<jobVars, signalVars>>
  BY <1>2, <1>7
<1> QED BY <1>1, <1>3, <1>4, <1>5, <1>6, <1>7, InsertInv, DiscardInv DEF SignalNext

LEMMA NotesInvariant == SignalSpec => []NInv
BY NoteInitInv, NoteStepInv, PTL DEF SignalSpec

\* However often a note is delivered and whichever of its calls dies, it acts on
\* the card once, and not after it was discarded, unless two answers overlapped.
THEOREM NoteActs == SignalSpec => []NoteActsOnce
<1>1. NInv => NoteActsOnce
  <2> SUFFICES ASSUME NInv, NEW n \in Notes, n \notin raced
               PROVE  applied[n] <= 1 /\ (n \in discarded => applied[n] = 0)
    BY DEF NoteActsOnce, NInv, SignalTypeOK
  <2> QED BY DEF NInv, ActsOnce
<1> QED BY <1>1, NotesInvariant, PTL

\* Notes move the card and its items by JobCard's own transitions only, so its
\* audit chain is continuous and, where payment comes first, the card is sound,
\* though a note acts on what it loaded in earlier transactions.
THEOREM NotesKeepTheCard ==
  /\ SignalSpec => AuditIsContinuous
  /\ PaymentFirst => (SignalSpec => []CardIsSound)
<1>1. JInv /\ PaymentFirst => CardIsSound
  BY DEF JInv, PaymentFirstInv, CardIsSound
<1>2. NInv /\ [SignalNext]_<<jobVars, signalVars>> =>
        [/\ card' # card => <<card, audit'.change, card'>> \in CardEdges
         /\ audit'.to = card']_vars
  BY NoteStep, AuditStep DEF NInv
<1>3. SignalSpec => AuditIsContinuous
  BY <1>2, NotesInvariant, PTL DEF SignalSpec, AuditIsContinuous
<1>4. ASSUME PaymentFirst PROVE SignalSpec => []CardIsSound
  <2>1. NInv => CardIsSound
    BY <1>1, <1>4 DEF NInv
  <2> QED BY <2>1, NotesInvariant, PTL
<1> QED BY <1>3, <1>4
=============================================================================
