------------------------------ MODULE Delivery ------------------------------
(***************************************************************************)
(* Pickup: the ready message that offers slots, the customer's choice and  *)
(* the reminder before it (DeliveryService, PgDeliveryBookingStore, and    *)
(* the sentinel's pickup pass).                                            *)
(*                                                                         *)
(* An offer looks for an open booking in one transaction and inserts in    *)
(* the next.  A choice locks its own booking, counts the slot's other      *)
(* bookings without a lock, and writes, in one transaction.  A reminder's  *)
(* claim ends before the message is sent.                                  *)
(***************************************************************************)
EXTENDS Naturals, FiniteSets

CONSTANTS
  Cards, Slots,
  Callers,       \* callers of announceReady: the event's handler, the console
  Taps,          \* taps on a slot button being served
  Reminders,     \* workers that send pickup reminders
  SlotCapacity,  \* delivery.maxPickupsPerSlot
  MaxBookings, MaxLostReminders  \* bounds on rows and on faults

ASSUME DeliveryConstants ==
  /\ IsFiniteSet(Callers) /\ IsFiniteSet(Taps) /\ IsFiniteSet(Reminders)
  /\ "none" \notin Cards \cup Slots
  /\ SlotCapacity \in Nat \ {0} /\ MaxBookings \in Nat /\ MaxLostReminders \in Nat

VARIABLES
  booking,  \* booking[n]: the n-th delivery_bookings row
  offer,    \* offer[c]: the announceReady call c is at work on
  tap,      \* tap[t]: the choice t is about to commit, its booking locked
  batch,    \* batch[w]: bookings w has claimed and not yet reminded
  sending,  \* sending[w]: the booking whose reminder w has handed to the gate
  left,     \* slots whose start has passed
  told,     \* told[n]: reminders the customer got for the row
  lost      \* faults so far

pickupVars == <<booking, offer, tap, batch, sending, left, told, lost>>

Row == 1..MaxBookings
NoBooking == [card |-> "none", status |-> "none", slots |-> {}, slot |-> "none"]
NoOffer == [card |-> "none", slots |-> {}, row |-> 0]
NoTap == [row |-> 0, slot |-> "none"]
PickupRows == {n \in Row : booking[n] # NoBooking}
OfCard(k) == {n \in PickupRows : booking[n].card = k}

\* bookedSlotsBetween: how many bookings hold the slot; none is ever cancelled.
Load(s) == Cardinality({n \in PickupRows : booking[n].slot = s})

DeliveryInit ==
  /\ booking = [n \in Row |-> NoBooking]
  /\ offer = [c \in Callers |-> NoOffer]
  /\ tap = [t \in Taps |-> NoTap]
  /\ batch = [w \in Reminders |-> {}] /\ sending = [w \in Reminders |-> 0]
  /\ left = {} /\ told = [n \in Row |-> 0] /\ lost = 0
-----------------------------------------------------------------------------
(* announceReady *)

\* findOpenForCard: nothing in the code completes or cancels a booking.
OpenBooking(k) == {n \in OfCard(k) : booking[n].status \in {"OFFERED", "CHOSEN", "REMINDED"}}

\* suggestSlots: the bins still ahead with room.
Suggested == {s \in Slots \ left : Load(s) < SlotCapacity}

LoadReady(c, k) ==
  /\ offer[c] = NoOffer /\ OpenBooking(k) = {}
  /\ offer' = [offer EXCEPT ![c] = [card |-> k, slots |-> Suggested, row |-> 0]]
  /\ UNCHANGED <<booking, tap, batch, sending, left, told, lost>>

InsertBooking(c) ==
  LET n == Cardinality(PickupRows) + 1 IN
  /\ offer[c].card \in Cards /\ offer[c].row = 0 /\ n \in Row
  /\ booking' = [booking EXCEPT ![n] = [card |-> offer[c].card, status |-> "OFFERED",
                                        slots |-> offer[c].slots, slot |-> "none"]]
  /\ offer' = [offer EXCEPT ![c].row = n]
  /\ UNCHANGED <<tap, batch, sending, left, told, lost>>

\* The message goes through the gate; what it answered is attached, whatever it is.
AttachOffer(c) ==
  /\ offer[c].row # 0
  /\ offer' = [offer EXCEPT ![c] = NoOffer]
  /\ UNCHANGED <<booking, tap, batch, sending, left, told, lost>>
-----------------------------------------------------------------------------
(* chooseSlot *)

\* Mutant: a second tap changes the choice.
MayChooseAgain(n, s) == s \in booking[n].slots \ left

\* A chosen booking is answered with its slot; a slot not offered, or past, is refused.
MayChoose(n, s) == booking[n].slot = "none" /\ s \in booking[n].slots \ left

\* slotStillAvailable
Available(s) == Load(s) < SlotCapacity

ReadChoice(t, n, s) ==
  /\ tap[t] = NoTap /\ \A u \in Taps : tap[u].row # n
  /\ MayChoose(n, s) /\ Available(s)
  /\ tap' = [tap EXCEPT ![t] = [row |-> n, slot |-> s]]
  /\ UNCHANGED <<booking, offer, batch, sending, left, told, lost>>

CommitChoice(t) ==
  LET n == tap[t].row IN
  /\ tap[t] # NoTap
  /\ booking' = [booking EXCEPT ![n] = [booking[n] EXCEPT !.status = "CHOSEN", !.slot = tap[t].slot]]
  /\ tap' = [tap EXCEPT ![t] = NoTap]
  /\ UNCHANGED <<offer, batch, sending, left, told, lost>>

SlotPasses(s) ==
  /\ s \notin left /\ left' = left \cup {s}
  /\ UNCHANGED <<booking, offer, tap, batch, sending, told, lost>>
-----------------------------------------------------------------------------
(* The pickup pass *)

\* claimDueReminders; whether the lead time has come is left open.
Due == {n \in PickupRows : booking[n].status = "CHOSEN"}

ClaimReminders(w) ==
  /\ batch[w] = {} /\ sending[w] = 0
  /\ \E D \in SUBSET Due \ {{}} : batch' = [batch EXCEPT ![w] = D]
  /\ UNCHANGED <<booking, offer, tap, sending, left, told, lost>>

\* The gate may refuse or hold it as well; nothing looks at the booking again.
SendPickupReminder(w, n) ==
  /\ sending[w] = 0 /\ n \in batch[w]
  /\ sending' = [sending EXCEPT ![w] = n]
  /\ told' \in {told, [told EXCEPT ![n] = told[n] + 1]}
  /\ UNCHANGED <<booking, offer, tap, batch, left, lost>>

\* Marked whatever became of the message.
MarkReminded(w) ==
  LET n == sending[w] IN
  /\ n # 0
  /\ booking' = [booking EXCEPT ![n] = [booking[n] EXCEPT !.status = "REMINDED"]]
  /\ batch' = [batch EXCEPT ![w] = batch[w] \ {n}]
  /\ sending' = [sending EXCEPT ![w] = 0]
  /\ UNCHANGED <<offer, tap, left, told, lost>>

\* The worker dies, or a call throws and the pass ends.
LoseReminders(w) ==
  /\ lost < MaxLostReminders /\ batch[w] # {}
  /\ lost' = lost + 1
  /\ batch' = [batch EXCEPT ![w] = {}] /\ sending' = [sending EXCEPT ![w] = 0]
  /\ UNCHANGED <<booking, offer, tap, left, told>>

DeliveryNext ==
  \/ \E c \in Callers : InsertBooking(c) \/ AttachOffer(c) \/ \E k \in Cards : LoadReady(c, k)
  \/ \E t \in Taps : CommitChoice(t) \/ \E n \in PickupRows, s \in Slots : ReadChoice(t, n, s)
  \/ \E s \in Slots : SlotPasses(s)
  \/ \E w \in Reminders : \/ ClaimReminders(w) \/ MarkReminded(w) \/ LoseReminders(w)
                          \/ \E n \in Row : SendPickupReminder(w, n)

DeliverySpec == DeliveryInit /\ [][DeliveryNext]_pickupVars
-----------------------------------------------------------------------------
(* Properties. *)

\* Choices are counted without a lock over the slot: it takes one more car for
\* every choice that commits at the same moment, and no more.
SlotsHold == \A s \in Slots : Load(s) <= SlotCapacity + Cardinality(Taps) - 1

\* Looking first keeps the offers of a card to one for each caller at work.
OffersBounded == \A k \in Cards : Cardinality(OfCard(k)) <= Cardinality(Callers)

\* A customer is reminded once, but for workers that claimed the same row and
\* for a pass that died between the message and the mark.
RemindedOnce == \A n \in Row : told[n] <= Cardinality(Reminders) + lost

\* The slot the customer was confirmed is the one the shop keeps: neither a
\* second tap nor the reminder moves it.
ChoiceStands ==
  [][\A n \in PickupRows : booking[n].slot # "none" => booking'[n].slot = booking[n].slot]_pickupVars

\* What the shop has told a customer about the pickup, it keeps to.
PickupIsKept == [](SlotsHold /\ OffersBounded /\ RemindedOnce) /\ ChoiceStands
=============================================================================
