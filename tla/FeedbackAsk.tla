----------------------------- MODULE FeedbackAsk ----------------------------
(***************************************************************************)
(* How a visit went: the ask, its reminder, the answer and the silence     *)
(* (FeedbackService, PgFeedbackStore, the workers' FeedbackSentinel).      *)
(*                                                                         *)
(* A sentinel's pass claims the due requests under row locks that end with *)
(* the claim; each is then sent and marked in transactions of their own,   *)
(* on the row as it was claimed.                                           *)
(***************************************************************************)
EXTENDS Naturals, FiniteSets

CONSTANTS
  Visited,        \* delivered job cards, one request each
  Sentinels,      \* workers
  MaxAskFaults    \* bound on asks that are cut off

ASSUME FeedbackConstants ==
  MaxAskFaults \in Nat /\ IsFiniteSet(Sentinels)

VARIABLES
  feedback,  \* feedback[f]: status and the columns that are set
  clock,     \* clock[f]: scheduled, due (due_at), stale (expires_at)
  asking,    \* asking[w]: requests claimed, as they were then, and the one in hand
  asks,      \* asks[f]: asks and reminders that reached the customer
  unheard,   \* unheard[f]: those sent after the answer, by passes begun after it
  review,    \* review[f]: review asks sent
  askFaults

feedbackVars == <<feedback, clock, asking, asks, unheard, review, askFaults>>

NoRequest == [status |-> "none", asked |-> FALSE, reminded |-> FALSE, sentiment |-> "none"]
NotAsking == [left |-> {}, of |-> "none", reminder |-> FALSE, phase |-> "idle", late |-> FALSE]
Answered(f) == feedback[f].sentiment # "none"

FeedbackInit ==
  /\ feedback = [f \in Visited |-> NoRequest] /\ clock = [f \in Visited |-> "scheduled"]
  /\ asking = [w \in Sentinels |-> NotAsking]
  /\ asks = [f \in Visited |-> [ask |-> 0, reminder |-> 0]]
  /\ unheard = [f \in Visited |-> 0] /\ review = [f \in Visited |-> 0] /\ askFaults = 0
-----------------------------------------------------------------------------
\* On DELIVERED; a redelivered event meets the unique index on the card.
ScheduleAsk(f) ==
  /\ feedback[f] = NoRequest
  /\ feedback' = [feedback EXCEPT ![f].status = "SCHEDULED"]
  /\ UNCHANGED <<clock, asking, asks, unheard, review, askFaults>>

AskFallsDue(f) ==
  /\ feedback[f] # NoRequest /\ clock[f] = "scheduled"
  /\ clock' = [clock EXCEPT ![f] = "due"]
  /\ UNCHANGED <<feedback, asking, asks, unheard, review, askFaults>>

AskGoesStale(f) ==
  /\ clock[f] = "due" /\ clock' = [clock EXCEPT ![f] = "stale"]
  /\ UNCHANGED <<feedback, asking, asks, unheard, review, askFaults>>

\* Mutant: a request asked is a request due, reminded or not.
DueWhileOpen(f) ==
  /\ clock[f] = "due" /\ feedback[f].status \in {"SCHEDULED", "ASKED"} /\ ~Answered(f)

\* claimDue: a reminder is due as soon as the ask is.
DueAsk(f) ==
  /\ clock[f] = "due" /\ feedback[f].status \in {"SCHEDULED", "ASKED"} /\ ~Answered(f)
  /\ ~feedback[f].asked \/ ~feedback[f].reminded

ClaimAsks(w) ==
  /\ asking[w] = NotAsking
  /\ LET due == {f \in Visited : DueAsk(f)} IN
       /\ due # {}
       /\ asking' = [asking EXCEPT ![w].left = {[of |-> f, reminder |-> feedback[f].asked,
                                                 late |-> Answered(f)] : f \in due}]
  /\ UNCHANGED <<feedback, clock, asks, unheard, review, askFaults>>

TakeAsk(w) == \E c \in asking[w].left :
  /\ asking[w].phase = "idle"
  /\ asking' = [asking EXCEPT ![w] = [left |-> asking[w].left \ {c}, of |-> c.of,
                                      reminder |-> c.reminder, phase |-> "sending", late |-> c.late]]
  /\ UNCHANGED <<feedback, clock, asks, unheard, review, askFaults>>

\* The gate sends, holds or refuses; whichever, the request is marked next.
SendAsk(w, arrives) ==
  LET a == asking[w] IN
  /\ a.phase = "sending"
  /\ asks' = IF ~arrives THEN asks
             ELSE IF a.reminder THEN [asks EXCEPT ![a.of].reminder = asks[a.of].reminder + 1]
             ELSE [asks EXCEPT ![a.of].ask = asks[a.of].ask + 1]
  /\ unheard' = IF arrives /\ a.late THEN [unheard EXCEPT ![a.of] = unheard[a.of] + 1] ELSE unheard
  /\ asking' = [asking EXCEPT ![w].phase = "marking"]
  /\ UNCHANGED <<feedback, clock, review, askFaults>>

\* The customer has no thread to be asked on: the request stays due, unmarked.
NoThread(w) ==
  /\ asking[w].phase = "sending"
  /\ asking' = [asking EXCEPT ![w] = [NotAsking EXCEPT !.left = asking[w].left]]
  /\ UNCHANGED <<feedback, clock, asks, unheard, review, askFaults>>

\* markAsked sets the status, whatever it has become.
MarkAsked(w) ==
  LET a == asking[w] IN
  /\ a.phase = "marking"
  /\ feedback' = [feedback EXCEPT ![a.of] =
       [status |-> "ASKED", asked |-> feedback[a.of].asked \/ ~a.reminder,
        reminded |-> feedback[a.of].reminded \/ a.reminder, sentiment |-> feedback[a.of].sentiment]]
  /\ asking' = [asking EXCEPT ![w] = [NotAsking EXCEPT !.left = a.left]]
  /\ UNCHANGED <<clock, asks, unheard, review, askFaults>>

\* The worker dies, or an ask throws and ends the pass.
AskCutOff(w) ==
  /\ askFaults < MaxAskFaults /\ asking[w] # NotAsking
  /\ askFaults' = askFaults + 1
  /\ asking' = [asking EXCEPT ![w] = NotAsking]
  /\ UNCHANGED <<feedback, clock, asks, unheard, review>>

\* Under the row's lock; a second tap on an old card changes nothing.
FirstAnswer(f) == feedback[f] # NoRequest /\ ~Answered(f)

\* A happy answer is thanked with the review ask, outside the transaction; the
\* gate may refuse it.  What an unhappy one starts is in Retention.
AnswerAsk(f, sentiment, asksReview) ==
  /\ FirstAnswer(f) /\ (asksReview => sentiment = "POSITIVE")
  /\ feedback' = [feedback EXCEPT ![f].status = "ANSWERED", ![f].sentiment = sentiment]
  /\ review' = IF asksReview THEN [review EXCEPT ![f] = review[f] + 1] ELSE review
  /\ UNCHANGED <<clock, asking, asks, unheard, askFaults>>

\* Mutant: only a request that was asked can be met with silence.
SilentAsked(f) == clock[f] = "stale" /\ ~Answered(f) /\ feedback[f].status = "ASKED"

Silent(f) == clock[f] = "stale" /\ ~Answered(f) /\ feedback[f].status # "EXPIRED"

\* After the asks of a pass.
ExpireAsks(w) ==
  /\ asking[w] = NotAsking
  /\ \E f \in Visited : Silent(f)
  /\ feedback' = [f \in Visited |->
       IF Silent(f) THEN [feedback[f] EXCEPT !.status = "EXPIRED"] ELSE feedback[f]]
  /\ UNCHANGED <<clock, asking, asks, unheard, review, askFaults>>

Asking(w) ==
  \/ ClaimAsks(w) \/ TakeAsk(w) \/ MarkAsked(w) \/ ExpireAsks(w)
  \/ SendAsk(w, TRUE) \/ SendAsk(w, FALSE) \/ NoThread(w)

FeedbackNext ==
  \/ \E f \in Visited : ScheduleAsk(f) \/ AskFallsDue(f) \/ AskGoesStale(f)
  \/ \E w \in Sentinels : Asking(w) \/ AskCutOff(w)
  \/ \E f \in Visited, s \in {"POSITIVE", "NEUTRAL", "NEGATIVE"}, r \in BOOLEAN : AnswerAsk(f, s, r)

FeedbackSpec == FeedbackInit /\ [][FeedbackNext]_feedbackVars
-----------------------------------------------------------------------------
(* Properties. *)

\* A customer is asked once and reminded once, except for workers that claim the
\* same request at once and asks cut off before their mark.
AskedOncePerPass ==
  \A f \in Visited :
    /\ asks[f].ask <= Cardinality(Sentinels) + askFaults
    /\ asks[f].reminder <= Cardinality(Sentinels) + askFaults

\* No pass that begins after the answer asks again, although a pass that began
\* before may have put the status back to ASKED; and a review is asked for once.
AnswerEndsTheAsk == \A f \in Visited : unheard[f] = 0 /\ review[f] <= 1

AsksAreFair == AskedOncePerPass /\ AnswerEndsTheAsk

\* Every visit ends in an answer or a recorded silence.
SilenceIsRecorded ==
  \A f \in Visited : feedback[f] # NoRequest ~> Answered(f) \/ feedback[f].status = "EXPIRED"
=============================================================================
