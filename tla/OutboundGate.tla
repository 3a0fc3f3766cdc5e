---------------------------- MODULE OutboundGate ----------------------------
(***************************************************************************)
(* One customer's thread behind the gate every message passes              *)
(* (OutboundGate), the advisors' review queue (ReviewService) and the      *)
(* worker that releases what quiet hours held back (DeferredSendService).  *)
(*                                                                         *)
(* A send decides and writes its row in one transaction, calls the channel *)
(* outside any, and records the answer in a second one; a release does the *)
(* same to a row that exists.  In between, consent, the window, the night  *)
(* and other calls move on.                                                *)
(***************************************************************************)
EXTENDS Naturals, FiniteSets

CONSTANTS
  Messages,   \* requests a composer may hand to the gate, once each
  Procs,      \* concurrent calls into the gate
  Drainers,   \* those of Procs that drain the held messages
  Marketing,  \* messages of purpose MARKETING; the others are SERVICE
  Drafts,     \* messages whose flow is not autonomous: an advisor must approve
  Templates,  \* approved templates; the others are free-form
  Silent,     \* agent messages that do not say an AI is writing
  Acks,       \* confirmations of an opt-out
  Asks,       \* consent asks
  Replies,    \* confirmations of what the customer just did
  Lost,       \* messages whose media has been erased by the time of their release
  Implied,    \* impliedServiceConsentFromCounter
  DailyCap,   \* frequencyCaps.maxOutboundPerCustomerPerDay
  MaxGateFaults, MaxNights   \* bounds on crashes and on nights

ASSUME GateConstants ==
  /\ Drainers \subseteq Procs /\ Drafts \subseteq Messages
  /\ IsFiniteSet(Messages) /\ IsFiniteSet(Procs)
  /\ DailyCap \in Nat \ {0} /\ MaxGateFaults \in Nat /\ MaxNights \in Nat
  /\ Implied \in BOOLEAN

VARIABLES
  msg,       \* msg[m]: messages.status, none before the row is written
  hold,      \* hold[m]: scheduled_for: no, later, or due
  review,    \* review[m]: the one row of message_reviews
  call,      \* call[p]: the message a call is at work on, and how far it is
  claimed,   \* claimed[p]: rows a drain has claimed and not yet released
  channelNamed,     \* messages whose row has a provider id
  recent,    \* messages whose sent_at is within the last day
  consent,   \* the latest consent row of each purpose
  window,    \* the 24-hour window is open
  quiet,     \* the clock is within the quiet hours
  received,  \* received[m]: how often the customer got the message
  after,     \* SERVICE messages received since the customer said stop
  gateFaults, nights

messageVars == <<msg, hold, channelNamed, recent>>
callVars == <<call, claimed>>
customerVars == <<consent, window, quiet, nights>>
vars == <<messageVars, review, callVars, customerVars, received, after, gateFaults>>

Purpose(m) == IF m \in Marketing THEN "MARKETING" ELSE "SERVICE"

NoCall == [msg |-> "none", phase |-> "idle"]
At(m, phase) == [msg |-> m, phase |-> phase]

Init ==
  /\ msg = [m \in Messages |-> "none"]
  /\ hold = [m \in Messages |-> "no"]
  /\ review = [m \in Messages |-> "none"]
  /\ call = [p \in Procs |-> NoCall]
  /\ claimed = [p \in Procs |-> {}]
  /\ channelNamed = {} /\ recent = {}
  /\ consent = [c \in {"SERVICE", "MARKETING"} |-> "none"]
  /\ window \in BOOLEAN /\ quiet = FALSE
  /\ received = [m \in Messages |-> 0]
  /\ after = 0 /\ gateFaults = 0 /\ nights = 0
-----------------------------------------------------------------------------
(* The decision. *)

\* consentDecision; only a fresh send can be an ack or an ask.
ConsentRefuses(m, fresh) ==
  LET c == consent[Purpose(m)] IN
  IF c = "REVOKED" THEN ~(fresh /\ m \in Acks)
  ELSE IF m \in Marketing THEN c # "GRANTED"
  ELSE ~window /\ ~Implied /\ c # "GRANTED" /\ ~(fresh /\ m \in Asks \cap Templates)

WindowRefuses(m) == ~window /\ m \notin Templates

\* Any earlier row of the thread counts as an earlier contact, whatever became
\* of it; at a release the row itself does.
DisclosureRefuses(m, fresh) ==
  m \in Silent /\ ~(fresh /\ m \in Acks) /\ \A k \in Messages : msg[k] = "none"

\* The rows sent within the day, whoever is sending at this moment.
CapRefuses(m, fresh) ==
  ~(fresh /\ m \in Acks \cup Asks \cup Replies) /\ Cardinality(recent) >= DailyCap

Refuses(m, fresh) ==
  \/ ConsentRefuses(m, fresh) \/ WindowRefuses(m)
  \/ DisclosureRefuses(m, fresh) \/ CapRefuses(m, fresh)

Defers(m, fresh) == quiet /\ ~(fresh /\ m \in Acks)
-----------------------------------------------------------------------------
(* send, and what follows a decision to send. *)

Idle(p) == call[p] = NoCall /\ claimed[p] = {}

\* Mutant: a draft leaves the review queue for the morning's drain.
DecideQuietFirst(m) ==
  IF Refuses(m, TRUE) THEN "block" ELSE IF Defers(m, TRUE) THEN "defer"
  ELSE IF m \in Drafts THEN "hitl" ELSE "send"

\* decide: what protects the customer, then autonomy, then quiet hours.
Decide(m) ==
  IF Refuses(m, TRUE) THEN "block" ELSE IF m \in Drafts THEN "hitl"
  ELSE IF Defers(m, TRUE) THEN "defer" ELSE "send"

\* send: the decision and its row are one transaction.
Send(p, m) ==
  LET d == Decide(m) IN
  /\ Idle(p) /\ msg[m] = "none"
  /\ msg' = [msg EXCEPT ![m] = CASE d = "block" -> "BLOCKED"
                                 [] d = "hitl"  -> "PENDING_APPROVAL"
                                 [] OTHER       -> "QUEUED"]
  /\ hold' = [hold EXCEPT ![m] = IF d = "defer" THEN "later" ELSE "no"]
  /\ call' = [call EXCEPT ![p] = IF d = "send" THEN At(m, "sending") ELSE NoCall]
  /\ UNCHANGED <<channelNamed, recent, review, claimed, customerVars, received, after, gateFaults>>

\* What the customer has and the channel answers.
Deliver(m) ==
  /\ received' = [received EXCEPT ![m] = received[m] + 1]
  /\ after' = IF consent["SERVICE"] = "REVOKED" /\ Purpose(m) = "SERVICE" /\ m \notin Acks
                THEN after + 1 ELSE after

\* sender.send succeeds, or throws: before the message left or after (a timeout).
CallChannel(p) ==
  LET m == call[p].msg IN
  /\ call[p].phase = "sending"
  /\ \/ Deliver(m) /\ call' = [call EXCEPT ![p].phase = "accepted"]
     \/ Deliver(m) /\ call' = [call EXCEPT ![p].phase = "refused"]
     \/ UNCHANGED <<received, after>> /\ call' = [call EXCEPT ![p].phase = "refused"]
  /\ UNCHANGED <<messageVars, review, claimed, customerVars, gateFaults>>

\* markSent, whatever the row has become.
RecordSent(p) ==
  LET m == call[p].msg IN
  /\ call[p].phase = "accepted"
  /\ msg' = [msg EXCEPT ![m] = "SENT"]
  /\ channelNamed' = channelNamed \cup {m}
  /\ recent' = recent \cup {m}
  /\ call' = [call EXCEPT ![p] = NoCall]
  /\ UNCHANGED <<hold, review, claimed, customerVars, received, after, gateFaults>>

\* Mutant: the channel's error is swallowed.
RecordFailedNowhere(p) ==
  /\ call[p].phase = "refused"
  /\ call' = [call EXCEPT ![p] = NoCall]
  /\ UNCHANGED <<messageVars, review, claimed, customerVars, received, after, gateFaults>>

\* markFailed: the channel threw, or the transaction that records its answer did.
RecordFailed(p) ==
  LET m == call[p].msg IN
  /\ \/ call[p].phase = "refused" /\ UNCHANGED gateFaults
     \/ call[p].phase = "accepted" /\ gateFaults < MaxGateFaults /\ gateFaults' = gateFaults + 1
  /\ msg' = [msg EXCEPT ![m] = "FAILED"]
  /\ call' = [call EXCEPT ![p] = NoCall]
  /\ UNCHANGED <<hold, channelNamed, recent, review, claimed, customerVars, received, after>>
-----------------------------------------------------------------------------
(* release *)

\* The customer's protections again; autonomy is not asked a second time.
ReleaseFrom(p, m) ==
  CASE Refuses(m, FALSE) -> /\ msg' = [msg EXCEPT ![m] = "FAILED"]
                            /\ call' = [call EXCEPT ![p] = NoCall]
                            /\ UNCHANGED hold
    [] ~Refuses(m, FALSE) /\ Defers(m, FALSE)
                         -> /\ msg' = [msg EXCEPT ![m] = "QUEUED"]
                            /\ hold' = [hold EXCEPT ![m] = "later"]
                            /\ call' = [call EXCEPT ![p] = NoCall]
    [] OTHER             -> /\ call' = [call EXCEPT ![p] = At(m, "sending")]
                            /\ UNCHANGED <<msg, hold>>

\* claimDueScheduled: the claim's transaction, and with it the lock, ends here.
ClaimHeld(p) ==
  LET due == {m \in Messages : msg[m] = "QUEUED" /\ hold[m] = "due"} IN
  /\ p \in Drainers /\ Idle(p) /\ due # {}
  /\ claimed' = [claimed EXCEPT ![p] = due]
  /\ UNCHANGED <<messageVars, review, call, customerVars, received, after, gateFaults>>

\* drain releases what it claimed, one after the other, whatever became of the
\* rows; without its media a row is left as it is.
Release(p, m) ==
  /\ m \in claimed[p] /\ call[p] = NoCall
  /\ IF m \in Lost THEN UNCHANGED <<msg, hold, call>> ELSE ReleaseFrom(p, m)
  /\ claimed' = [claimed EXCEPT ![p] = claimed[p] \ {m}]
  /\ UNCHANGED <<channelNamed, recent, review, customerVars, received, after, gateFaults>>

\* An advisor's decision starts from a candidate that is still pending.
OpenCandidate(p, m) ==
  /\ Idle(p) /\ msg[m] = "PENDING_APPROVAL"
  /\ call' = [call EXCEPT ![p] = At(m, "read")]
  /\ UNCHANGED <<messageVars, review, claimed, customerVars, received, after, gateFaults>>

\* Mutant: no unique index on the review's message.
UndecidedAlways(m) == TRUE

\* The unique index: a second decision's transaction fails as a whole.
Undecided(m) == review[m] = "none"

Approve(p) ==
  LET m == call[p].msg IN
  /\ call[p].phase = "read"
  /\ IF Undecided(m)
       THEN /\ review' = [review EXCEPT ![m] = "approved"]
            /\ call' = [call EXCEPT ![p].phase = "approved"]
       ELSE UNCHANGED review /\ call' = [call EXCEPT ![p] = NoCall]
  /\ UNCHANGED <<messageVars, claimed, customerVars, received, after, gateFaults>>

Reject(p) ==
  LET m == call[p].msg IN
  /\ call[p].phase = "read"
  /\ IF Undecided(m)
       THEN /\ review' = [review EXCEPT ![m] = "rejected"]
            /\ msg' = [msg EXCEPT ![m] = "BLOCKED"]
       ELSE UNCHANGED <<review, msg>>
  /\ call' = [call EXCEPT ![p] = NoCall]
  /\ UNCHANGED <<hold, channelNamed, recent, claimed, customerVars, received, after, gateFaults>>

\* The decision's transaction has committed; the release is another.
ReleaseApproved(p) ==
  /\ call[p].phase = "approved"
  /\ IF call[p].msg \in Lost
       THEN call' = [call EXCEPT ![p] = NoCall] /\ UNCHANGED <<msg, hold>>
       ELSE ReleaseFrom(p, call[p].msg)
  /\ UNCHANGED <<channelNamed, recent, review, claimed, customerVars, received, after, gateFaults>>

\* The process dies with its call and its claimed batch.
Crash(p) ==
  /\ gateFaults < MaxGateFaults /\ ~Idle(p)
  /\ gateFaults' = gateFaults + 1
  /\ call' = [call EXCEPT ![p] = NoCall]
  /\ claimed' = [claimed EXCEPT ![p] = {}]
  /\ UNCHANGED <<messageVars, review, customerVars, received, after>>
-----------------------------------------------------------------------------
(* The channel, the customer and the clock. *)

Rank(s) == CASE s = "QUEUED" -> 2 [] s = "SENT" -> 3 [] s = "DELIVERED" -> 4
             [] s = "READ" -> 5   [] OTHER -> 1

\* Mutant: a receipt's status is written as it comes.
ReceivedStatus(old, s) == s

\* A status only moves forward; one without a rank (FAILED) never is the later.
LaterStatus(old, s) == IF s # "FAILED" /\ Rank(s) > Rank(old) THEN s ELSE old

\* updateDeliveryState: receipts in any order, and again; one that comes before
\* the provider id is on the row finds nothing.
Receipt(m, s) ==
  /\ m \in channelNamed
  /\ msg' = [msg EXCEPT ![m] = LaterStatus(msg[m], s)]
  /\ UNCHANGED <<hold, channelNamed, recent, review, callVars, customerVars, received, after, gateFaults>>

\* ConsentService.record: the newest row speaks.
SayConsent(c, s) ==
  /\ consent[c] # s
  /\ consent' = [consent EXCEPT ![c] = s]
  /\ after' = IF c = "SERVICE" THEN 0 ELSE after
  /\ UNCHANGED <<messageVars, review, callVars, window, quiet, nights, received, gateFaults>>

\* The customer writes, or has not written for a day.
MoveWindow ==
  /\ window' = ~window
  /\ UNCHANGED <<messageVars, review, callVars, consent, quiet, nights, received, after, gateFaults>>

\* A message of the last day becomes one of the day before.
Age(m) ==
  /\ m \in recent /\ recent' = recent \ {m}
  /\ UNCHANGED <<msg, hold, channelNamed, review, callVars, customerVars, received, after, gateFaults>>

Nightfall ==
  /\ ~quiet /\ nights < MaxNights
  /\ quiet' = TRUE /\ nights' = nights + 1
  /\ UNCHANGED <<messageVars, review, callVars, consent, window, received, after, gateFaults>>

\* Every hold was until this morning.
Morning ==
  /\ quiet /\ quiet' = FALSE
  /\ hold' = [m \in Messages |-> IF hold[m] = "later" THEN "due" ELSE hold[m]]
  /\ UNCHANGED <<msg, channelNamed, recent, review, callVars, consent, window, nights, received,
                 after, gateFaults>>
-----------------------------------------------------------------------------
DrainStep(p) == ClaimHeld(p) \/ \E m \in Messages : Release(p, m)

CallStep(p) ==
  \/ CallChannel(p) \/ RecordSent(p) \/ RecordFailed(p)
  \/ Approve(p) \/ Reject(p) \/ ReleaseApproved(p)

Next ==
  \/ \E p \in Procs, m \in Messages : Send(p, m) \/ OpenCandidate(p, m)
  \/ \E p \in Procs : CallStep(p) \/ DrainStep(p) \/ Crash(p)
  \/ \E m \in Messages, s \in {"SENT", "DELIVERED", "READ", "FAILED"} : Receipt(m, s)
  \/ \E m \in Messages : Age(m)
  \/ \E m \in Messages, s \in {"GRANTED", "REVOKED"} : SayConsent(Purpose(m), s)
  \/ MoveWindow \/ Nightfall \/ Morning

Spec == Init /\ [][Next]_vars

\* Calls go on and nights end.  The drain has a timer of its own, so it runs
\* although other calls keep coming.
FairSpec ==
  /\ Spec
  /\ \A p \in Procs : WF_vars(CallStep(p)) /\ SF_vars(DrainStep(p))
  /\ WF_vars(Morning)
-----------------------------------------------------------------------------
(* Properties. *)

Status == {"none", "QUEUED", "PENDING_APPROVAL", "BLOCKED", "SENT", "DELIVERED", "READ", "FAILED"}
CallPhase == {"read", "approved", "sending", "accepted", "refused"}

\* Every variable stays in its range; only a row the channel has named was sent.
TypeOK ==
  /\ msg \in [Messages -> Status]
  /\ hold \in [Messages -> {"no", "later", "due"}]
  /\ review \in [Messages -> {"none", "approved", "rejected"}]
  /\ call \in [Procs -> [msg : Messages, phase : CallPhase] \cup {NoCall}]
  /\ claimed \in [Procs -> SUBSET Messages]
  /\ channelNamed \subseteq Messages /\ recent \subseteq channelNamed
  /\ consent \in [{"SERVICE", "MARKETING"} -> {"none", "GRANTED", "REVOKED"}]
  /\ window \in BOOLEAN /\ quiet \in BOOLEAN
  /\ received \in [Messages -> Nat]
  /\ after \in Nat /\ gateFaults \in Nat /\ nights \in Nat

\* A customer gets a message once, plus once for each crash or lost record of an
\* answer: with one drain, no release and no review sends what another sent.
ReceivedOncePerFault == \A m \in Messages : received[m] <= 1 + gateFaults

\* A draft reaches the customer only when an advisor approved it, and one that
\* was rejected never does, though two advisors may decide at once and the
\* night may come in between.
OnlyApprovedDrafts == \A m \in Drafts : received[m] > 0 => review[m] = "approved"

\* After the customer has said stop, nothing arrives but what was already on
\* its way: at most one message for each call in progress at that moment.
Sending == {p \in Procs : call[p].phase = "sending"}
OptOutStopsTheRest ==
  consent["SERVICE"] = "REVOKED" =>
    after + Cardinality({p \in Sending : call[p].msg \notin Marketing \cup Acks})
      <= Cardinality(Procs)

\* Calls that decide before the others have recorded may exceed the daily cap,
\* by less than the number of calls.
Capped == Messages \ (Acks \cup Asks \cup Replies)
CapOvershootsByCalls ==
  Cardinality(recent \cap Capped) < DailyCap + Cardinality(Procs)

\* What the advisor, the customer and the shop's limits have decided is kept to.
DecisionsAreKept ==
  TypeOK /\ OnlyApprovedDrafts /\ OptOutStopsTheRest /\ CapOvershootsByCalls

\* No message disappears: one that waits for nothing is in somebody's hands,
\* unless a process has died.
NothingDisappears ==
  \A m \in Messages :
    \/ msg[m] = "QUEUED" /\ hold[m] = "no"
    \/ msg[m] = "PENDING_APPROVAL" /\ review[m] # "none" /\ m \notin Lost
    => gateFaults > 0 \/ \E p \in Procs : call[p].msg = m

\* A message neither disappears nor arrives twice without a fault.
MessagesAreKept == ReceivedOncePerFault /\ NothingDisappears

\* A late receipt does not un-read a message.
ReceiptsMoveForward ==
  [][\A m \in Messages : msg[m] \in {"DELIVERED", "READ"} => Rank(msg'[m]) >= Rank(msg[m])]_vars

\* A message held for quiet hours is deferred, not dropped: although processes
\* die in mid-batch it is sent, or refused, unless its media is gone.
HeldIsReleased ==
  \A m \in Messages \ Lost : msg[m] = "QUEUED" /\ hold[m] # "no" ~> msg[m] # "QUEUED"
=============================================================================
