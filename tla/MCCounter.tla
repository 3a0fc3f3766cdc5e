----------------------------- MODULE MCCounter -----------------------------
(* The components that promise to end what they begin, for TLC, each alone:  *)
(* a behaviour is one of Billing, Intake, FeedbackAsk or Erasure, the others *)
(* staying as they start.                                                    *)
EXTENDS Billing, Intake, FeedbackAsk, Erasure

CONSTANT Parts  \* the components of this instance
VARIABLE part   \* the one this behaviour is of

counterRunVars == <<part, billingVars, intakeVars, feedbackVars, erasureVars>>

CounterInit ==
  /\ part \in Parts
  /\ BillingInit /\ IntakeInit /\ FeedbackInit /\ ErasureInit

OfBilling(A) == part = "billing" /\ A /\ UNCHANGED <<part, intakeVars, feedbackVars, erasureVars>>
OfIntake(A) == part = "intake" /\ A /\ UNCHANGED <<part, billingVars, feedbackVars, erasureVars>>
OfFeedback(A) == part = "feedback" /\ A /\ UNCHANGED <<part, billingVars, intakeVars, erasureVars>>
OfErasure(A) == part = "erasure" /\ A /\ UNCHANGED <<part, billingVars, intakeVars, feedbackVars>>

CounterNext ==
  OfBilling(BillingNext) \/ OfIntake(IntakeNext) \/ OfFeedback(FeedbackNext) \/ OfErasure(ErasureNext)

CounterSpec == CounterInit /\ [][CounterNext]_counterRunVars

\* Each component's own fairness.
CounterFairSpec ==
  /\ CounterSpec
  /\ WF_counterRunVars(OfBilling(\E e \in sent : Reconcile(e)))
  /\ WF_counterRunVars(OfBilling(\E c \in settling : LoadCard(c) \/ SettleStep(c)))
  /\ \A k \in Confirmers : WF_counterRunVars(OfIntake(Confirming(k)))
  /\ \A w \in Sentinels : WF_counterRunVars(OfFeedback(Asking(w)))
  /\ \A f \in Visited : WF_counterRunVars(OfFeedback(AskFallsDue(f) \/ AskGoesStale(f)))
  /\ \A e \in Erasers : WF_counterRunVars(OfErasure(Executing(e)))
  /\ \A q \in Wishes : WF_counterRunVars(OfErasure(GraceElapses(q)))
=============================================================================
