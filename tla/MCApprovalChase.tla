-------------------------- MODULE MCApprovalChase ---------------------------
(* One approval's chase for TLC, the ladder and its telephone calls each     *)
(* alone: a behaviour is one of ApprovalChase or VoiceCall, the other        *)
(* staying as it starts.                                                     *)
EXTENDS ApprovalChase, VoiceCall

CONSTANT Parts  \* the components of this instance
VARIABLE part   \* the one this behaviour is of

chaseRunVars == <<part, allVars, voiceVars>>

ChaseRunInit == part \in Parts /\ ChaseInit /\ VoiceInit

OfChase(A) == part = "ladder" /\ A /\ UNCHANGED <<part, voiceVars>>
OfCalls(A) == part = "calls" /\ A /\ UNCHANGED <<part, allVars>>

ChaseRunNext == OfChase(ChaseNext) \/ OfCalls(VoiceNext)

\* Each component's own fairness.
ChaseRunSpec ==
  /\ ChaseRunInit /\ [][ChaseRunNext]_chaseRunVars
  /\ \A r \in Requests : WF_chaseRunVars(OfChase(Laying(r)))
  /\ \A w \in Workers : WF_chaseRunVars(OfChase(Firing(w)))
  /\ \A c \in Calls : WF_chaseRunVars(OfCalls(CallGoesOn(c)))
=============================================================================
