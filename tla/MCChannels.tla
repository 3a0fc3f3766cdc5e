----------------------------- MODULE MCChannels -----------------------------
(* What waits in line and must get through, for TLC, each component alone: a *)
(* behaviour is one of Outbox or OutboundGate, the other staying as it       *)
(* starts.                                                                   *)
EXTENDS Outbox, OutboundGate

CONSTANT Parts  \* the components of this instance
VARIABLE part   \* the one this behaviour is of

channelsRunVars == <<part, outboxVars, vars>>

ChannelsInit ==
  /\ part \in Parts
  /\ OutboxInit
  /\ Init /\ (part # "held" => window)

OfOutbox(A) == part = "outbox" /\ A /\ UNCHANGED <<part, vars>>
OfHeld(A) == part = "held" /\ A /\ UNCHANGED <<part, outboxVars>>

ChannelsNext == OfOutbox(OutboxNext) \/ OfHeld(Next)

ChannelsSpec == ChannelsInit /\ [][ChannelsNext]_channelsRunVars

\* Each component's own fairness.  A behaviour is of one component for ever, so
\* that weak fairness of one's action or the other's is that of each.
ChannelsFairSpec ==
  /\ ChannelsSpec
  /\ \A d \in Dispatchers : WF_channelsRunVars(OfOutbox(DispatcherStep(d)) \/ OfHeld(Morning))
  /\ \A w \in Workers, p \in Procs :
       WF_channelsRunVars(OfOutbox(WorkerStep(w)) \/ OfHeld(CallStep(p)))
  /\ \A e \in Events : WF_channelsRunVars(OfOutbox(Stalled(e)))
  /\ \A p \in Procs : SF_channelsRunVars(OfHeld(DrainStep(p)))
=============================================================================
