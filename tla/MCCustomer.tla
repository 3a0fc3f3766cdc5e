----------------------------- MODULE MCCustomer -----------------------------
(* What the customer is told, or should be, for TLC, each component alone: a *)
(* behaviour is one of OutboundGate, EtaLedger, SilentBay or VoiceCall, the  *)
(* others staying as they start.                                             *)
EXTENDS OutboundGate, EtaLedger, SilentBay, VoiceCall, TLC

CONSTANT Parts  \* the components of this instance
VARIABLE part   \* the one this behaviour is of

customerRunVars == <<part, vars, etaVars, bayVars, voiceVars>>

\* The messages that need no advisor are interchangeable.
Symmetry == Permutations(Messages \ Drafts)

\* The customer was promised nothing, or a time.
NothingOrOne == {-1, 1}

CustomerInit ==
  /\ part \in Parts
  /\ Init /\ (part # "gate" => window)
  /\ SilentBayInit /\ VoiceInit
  /\ EtaInit /\ (part # "eta" => promised = NoTime /\ ~opening /\ ~thread /\ ~lately)

CustomerNext ==
  \/ part = "gate" /\ Next /\ UNCHANGED <<part, etaVars, bayVars, voiceVars>>
  \/ part = "eta" /\ EtaNext /\ UNCHANGED <<part, vars, bayVars, voiceVars>>
  \/ part = "bay" /\ SilentBayNext /\ UNCHANGED <<part, vars, etaVars, voiceVars>>
  \/ part = "voice" /\ VoiceNext /\ UNCHANGED <<part, vars, etaVars, bayVars>>

CustomerSpec == CustomerInit /\ [][CustomerNext]_customerRunVars
=============================================================================
