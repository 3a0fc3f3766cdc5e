----------------------------- MODULE EtaLedger ------------------------------
(***************************************************************************)
(* The time a card will be ready: its history, what a change is called,    *)
(* and who is told (EtaService, eta-rules, StatusCommsService and the      *)
(* workers' status handlers).                                              *)
(*                                                                         *)
(* A recalculation appends an entry and its event in one transaction.  The *)
(* event's handler looks at the newest entry, at the thread and the last   *)
(* message, sends, and marks the entry, each in a transaction of its own;  *)
(* another recalculation may come in between.                              *)
(***************************************************************************)
EXTENDS Integers

CONSTANTS
  Tellers,     \* events of the card that may be handled at once
  Times,       \* the times a card may be expected at
  DayLength,   \* how many of them make a day
  Promises,    \* what intake may have promised, NoTime included if nothing
  SlipAfter,   \* eta.materialSlipMinutes
  MaxVersions, MaxTellerFaults  \* bounds on recalculations and on faults

NoTime == -1

ASSUME EtaConstants ==
  /\ Times \subseteq Nat /\ Promises \subseteq Times \cup {NoTime}
  /\ DayLength \in Nat \ {0} /\ SlipAfter \in Nat
  /\ MaxVersions \in Nat /\ MaxTellerFaults \in Nat

VARIABLES
  promised,  \* job_cards.promised_at
  visitOver,     \* the card is delivered, closed or cancelled
  version,   \* job_cards.eta_version
  entry,     \* entry[v]: the time, the reason and the verdict of version v
  unheard,   \* versions whose eta.changed is still to be handled
  opening,   \* the card's change to a state worth a message is still to be handled
  telling,   \* telling[t]: what the handler is at work on, and how far it is
  thread,    \* the customer has a WhatsApp thread
  lately,    \* a message of the card went out within the coalescing window
  offered,   \* offered[v]: how often the version was put to the gate for its own sake
  noted,     \* versions with notified_at
  mute,      \* those of them that found no thread to be told on
  tellerFaults

heard == <<thread, lately>>
etaVars == <<promised, visitOver, version, entry, unheard, opening, telling, heard, offered,
             noted, mute, tellerFaults>>

Version == 1..MaxVersions
Reason == {"BLOCKED_PARTS", "TECHNICIAN_HINT"}
NoEntry == [eta |-> NoTime, reason |-> "none", verdict |-> "none"]
NotTelling == [version |-> 0, phase |-> "idle"]
Opening == 0

Current == IF version = 0 THEN NoTime ELSE entry[version].eta
Day(t) == t \div DayLength

\* Past the promise, and past its day.
Late(t) == promised # NoTime /\ t > promised /\ Day(t) # Day(promised)

EtaInit ==
  /\ promised \in Promises /\ visitOver = FALSE
  /\ version = 0 /\ entry = [v \in Version |-> NoEntry]
  /\ unheard = {} /\ opening \in BOOLEAN
  /\ telling = [t \in Tellers |-> NotTelling]
  /\ thread \in BOOLEAN /\ lately \in BOOLEAN /\ (lately => thread)
  /\ offered = [v \in Version |-> 0] /\ noted = {} /\ mute = {} /\ tellerFaults = 0
-----------------------------------------------------------------------------
(* recalculate *)

\* Mutant: the change alone counts, and the promise only while nothing else is known.
VerdictByDelta(was, now) ==
  LET from == IF was = NoTime THEN promised ELSE was IN
  IF from = NoTime THEN "IMMATERIAL"
  ELSE IF now - from > SlipAfter THEN "MATERIAL_SLIP"
  ELSE IF now - from < -SlipAfter THEN "MATERIAL_GAIN" ELSE "IMMATERIAL"

\* classifyEtaChange
Verdict(was, now) ==
  LET from == IF was = NoTime THEN promised ELSE was IN
  IF from = NoTime THEN "IMMATERIAL"
  ELSE IF Late(now) /\ ~(was # NoTime /\ Late(was)) THEN "MATERIAL_SLIP"
  ELSE IF now - from > SlipAfter THEN "MATERIAL_SLIP"
  ELSE IF now - from < -SlipAfter THEN "MATERIAL_GAIN" ELSE "IMMATERIAL"

\* Under the card's row lock; what computeEta arrives at is left open.
Recalculate(now, why) ==
  LET v == version + 1 IN
  /\ ~visitOver /\ v \in Version
  /\ version' = v
  /\ entry' = [entry EXCEPT ![v] = [eta |-> now, reason |-> why, verdict |-> Verdict(Current, now)]]
  /\ unheard' = unheard \cup {v}
  /\ UNCHANGED <<promised, visitOver, opening, telling, heard, offered, noted, mute, tellerFaults>>

EndCard ==
  /\ ~visitOver /\ visitOver' = TRUE
  /\ UNCHANGED <<promised, version, entry, unheard, opening, telling, heard, offered, noted,
                 mute, tellerFaults>>

\* The customer writes for the first time.
ThreadOpens ==
  /\ ~thread /\ thread' = TRUE
  /\ UNCHANGED <<promised, visitOver, version, entry, unheard, opening, telling, lately, offered,
                 noted, mute, tellerFaults>>
-----------------------------------------------------------------------------
(* The handlers. *)

\* The newest entry is another than the event's.
Superseded(v) == version # v

TakeEta(t, v) ==
  /\ telling[t] = NotTelling /\ v \in unheard
  /\ unheard' = unheard \ {v}
  /\ telling' = IF Superseded(v) THEN telling
                ELSE [telling EXCEPT ![t] = [version |-> v, phase |-> "looked"]]
  /\ UNCHANGED <<promised, visitOver, version, entry, opening, heard, offered, noted, mute,
                 tellerFaults>>

\* requiresImmediateNotice
Immediate(v) == entry[v].reason = "BLOCKED_PARTS" \/ entry[v].verdict = "MATERIAL_SLIP"

\* announceEtaChange up to the gate: an immaterial change, one of a customer
\* without a thread, bad news included, and a gain within the window are noted
\* and not sent.
Consider(t) ==
  LET v == telling[t].version
      worth == Immediate(v) \/ entry[v].verdict = "MATERIAL_GAIN"
      throttled == ~Immediate(v) /\ lately IN
  /\ telling[t].phase = "looked" /\ v # Opening
  /\ IF worth /\ thread /\ ~throttled
       THEN /\ telling' = [telling EXCEPT ![t].phase = "worded"] /\ UNCHANGED <<noted, mute>>
       ELSE /\ telling' = [telling EXCEPT ![t] = NotTelling] /\ noted' = noted \cup {v}
            /\ mute' = IF worth /\ ~thread THEN mute \cup {v} ELSE mute
  /\ UNCHANGED <<promised, visitOver, version, entry, unheard, opening, heard, offered, tellerFaults>>

\* The gate sends, holds or refuses; only a refusal is no update.
OfferEta(t) ==
  LET v == telling[t].version IN
  /\ telling[t].phase = "worded" /\ v # Opening
  /\ offered' = [offered EXCEPT ![v] = offered[v] + 1]
  /\ lately' \in {lately, TRUE}
  /\ telling' = [telling EXCEPT ![t].phase = "offered"]
  /\ UNCHANGED <<promised, visitOver, version, entry, unheard, opening, thread, noted, mute,
                 tellerFaults>>

MarkNotified(t) ==
  /\ telling[t].phase = "offered"
  /\ noted' = noted \cup {telling[t].version}
  /\ telling' = [telling EXCEPT ![t] = NotTelling]
  /\ UNCHANGED <<promised, visitOver, version, entry, unheard, opening, heard, offered, mute,
                 tellerFaults>>

\* announceStateChange: the sentence about the state carries the newest time.
TakeState(t) ==
  /\ telling[t] = NotTelling /\ opening
  /\ opening' = FALSE
  /\ telling' = IF lately \/ ~thread THEN telling
                ELSE [telling EXCEPT ![t] = [version |-> Opening, phase |-> "worded"]]
  /\ UNCHANGED <<promised, visitOver, version, entry, unheard, heard, offered, noted, mute,
                 tellerFaults>>

OfferState(t) ==
  /\ telling[t].phase = "worded" /\ telling[t].version = Opening
  /\ lately' \in {lately, TRUE}
  /\ telling' = [telling EXCEPT ![t] = NotTelling]
  /\ UNCHANGED <<promised, visitOver, version, entry, unheard, opening, thread, offered, noted,
                 mute, tellerFaults>>

WindowPasses ==
  /\ lately /\ lately' = FALSE
  /\ UNCHANGED <<promised, visitOver, version, entry, unheard, opening, telling, thread, offered,
                 noted, mute, tellerFaults>>

\* The worker dies, or a call throws; the outbox has the event handled again.
FailTelling(t) ==
  LET v == telling[t].version IN
  /\ tellerFaults < MaxTellerFaults /\ telling[t] # NotTelling
  /\ tellerFaults' = tellerFaults + 1
  /\ telling' = [telling EXCEPT ![t] = NotTelling]
  /\ IF v = Opening THEN opening' = TRUE /\ UNCHANGED unheard
                    ELSE unheard' = unheard \cup {v} /\ UNCHANGED opening
  /\ UNCHANGED <<promised, visitOver, version, entry, heard, offered, noted, mute>>

EtaNext ==
  \/ \E now \in Times, why \in Reason : Recalculate(now, why)
  \/ EndCard \/ ThreadOpens \/ WindowPasses
  \/ \E t \in Tellers : \/ Consider(t) \/ OfferEta(t) \/ MarkNotified(t) \/ FailTelling(t)
                        \/ TakeState(t) \/ OfferState(t) \/ \E v \in Version : TakeEta(t, v)

EtaSpec == EtaInit /\ [][EtaNext]_etaVars
-----------------------------------------------------------------------------
(* Properties. *)

EtaTypeOK ==
  /\ version \in 0..MaxVersions /\ unheard \subseteq 1..version /\ noted \subseteq 1..version
  /\ mute \subseteq noted /\ thread \in BOOLEAN
  /\ \A v \in 1..version : entry[v].eta \in Times /\ entry[v].reason \in Reason
  /\ \A t \in Tellers : telling[t].phase \in {"idle", "looked", "worded", "offered"}
  /\ offered \in [Version -> Nat]

\* A card expected past its promised day became so at a change that was called
\* a material slip, however small the steps that brought it there.
LatenessIsASlip ==
  \A v \in 1..version : Late(entry[v].eta) =>
    \E w \in 1..v : /\ entry[w].verdict = "MATERIAL_SLIP"
                    /\ \A u \in w..v : Late(entry[u].eta)

Settled == unheard = {} /\ \A t \in Tellers : telling[t] = NotTelling

\* When every event has been handled the newest time is noted, and when it is bad
\* news it was put to the gate for its own sake, whatever went out lately, unless
\* the customer had no thread when it was looked at: that news is noted, and
\* never told.  A slip that another time superseded before its event came up is
\* not told either.
BadNewsIsOffered ==
  Settled /\ version > 0 =>
    /\ version \in noted
    /\ Immediate(version) => offered[version] >= 1 \/ version \in mute

\* The mark is not asked for when an event is handled again: once more for a fault.
OfferedOncePerFault == \A v \in Version : offered[v] <= 1 + tellerFaults

EtaIsTold == EtaTypeOK /\ LatenessIsASlip /\ BadNewsIsOffered /\ OfferedOncePerFault
=============================================================================
