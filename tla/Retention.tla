------------------------------ MODULE Retention ------------------------------
(***************************************************************************)
(* What the shop writes to one customer after the visit: re-pitches of     *)
(* declined work (RetentionService over the ledger), service and document  *)
(* reminders (ReminderService), and the freeze a complaint brings          *)
(* (FeedbackService).                                                      *)
(*                                                                         *)
(* A worker's pass reads what is due, and then, for one thing at a time,   *)
(* claims a touch under a dedupe key, sends through the gate, settles the  *)
(* touch and, for a re-pitch, counts it: transactions of their own, with   *)
(* the channel call between the second and the third.                      *)
(***************************************************************************)
EXTENDS Naturals, FiniteSets

CONSTANTS
  Items,      \* the customer's declined work, a ledger item each
  Leads,      \* reminders the vehicle is due: a service lead, a document's cycle
  Scanners,   \* workers, each with one retention pass at a time
  MaxPitches, \* retention.maxRepitchesPerItem
  Wirings,    \* whether the gate is given deps.retention: the workers and the API give none
  MaxTouches, MaxFaults   \* bounds on claimed touches and on faults

ASSUME RetentionConstants ==
  /\ Items \cap Leads = {}
  /\ IsFiniteSet(Scanners) /\ Wirings \subseteq BOOLEAN
  /\ MaxPitches \in Nat /\ MaxTouches \in Nat /\ MaxFaults \in Nat

VARIABLES
  wired,    \* the gate has a reader of the freeze and the floor
  status,   \* status[i]: declined_work_ledger.status, none before the decline
  count,    \* count[i]: repitch_count
  keys,     \* the dedupe keys of retention_touches still taken
  reminded, \* leads marked on their forecast or document
  round,    \* round[s]: what the pass is at work on, and how far it is
  held,     \* held[t]: the thing's messages that wait for the morning or an advisor
  recent,   \* touches whose sent_at is within the floor, if anybody asks
  answer,   \* the feedback request: asked, or NEGATIVE
  recovery, \* how far the call that took the answer has come, or that it broke off
  frozen,   \* the customer has an active hold
  reached,  \* reached[i]: how often the customer got the item's pitch
  near,     \* messages straight from a pass since the floor last elapsed, if anybody asks
  after,    \* after[i]: touches claimed for the item since it closed
  sold,     \* received since the freeze: straight from a pass, or from the held ones
  onTheWay, \* passes beyond the last look at the freeze when it began
  touches, faults

Things == Items \cup Leads
ledgerVars == <<status, count, after>>
touchVars == <<keys, reminded, recent, touches>>
complaintVars == <<answer, recovery, frozen, onTheWay>>
customerVars == <<reached, near, sold>>
vars == <<wired, ledgerVars, touchVars, round, held, complaintVars, customerVars, faults>>

Pitchable == {"OPEN", "RE_PITCHED"}
Closed == {"CONVERTED", "OPTED_OUT"}

NoPass == [of |-> "none", number |-> 0, phase |-> "idle"]
Key(s) == <<round[s].of, round[s].number>>

\* The passes that look at the freeze no more: the gate is the last to, if it can.
Beyond ==
  {s \in Scanners : \/ round[s].phase = "sending"
                    \/ round[s].phase = "claimed" /\ ~wired}

Init ==
  /\ wired \in Wirings
  /\ status = [i \in Items |-> "none"] /\ count = [i \in Items |-> 0]
  /\ keys = {} /\ reminded = {} /\ recent = 0 /\ touches = 0
  /\ round = [s \in Scanners |-> NoPass]
  /\ held = [t \in Things |-> 0]
  /\ answer = "asked" /\ recovery = "idle" /\ frozen = FALSE
  /\ reached = [i \in Items |-> 0] /\ near = 0 /\ after = [i \in Items |-> 0]
  /\ sold = [pass |-> 0, held |-> 0] /\ onTheWay = 0
  /\ faults = 0
-----------------------------------------------------------------------------
(* One touch, from the pass that finds it due to the count that ends it. *)

\* evaluateTriggers and mayRepitch, on the row as the pass reads it.
MayRepitch(i) == status[i] \in Pitchable /\ count[i] < MaxPitches

\* The pass reads what is due; whether a trigger fires is left open.
Plan(s, t) ==
  /\ round[s] = NoPass
  /\ IF t \in Items THEN MayRepitch(t) ELSE t \notin reminded
  /\ round' = [round EXCEPT ![s] =
       [of |-> t, number |-> IF t \in Items THEN count[t] + 1 ELSE 1, phase |-> "planned"]]
  /\ UNCHANGED <<wired, ledgerVars, touchVars, held, complaintVars, customerVars, faults>>

\* Mutant: the touch is inserted without its dedupe key.
ClaimKeyless(s) ==
  /\ round[s].phase = "planned" /\ ~frozen /\ touches < MaxTouches
  /\ touches' = touches + 1
  /\ round' = [round EXCEPT ![s].phase = "claimed"]
  /\ UNCHANGED <<wired, keys, reminded, recent, ledgerVars, held, complaintVars, customerVars, faults>>

\* Mutant: the freeze is left to the gate.
ClaimUnlooked(s) ==
  /\ round[s].phase = "planned" /\ Key(s) \notin keys /\ touches < MaxTouches
  /\ touches' = touches + 1
  /\ keys' = keys \cup {Key(s)}
  /\ round' = [round EXCEPT ![s].phase = "claimed"]
  /\ UNCHANGED <<wired, reminded, recent, ledgerVars, held, complaintVars, customerVars, faults>>

\* claim: a freeze or a touch that holds the key already makes it a skip.
Claim(s) ==
  LET t == round[s].of IN
  /\ round[s].phase = "planned"
  /\ IF frozen \/ Key(s) \in keys
       THEN round' = [round EXCEPT ![s] = NoPass] /\ UNCHANGED <<touchVars, after>>
       ELSE /\ touches < MaxTouches
            /\ touches' = touches + 1
            /\ keys' = keys \cup {Key(s)}
            /\ round' = [round EXCEPT ![s].phase = "claimed"]
            /\ after' = IF t \in Items /\ status[t] \in Closed
                          THEN [after EXCEPT ![t] = after[t] + 1] ELSE after
            /\ UNCHANGED <<reminded, recent>>
  /\ UNCHANGED <<wired, status, count, held, complaintVars, customerVars, faults>>

\* retentionDecision: the freeze, then the floor over every flow; without a
\* reader, nothing.
RetentionRefuses == wired /\ (frozen \/ recent > 0)

\* The gate's transaction; consent, window and caps may refuse, and the night
\* or an advisor may hold, what retention allows.
Decide(s) ==
  LET t == round[s].of IN
  /\ round[s].phase = "claimed"
  /\ \/ round' = [round EXCEPT ![s].phase = "blocked"] /\ UNCHANGED held
     \/ /\ ~RetentionRefuses
        /\ round' = [round EXCEPT ![s].phase = "held"]
        /\ held' = [held EXCEPT ![t] = held[t] + 1]
     \/ /\ ~RetentionRefuses
        /\ round' = [round EXCEPT ![s].phase = "sending"]
        /\ UNCHANGED held
  /\ UNCHANGED <<wired, ledgerVars, touchVars, complaintVars, customerVars, faults>>

Reach(t, how) ==
  /\ reached' = IF t \in Items THEN [reached EXCEPT ![t] = reached[t] + 1] ELSE reached
  /\ near' = IF how = "pass" /\ wired THEN near + 1 ELSE near
  /\ sold' = IF frozen THEN [sold EXCEPT ![how] = sold[how] + 1] ELSE sold

\* The channel accepts, or throws: before the message left, or (a fault) after.
CallChannel(s) ==
  LET t == round[s].of IN
  /\ round[s].phase = "sending"
  /\ \/ /\ Reach(t, "pass")
        /\ round' = [round EXCEPT ![s].phase = "accepted"] /\ UNCHANGED faults
     \/ /\ round' = [round EXCEPT ![s].phase = "blocked"]
        /\ UNCHANGED <<customerVars, faults>>
     \/ /\ faults < MaxFaults /\ faults' = faults + 1
        /\ Reach(t, "pass")
        /\ round' = [round EXCEPT ![s].phase = "blocked"]
  /\ UNCHANGED <<wired, ledgerVars, touchVars, held, complaintVars>>

\* A refused touch gives its key back; a held re-pitch keeps it, a held
\* reminder does not.
KeysAfter(s) ==
  IF \/ round[s].phase = "accepted"
     \/ round[s].phase = "held" /\ round[s].of \in Items
    THEN keys ELSE keys \ {Key(s)}

\* settle: only a touch that went out has a sent_at; a reminder marks its lead
\* in the same transaction.
Settle(s) ==
  LET t == round[s].of  sent == round[s].phase = "accepted" IN
  /\ round[s].phase \in {"accepted", "held", "blocked"}
  /\ keys' = KeysAfter(s)
  /\ recent' = IF sent /\ wired THEN recent + 1 ELSE recent
  /\ reminded' = IF sent /\ t \in Leads THEN reminded \cup {t} ELSE reminded
  /\ round' = IF sent /\ t \in Items THEN [round EXCEPT ![s].phase = "settled"]
                                    ELSE [round EXCEPT ![s] = NoPass]
  /\ UNCHANGED <<wired, ledgerVars, held, touches, complaintVars, customerVars, faults>>

\* recordRepitch locks the item and writes RE_PITCHED over whatever it finds.
RecordRepitch(s) ==
  LET i == round[s].of IN
  /\ round[s].phase = "settled"
  /\ status' = [status EXCEPT ![i] = "RE_PITCHED"]
  /\ count' = [count EXCEPT ![i] = count[i] + 1]
  /\ after' = [after EXCEPT ![i] = 0]
  /\ round' = [round EXCEPT ![s] = NoPass]
  /\ UNCHANGED <<wired, touchVars, held, complaintVars, customerVars, faults>>

\* The drain, or an advisor's approval, lets a held message go: not as
\* retention traffic, so neither the freeze nor the floor is asked again.  What
\* else the gate asks may refuse it.  The touch is not settled a second time.
ReleaseHeld(t) ==
  /\ held[t] > 0
  /\ held' = [held EXCEPT ![t] = held[t] - 1]
  /\ Reach(t, "held") \/ UNCHANGED customerVars
  /\ UNCHANGED <<wired, ledgerVars, touchVars, round, complaintVars, faults>>

\* The worker dies with its pass.
CrashPass(s) ==
  /\ faults < MaxFaults /\ round[s] # NoPass
  /\ faults' = faults + 1
  /\ round' = [round EXCEPT ![s] = NoPass]
  /\ UNCHANGED <<wired, ledgerVars, touchVars, held, complaintVars, customerVars>>

\* minDaysBetweenTouches go by; no pass takes so long.
FloorElapses ==
  /\ recent > 0 \/ near > 0
  /\ \A s \in Scanners : round[s] = NoPass
  /\ recent' = 0 /\ near' = 0
  /\ UNCHANGED <<wired, ledgerVars, keys, reminded, touches, round, held, complaintVars, reached,
                 sold, faults>>
-----------------------------------------------------------------------------
(* The ledger's other writers. *)

\* open: the declined item's row, once.
Open(i) ==
  /\ status[i] = "none"
  /\ status' = [status EXCEPT ![i] = "OPEN"]
  /\ UNCHANGED <<wired, count, after, touchVars, round, held, complaintVars, customerVars, faults>>

\* recordResponse: "Not interested" on a re-pitch the customer has.
Refuse(i) ==
  /\ reached[i] > 0 /\ status[i] \in Pitchable
  /\ status' = [status EXCEPT ![i] = "OPTED_OUT"]
  /\ UNCHANGED <<wired, count, after, touchVars, round, held, complaintVars, customerVars, faults>>

\* convert: the work was approved on a later card, whatever the customer said.
Convert(i) ==
  /\ status[i] \notin {"none", "CONVERTED"}
  /\ status' = [status EXCEPT ![i] = "CONVERTED"]
  /\ UNCHANGED <<wired, count, after, touchVars, round, held, complaintVars, customerVars, faults>>
-----------------------------------------------------------------------------
(* The complaint: recordAnswer and raiseRecovery, a transaction each.  The    *)
(* hold stays: nobody calls releaseHoldsForTask when the task is resolved.   *)

Complain ==
  /\ answer = "asked"
  /\ answer' = "NEGATIVE" /\ recovery' = "answered"
  /\ UNCHANGED <<wired, ledgerVars, touchVars, round, held, frozen, onTheWay, customerVars, faults>>

OpenHold ==
  /\ recovery = "answered"
  /\ frozen' = TRUE /\ onTheWay' = Cardinality(Beyond)
  /\ recovery' = "held"
  /\ UNCHANGED <<wired, ledgerVars, touchVars, round, held, answer, customerVars, faults>>

\* The task store may throw, and the call ends there.
CreateTask ==
  /\ recovery = "held"
  /\ recovery' \in {"tasked", "broken"}
  /\ UNCHANGED <<wired, ledgerVars, touchVars, round, held, answer, frozen, onTheWay,
                 customerVars, faults>>

\* The hold is given the task's id.
AttachRecovery ==
  /\ recovery = "tasked"
  /\ recovery' = "attached"
  /\ UNCHANGED <<wired, ledgerVars, touchVars, round, held, answer, frozen, onTheWay,
                 customerVars, faults>>

CrashRecovery ==
  /\ faults < MaxFaults /\ recovery \in {"answered", "held", "tasked"}
  /\ faults' = faults + 1 /\ recovery' = "broken"
  /\ UNCHANGED <<wired, ledgerVars, touchVars, round, held, answer, frozen, onTheWay, customerVars>>
-----------------------------------------------------------------------------
PassStep(s) == Claim(s) \/ Decide(s) \/ CallChannel(s) \/ Settle(s) \/ RecordRepitch(s)
RecoveryStep == Complain \/ OpenHold \/ CreateTask \/ AttachRecovery

Next ==
  \/ \E s \in Scanners : PassStep(s) \/ CrashPass(s) \/ \E t \in Things : Plan(s, t)
  \/ \E t \in Things : ReleaseHeld(t)
  \/ \E i \in Items : Open(i) \/ Refuse(i) \/ Convert(i)
  \/ FloorElapses
  \/ RecoveryStep \/ CrashRecovery

Spec == Init /\ [][Next]_vars
-----------------------------------------------------------------------------
(* Properties. *)

Phases == {"planned", "claimed", "held", "sending", "accepted", "blocked", "settled"}

\* Every variable stays in its range; a pass that has counted or sent holds its key.
RetentionTypeOK ==
  /\ status \in [Items -> {"none"} \cup Pitchable \cup Closed]
  /\ count \in [Items -> Nat] /\ after \in [Items -> Nat]
  /\ keys \subseteq Things \X Nat /\ reminded \subseteq Leads
  /\ round \in [Scanners -> [of : Things, number : Nat, phase : Phases] \cup {NoPass}]
  /\ held \in [Things -> Nat] /\ reached \in [Items -> Nat]
  /\ answer \in {"asked", "NEGATIVE"}
  /\ recovery \in {"idle", "answered", "held", "tasked", "attached", "broken"}
  /\ frozen \in BOOLEAN /\ wired \in BOOLEAN
  /\ sold \in [{"pass", "held"} -> Nat]
  /\ {recent, near, onTheWay, touches, faults} \subseteq Nat
  /\ \A s \in Scanners : round[s].phase \in Phases \ {"planned"} => Key(s) \in keys

\* A customer hears of one item at most maxRepitchesPerItem times, though two
\* workers pass at once, held pitches go out in the morning, and a pass may die
\* between the channel and the count: one more for each such fault.
PitchesBounded == \A i \in Items : reached[i] <= MaxPitches + faults

\* Where the gate asks, passes that decide before the others have settled may
\* come closer than the floor, by less than the number of passes and of touches a
\* fault left open.  Where it does not, no floor is kept.
FloorOvershootsByPasses == wired => near <= Cardinality(Scanners) + faults

\* Once a complaint has frozen the customer, a pass delivers only what it had
\* handed to the channel before, or, past a gate that does not ask, had claimed.
FreezeStopsThePass == sold.pass + Cardinality(Beyond) <= onTheWay \/ ~frozen

\* The answer is stored first and the freeze next: although the task store may
\* fail, a complaint without a freeze is one whose call is still there, or died.
ComplaintFreezes ==
  answer = "NEGATIVE" => frozen \/ recovery = "answered" \/ faults > 0

\* After the customer's no, or the work's approval, only the passes in progress
\* still claim a touch for the item.
ClosedItemRests == \A i \in Items : after[i] <= Cardinality(Scanners)

\* How much and how close the customer is written to.
TouchesAreBounded ==
  RetentionTypeOK /\ PitchesBounded /\ FloorOvershootsByPasses /\ ClosedItemRests

\* What a complaint stops.
FreezeHolds == FreezeStopsThePass /\ ComplaintFreezes

\* The gate's comment: "we froze retention but the win-back still went out" is
\* the failure the freeze exists to make impossible.
FrozenHearsNothing == sold.held = 0
=============================================================================
