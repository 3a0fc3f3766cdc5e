----------------------------- MODULE VoiceCall ------------------------------
(***************************************************************************)
(* The telephone calls that chase one approval: the call gate and the      *)
(* calls' rows (VoiceCallService), the runner that speaks and listens      *)
(* (VoiceAgentRunner), the agent runs it starts (AgentRunner, its tools    *)
(* and their invariants) and what the ladder's rung makes of the report.   *)
(*                                                                         *)
(* The gate, the row and the dial are three steps with nothing held        *)
(* between them.  A call's conversation is the state of one process; the   *)
(* request, the runs of the customer's thread and the rows are shared.     *)
(* The call's seconds and tokens are left out, and so are its turns' text: *)
(* a readback is the decision it reads.  One tool call per completion.     *)
(***************************************************************************)
EXTENDS Naturals, FiniteSets

CONSTANTS
  Calls,      \* calls the ladder's rungs may place, numbered as the rungs fire
  Repeats,    \* those whose rung has rung before
  Slots,      \* the escalation worker's concurrency: a rung's job lasts as long as its call
  Decisions,  \* what a customer may decide
  CallCap,    \* voice.maxCallsPerCustomerPerDay
  MaxTurns,   \* voice.maxTurnsPerCall
  References, \* agent_runs.trigger_message_id refers to messages: the database's
              \* does (migration 0003), the tests' store does not
  MaxTrips    \* bound on exceptions and crashes

ASSUME VoiceAssumption ==
  /\ Calls \subseteq Nat /\ IsFiniteSet(Calls) /\ Repeats \subseteq Calls
  /\ Slots \in Nat /\ CallCap \in Nat \ {0} /\ MaxTurns \in Nat \ {0} /\ MaxTrips \in Nat
  /\ References \in BOOLEAN
  /\ "none" \notin Decisions

VARIABLES
  callRow,    \* callRow[c]: calls.status, none before the row is written
  line,       \* line[c]: how far the runner is, and the call's own state
  facts,      \* facts[c]: its call_consent_events
  recorded,   \* calls with a recording_media_id
  metered,    \* metered[c]: rows of call_usage
  rang,       \* calls that reached the customer's telephone
  chased,     \* [decision, by]: the approval chased, and who decided it
  runs,       \* calls with an agent run that is RUNNING
  callTask,   \* calls an advisor has a task for
  agreed,     \* whether the customer agrees to calls: GRANTED, REVOKED
  overridden, \* the thread's human_override_at
  told,       \* told[c]: the decision the caller was told is recorded
  tally,      \* tally[c]: the decisions the caller was read
  trips

sharedVars == <<chased, agreed, overridden>>
rowsVars == <<callRow, facts, recorded, metered, rang>>
voiceVars == <<rowsVars, line, sharedVars, runs, callTask, told, tally, trips>>

NewLine == [at |-> "idle", turn |-> 0, plan |-> FALSE, readback |-> "none", confirmed |-> FALSE,
            pending |-> "none", decision |-> "none", got |-> "nothing", recorder |-> FALSE,
            handedOff |-> FALSE, ending |-> "none"]

VoiceInit ==
  /\ callRow = [c \in Calls |-> "none"]
  /\ line = [c \in Calls |-> NewLine]
  /\ facts = [c \in Calls |-> {}]
  /\ recorded = {} /\ metered = [c \in Calls |-> 0] /\ rang = {}
  /\ chased = [decision |-> "none", by |-> "none"]
  /\ runs = {} /\ callTask = {}
  /\ agreed = "GRANTED" /\ overridden = FALSE
  /\ told = [c \in Calls |-> "none"]
  /\ tally = [c \in Calls |-> {}]
  /\ trips = 0

Resting == {"idle", "done", "dead"}

\* Where a call is, and where it goes.
OnLine(c, at) == line[c].at = at
Becomes(c, l) == line' = [line EXCEPT ![c] = l]
Goes(c, at) == Becomes(c, [line[c] EXCEPT !.at = at])
Ends(c, at, how) == Becomes(c, [line[c] EXCEPT !.at = at, !.ending = how])
-----------------------------------------------------------------------------
(* The gate and the dial. *)

\* The rung has just read the request as undecided (ApprovalChase).
FireCallRung(c) ==
  /\ OnLine(c, "idle") /\ \A k \in Calls : k < c => ~OnLine(k, "idle")
  /\ Cardinality({k \in Calls : line[k].at \notin Resting}) < Slots
  /\ chased.decision = "none" /\ ~overridden
  /\ Goes(c, "gate")
  /\ UNCHANGED <<rowsVars, sharedVars, runs, callTask, told, tally, trips>>

\* Mutant: the day's calls are not counted.
NeverFull == FALSE

\* countForCustomerSince: every row but the refused ones.
DayIsFull == Cardinality({c \in Calls : callRow[c] \notin {"none", "BLOCKED"}}) >= CallCap

\* evaluateCallGate, in a transaction that only reads; the refusals no other
\* step can bring about (switches, quiet hours, spend) come at any time.
Authorise(c) ==
  /\ OnLine(c, "gate")
  /\ IF agreed = "REVOKED" THEN Ends(c, "refused", "CONSENT_REVOKED")
     ELSE IF DayIsFull THEN Ends(c, "refused", "CUSTOMER_CALL_CAP")
     ELSE Goes(c, "allowed") \/ Ends(c, "refused", "OTHER_REFUSAL")
  /\ UNCHANGED <<rowsVars, sharedVars, runs, callTask, told, tally, trips>>

RefuseCall(c) ==
  /\ OnLine(c, "refused")
  /\ callRow' = [callRow EXCEPT ![c] = "BLOCKED"]
  /\ Goes(c, "reporting")
  /\ UNCHANGED <<facts, recorded, metered, rang, sharedVars, runs, callTask, told, tally, trips>>

OpenCall(c) ==
  /\ OnLine(c, "allowed")
  /\ callRow' = [callRow EXCEPT ![c] = "ORIGINATING"]
  /\ Goes(c, "dial")
  /\ UNCHANGED <<facts, recorded, metered, rang, sharedVars, runs, callTask, told, tally, trips>>

\* telephony.originate: the provider takes the call, or refuses it.
Originate(c) ==
  /\ OnLine(c, "dial")
  /\ \/ rang' = rang \cup {c} /\ Goes(c, "accepted")
     \/ UNCHANGED rang /\ Ends(c, "finishing", "PROVIDER_ERROR")
  /\ UNCHANGED <<callRow, facts, recorded, metered, sharedVars, runs, callTask, told, tally, trips>>

MarkRinging(c) ==
  /\ OnLine(c, "accepted")
  /\ callRow' = [callRow EXCEPT ![c] = "RINGING"]
  /\ Goes(c, "ringing")
  /\ UNCHANGED <<facts, recorded, metered, rang, sharedVars, runs, callTask, told, tally, trips>>

WaitForAnswer(c) ==
  /\ OnLine(c, "ringing")
  /\ Goes(c, "answered") \/ Ends(c, "finishing", "NO_ANSWER")
  /\ UNCHANGED <<rowsVars, sharedVars, runs, callTask, told, tally, trips>>

MarkAnswered(c) ==
  /\ OnLine(c, "answered")
  /\ callRow' = [callRow EXCEPT ![c] = "IN_PROGRESS"]
  /\ Goes(c, "opening")
  /\ UNCHANGED <<facts, recorded, metered, rang, sharedVars, runs, callTask, told, tally, trips>>
-----------------------------------------------------------------------------
(* The opening.  The disclosure and its fact come first. *)

PlayNotice(c) ==
  /\ OnLine(c, "opening")
  /\ facts' = [facts EXCEPT ![c] = facts[c] \cup {"RECORDING_NOTICE_PLAYED"}]
  /\ Goes(c, "noticed")
  /\ UNCHANGED <<callRow, recorded, metered, rang, sharedVars, runs, callTask, told, tally, trips>>

\* mayStartRecording reads the facts; the recorder is on before its own is written.
StartRecording(c) ==
  /\ OnLine(c, "noticed") /\ "RECORDING_NOTICE_PLAYED" \in facts[c]
  /\ Becomes(c, [line[c] EXCEPT !.recorder = TRUE, !.at = "started"])
  /\ UNCHANGED <<rowsVars, sharedVars, runs, callTask, told, tally, trips>>

RecordStarted(c) ==
  /\ OnLine(c, "started")
  /\ facts' = [facts EXCEPT ![c] = facts[c] \cup {"RECORDING_STARTED"}]
  /\ Goes(c, "top")
  /\ UNCHANGED <<callRow, recorded, metered, rang, sharedVars, runs, callTask, told, tally, trips>>
-----------------------------------------------------------------------------
(* The turn loop. *)

NextTurn(l) == [l EXCEPT !.turn = l.turn + 1, !.at = "top", !.got = "nothing"]

\* The caps come before everything else a turn does, the time cap at any turn.
BeginTurn(c) ==
  /\ OnLine(c, "top")
  /\ \/ Goes(c, "exit")
     \/ /\ line[c].turn < MaxTurns
        /\ Becomes(c, [line[c] EXCEPT !.at = IF line[c].plan THEN "plan" ELSE "listen", !.plan = FALSE])
  /\ UNCHANGED <<rowsVars, sharedVars, runs, callTask, told, tally, trips>>

HangUp(c) ==
  /\ line[c].at \in {"listen", "confirm"}
  /\ Ends(c, "close", "CUSTOMER_HUNG_UP")
  /\ UNCHANGED <<rowsVars, sharedVars, runs, callTask, told, tally, trips>>

\* Mutant: the first press decides.
SecondPressAny(l, d) == TRUE

SecondPress(l, d) == l.readback # "none" /\ l.pending = d

\* A decision's key: read back when first pressed, recorded when pressed again.
PressDecision(c, d) ==
  /\ OnLine(c, "listen")
  /\ IF SecondPress(line[c], d)
       THEN /\ Becomes(c, [line[c] EXCEPT !.at = "keyed", !.confirmed = TRUE, !.decision = d])
            /\ UNCHANGED tally
       ELSE /\ Becomes(c, [NextTurn(line[c]) EXCEPT !.readback = d, !.pending = d])
            /\ tally' = [tally EXCEPT ![c] = tally[c] \cup {d}]
  /\ UNCHANGED <<rowsVars, sharedVars, runs, callTask, told, trips>>

PressHandoff(c) ==
  /\ OnLine(c, "listen")
  /\ Goes(c, "bridge")
  /\ UNCHANGED <<rowsVars, sharedVars, runs, callTask, told, tally, trips>>

\* A key without a meaning here drops what was pending, "repeat" does not.
PressOther(c) ==
  /\ OnLine(c, "listen")
  /\ \/ Becomes(c, [NextTurn(line[c]) EXCEPT !.pending = "none"])
     \/ Becomes(c, NextTurn(line[c]))
  /\ UNCHANGED <<rowsVars, sharedVars, runs, callTask, told, tally, trips>>

\* Mutant: a turn in which nothing was understood does not count.
UnheardForFree(c) ==
  /\ OnLine(c, "listen")
  /\ Goes(c, "top")
  /\ UNCHANGED <<rowsVars, sharedVars, runs, callTask, told, tally, trips>>

\* Silence, or speech below the confidence floor: the keypad is offered.
Unheard(c) ==
  /\ OnLine(c, "listen")
  /\ Becomes(c, NextTurn(line[c]))
  /\ UNCHANGED <<rowsVars, sharedVars, runs, callTask, told, tally, trips>>

Speak(c) ==
  /\ OnLine(c, "listen")
  /\ Goes(c, "plan")
  /\ UNCHANGED <<rowsVars, sharedVars, runs, callTask, told, tally, trips>>

\* The answer to a readback.  Only a yes lets the agent go on at once; anything
\* else spends the readback, though not an earlier yes.
AnswerReadback(c) ==
  /\ OnLine(c, "confirm")
  /\ \/ Becomes(c, [NextTurn(line[c]) EXCEPT !.confirmed = TRUE, !.plan = TRUE])
     \/ Becomes(c, [NextTurn(line[c]) EXCEPT !.readback = "none"])
  /\ UNCHANGED <<rowsVars, sharedVars, runs, callTask, told, tally, trips>>
-----------------------------------------------------------------------------
(* An agent run. *)

\* activeRunIds and the insert are one transaction, and no index holds a second
\* run off that reads before the first commits.
LookForRuns(c) ==
  /\ OnLine(c, "plan")
  /\ Goes(c, IF overridden \/ runs # {} THEN "exit" ELSE "start")
  /\ UNCHANGED <<rowsVars, sharedVars, runs, callTask, told, tally, trips>>

\* The run's trigger is the caller's turn, whose id is fresh: it is in call_turns
\* and in no message, so that a database which keeps the reference refuses the run.
StartRun(c) ==
  /\ OnLine(c, "start")
  /\ runs' = IF References THEN runs ELSE runs \cup {c}
  /\ Goes(c, IF References THEN "caught" ELSE "run")
  /\ UNCHANGED <<rowsVars, sharedVars, callTask, told, tally, trips>>

\* The thread is looked at before every step, which is a completion long.
LookAtThread(c) ==
  /\ OnLine(c, "run")
  /\ Becomes(c, IF overridden THEN [line[c] EXCEPT !.at = "ran", !.got = "handoff"]
                ELSE [line[c] EXCEPT !.at = "acting"])
  /\ UNCHANGED <<rowsVars, sharedVars, runs, callTask, told, tally, trips>>

DecidedBy(d, who) ==
  IF chased.decision = "none" THEN [decision |-> d, by |-> who] ELSE chased

\* ToolRegistry.invoke runs the handler, which commits, and then the
\* invariants: the readback's may refuse what has been recorded, and a refused
\* tool leaves the run going.  (One refusal per run.)
AgentRecords(c, d) ==
  LET l == line[c] IN
  /\ OnLine(c, "acting") /\ l.got = "nothing"
  /\ chased' = DecidedBy(d, "agent")
  /\ Becomes(c, IF l.confirmed
                  THEN [l EXCEPT !.at = "ran", !.got = "recorded", !.decision = d,
                                 !.confirmed = FALSE, !.readback = "none"]
                  ELSE [l EXCEPT !.at = "run", !.got = "refused"])
  /\ UNCHANGED <<rowsVars, agreed, overridden, runs, callTask, told, tally, trips>>

\* speak_to_caller, as a readback or not, hands off, or is stopped by the
\* checker; or the steps, the tokens or the time run out.
AgentSpeaks(c, d) ==
  /\ OnLine(c, "acting")
  /\ Becomes(c, [line[c] EXCEPT !.at = "ran", !.got = "spoke", !.readback = d])
  /\ tally' = [tally EXCEPT ![c] = tally[c] \cup ({d} \ {"none"})]
  /\ UNCHANGED <<rowsVars, sharedVars, runs, callTask, told, trips>>

AgentEnds(c, how) ==
  /\ OnLine(c, "acting")
  /\ Becomes(c, [line[c] EXCEPT !.at = "ran", !.got = how])
  /\ UNCHANGED <<rowsVars, sharedVars, runs, callTask, told, tally, trips>>

\* What the loop does after a run.
AfterRun(l) ==
  IF l.got = "blocked" THEN [l EXCEPT !.at = "exit"]
  ELSE IF l.got \in {"nothing", "refused"} /\ l.decision = "none" THEN NextTurn(l)
  ELSE IF l.readback # "none" THEN [l EXCEPT !.at = "confirm"]
  ELSE IF l.decision # "none" THEN [l EXCEPT !.at = "closing"]
  ELSE IF l.got = "handoff" THEN [l EXCEPT !.at = "bridge"]
  ELSE NextTurn(l)

\* The run is FINISHED or ABORTED in a transaction of its own.
FinishRun(c) ==
  /\ OnLine(c, "ran")
  /\ runs' = runs \ {c}
  /\ Becomes(c, AfterRun(line[c]))
  /\ UNCHANGED <<rowsVars, sharedVars, callTask, told, tally, trips>>
-----------------------------------------------------------------------------
(* How a call ends. *)

\* recordKeypadDecision: what cannot be written, or applied once written, goes
\* to an advisor.
RecordKeyed(c) ==
  /\ OnLine(c, "keyed")
  /\ \/ /\ chased' = DecidedBy(line[c].decision, "keypad")
        /\ Goes(c, "closing") /\ UNCHANGED callTask
     \/ /\ callTask' = callTask \cup {c}
        /\ Becomes(c, [line[c] EXCEPT !.at = "closing", !.handedOff = TRUE])
        /\ chased' \in {chased, DecidedBy(line[c].decision, "keypad")}
  /\ UNCHANGED <<rowsVars, agreed, overridden, runs, told, tally, trips>>

\* closeAfterDecision: told first, then the summary by message.
CloseAfterDecision(c) ==
  /\ OnLine(c, "closing")
  /\ told' = [told EXCEPT ![c] = line[c].decision]
  /\ Ends(c, "close", "DECISION_RECORDED")
  /\ UNCHANGED <<rowsVars, sharedVars, runs, callTask, tally, trips>>

HandedTo(c, how) == Becomes(c, [line[c] EXCEPT !.at = "close", !.handedOff = TRUE, !.ending = how])

\* With an advisor the legs are joined, without one a task takes the call.
BridgeToAdvisor(c) ==
  /\ OnLine(c, "bridge")
  /\ \/ /\ callRow' = [callRow EXCEPT ![c] = "BRIDGING"]
        /\ HandedTo(c, "BRIDGED") /\ UNCHANGED callTask
     \/ /\ callTask' = callTask \cup {c}
        /\ HandedTo(c, "ADVISOR_TASK_RAISED") /\ UNCHANGED callRow
  /\ UNCHANGED <<facts, recorded, metered, rang, sharedVars, runs, told, tally, trips>>

GracefulExit(c) ==
  /\ OnLine(c, "exit")
  /\ callTask' = callTask \cup {c}
  /\ HandedTo(c, "ADVISOR_TASK_RAISED")
  /\ UNCHANGED <<rowsVars, sharedVars, runs, told, tally, trips>>

Guarded == {"opening", "noticed", "started", "top", "listen", "confirm", "plan", "start", "run",
            "acting", "ran", "keyed", "closing", "bridge", "exit"}

\* An exception, or the process dies.  Within the opening and the loop it is
\* caught; elsewhere it fails the rung's job, and the call's row stays as it is.
Trips(c) ==
  /\ trips < MaxTrips /\ line[c].at \notin Resting
  /\ trips' = trips + 1
  /\ \/ Goes(c, "dead")
     \/ line[c].at \in Guarded /\ Goes(c, "caught")
  /\ UNCHANGED <<rowsVars, sharedVars, runs, callTask, told, tally>>

\* The apology, the message and the task for an advisor.
PipelineFailed(c) ==
  /\ OnLine(c, "caught")
  /\ callTask' = callTask \cup {c}
  /\ HandedTo(c, "PIPELINE_FAILURE")
  /\ UNCHANGED <<rowsVars, sharedVars, runs, told, tally, trips>>

\* The recording is kept when the notice is on file, which a trigger asks
\* again; or the provider has none to give.
StoreRecording(c) ==
  /\ OnLine(c, "close")
  /\ \/ UNCHANGED <<facts, recorded>>
     \/ /\ line[c].recorder
        /\ facts' = [facts EXCEPT ![c] = facts[c] \cup {"RECORDING_STOPPED"}]
        /\ recorded' = IF "RECORDING_NOTICE_PLAYED" \in facts[c] THEN recorded \cup {c} ELSE recorded
  /\ Goes(c, "finishing")
  /\ UNCHANGED <<callRow, metered, rang, sharedVars, runs, callTask, told, tally, trips>>

\* The row's outcome and its usage are one transaction.
FinishCall(c) ==
  /\ OnLine(c, "finishing")
  /\ callRow' = [callRow EXCEPT ![c] =
                   IF line[c].ending = "PROVIDER_ERROR" THEN "FAILED" ELSE "COMPLETED"]
  /\ metered' = [metered EXCEPT ![c] = metered[c] + 1]
  /\ Goes(c, "reporting")
  /\ UNCHANGED <<facts, recorded, rang, sharedVars, runs, callTask, told, tally, trips>>

\* What raiseCallTask leaves to an advisor: not a call that was answered, not one
\* to be placed again, and nothing where the customer's consent is revoked.
LeftToAdvisor(c) ==
  \/ line[c].ending \in {"CUSTOMER_CALL_CAP", "OTHER_REFUSAL", "PROVIDER_ERROR"}
  \/ line[c].ending = "NO_ANSWER" /\ c \in Repeats

ReportCall(c) ==
  /\ OnLine(c, "reporting")
  /\ callTask' = IF LeftToAdvisor(c) THEN callTask \cup {c} ELSE callTask
  /\ Goes(c, "done")
  /\ UNCHANGED <<rowsVars, sharedVars, runs, told, tally, trips>>
-----------------------------------------------------------------------------
(* Everybody else. *)

\* The customer answers the request's message.
DecideElsewhere(d) ==
  /\ chased.decision = "none"
  /\ chased' = DecidedBy(d, "thread")
  /\ UNCHANGED <<rowsVars, line, agreed, overridden, runs, callTask, told, tally, trips>>

RevokeCalls ==
  /\ agreed' = "REVOKED" /\ agreed # agreed'
  /\ UNCHANGED <<rowsVars, line, chased, overridden, runs, callTask, told, tally, trips>>

\* An advisor writes on the thread.
WriteOnThread ==
  /\ ~overridden /\ overridden' = TRUE
  /\ UNCHANGED <<rowsVars, line, chased, agreed, runs, callTask, told, tally, trips>>

GateStep(c) ==
  \/ Authorise(c) \/ RefuseCall(c) \/ OpenCall(c) \/ Originate(c) \/ MarkRinging(c)
  \/ WaitForAnswer(c) \/ MarkAnswered(c)

CallOpening(c) == PlayNotice(c) \/ StartRecording(c) \/ RecordStarted(c)

Caller(c) ==
  \/ HangUp(c) \/ PressHandoff(c) \/ PressOther(c) \/ Unheard(c) \/ Speak(c) \/ AnswerReadback(c)
  \/ \E d \in Decisions : PressDecision(c, d)

AgentRun(c) ==
  \/ LookForRuns(c) \/ StartRun(c) \/ LookAtThread(c) \/ FinishRun(c)
  \/ \E d \in Decisions : AgentRecords(c, d)
  \/ \E d \in Decisions \cup {line[c].readback} : AgentSpeaks(c, d)
  \/ \E how \in {"nothing", "handoff", "blocked"} : AgentEnds(c, how)

Ending(c) ==
  \/ RecordKeyed(c) \/ CloseAfterDecision(c) \/ BridgeToAdvisor(c) \/ GracefulExit(c)
  \/ PipelineFailed(c) \/ StoreRecording(c) \/ FinishCall(c) \/ ReportCall(c)

CallGoesOn(c) == GateStep(c) \/ CallOpening(c) \/ BeginTurn(c) \/ Caller(c) \/ AgentRun(c) \/ Ending(c)

VoiceNext ==
  \/ \E c \in Calls : FireCallRung(c) \/ CallGoesOn(c) \/ Trips(c)
  \/ \E d \in Decisions : DecideElsewhere(d)
  \/ RevokeCalls \/ WriteOnThread

\* Ringing, listening and an agent's run all have deadlines.
VoiceSpec ==
  /\ VoiceInit /\ [][VoiceNext]_voiceVars
  /\ \A c \in Calls : WF_voiceVars(CallGoesOn(c))
-----------------------------------------------------------------------------
(* Properties. *)

\* No sound is kept, or recorded, of a caller who has not heard the notice.
RecordingHadNotice ==
  \A c \in Calls :
    c \in recorded \/ line[c].recorder => "RECORDING_NOTICE_PLAYED" \in facts[c]

\* Calls the gate let through together may exceed the day's cap, by less than
\* the worker's slots.
CallsOvershootBySlots == Cardinality(rang) < CallCap + Slots

\* Nobody is told that a decision is recorded which is neither on the request
\* nor with an advisor to be applied by hand.
ToldIsOnRecord ==
  \A c \in Calls : told[c] # "none" => chased.decision # "none" \/ c \in callTask

\* A key that decides has been read back on that call, though an agent's run
\* or another readback may have come between the two presses.
KeyedWasReadBack ==
  \A c \in Calls : OnLine(c, "keyed") => line[c].decision \in tally[c]

\* A call that has been through leaves a decision, a person who has it, or a
\* customer who hung up or asked not to be called; or its rung rings again.
SomebodyHasIt ==
  \A c \in Calls : OnLine(c, "done") =>
    \/ chased.decision # "none" \/ c \in callTask
    \/ line[c].ending \in {"BRIDGED", "CUSTOMER_HUNG_UP", "CONSENT_REVOKED"}
    \/ line[c].ending = "NO_ANSWER" /\ c \notin Repeats

\* A call is paid for once, and a call that has ended is paid for.
EndedIsMetered ==
  \A c \in Calls : metered[c] = IF callRow[c] \in {"COMPLETED", "FAILED"} THEN 1 ELSE 0

\* What a call may and must leave behind.
CallsAreSound ==
  /\ RecordingHadNotice /\ CallsOvershootBySlots /\ ToldIsOnRecord
  /\ KeyedWasReadBack /\ SomebodyHasIt /\ EndedIsMetered

\* Whatever the caller and the agent do, a call that was opened is ended, unless
\* an exception or a crash took it out of the runner's hands.
CallEnds ==
  \A c \in Calls :
    callRow[c] = "ORIGINATING" ~> (callRow[c] \in {"COMPLETED", "FAILED"} \/ OnLine(c, "dead"))

\* voice-runner.ts: every turn after the opening is the customer's reply, which
\* the agent may answer and whose decision it may record; so that a call only
\* ends as a failed pipeline where something else has failed.
SpokenTurnsArePlanned ==
  \A c \in Calls : line[c].ending = "PIPELINE_FAILURE" => trips > 0
=============================================================================
