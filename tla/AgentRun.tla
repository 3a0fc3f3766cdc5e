------------------------------ MODULE AgentRun ------------------------------
(***************************************************************************)
(* The agent's runs on one thread (AgentRunner, the tools that reach the   *)
(* customer, PgAgentRunStore).                                             *)
(*                                                                         *)
(* A run opens in a transaction that locks nothing, then alternates a look *)
(* at the thread, a turn of the model, the turn's tool calls and the row   *)
(* that records the step.  An advisor may take the wheel at any moment.    *)
(***************************************************************************)
EXTENDS Naturals, FiniteSets

CONSTANTS
  Requests,       \* calls of AgentRunner.run, all on the one thread
  Levels,         \* autonomy levels the shop may have set for the approval flow
  MaxSteps,       \* the shop's cap on steps
  MaxCalls,       \* bound on the tool calls of one turn of the model
  MaxRunFaults    \* bound on processes that die and models that throw

ASSUME AgentConstants ==
  /\ IsFiniteSet(Requests) /\ MaxSteps \in Nat \ {0} /\ MaxCalls \in Nat /\ MaxRunFaults \in Nat
  /\ Levels \subseteq {"L0_SHADOW", "L1_TEMPLATED", "L2_CONVERSATIONAL", "L3_VOICE"}

VARIABLES
  setup,     \* the shop's level, the runs' objective, and whether they are of one
             \* message delivered again or of a message each
  override,  \* the thread's human_override_at is set
  runRows,   \* runRows[r]: agent_runs, with the number of its agent_steps
  turn,      \* turn[r]: where the process is, and what the turn has come to
  done       \* done[r]: what the run has done to the world

runFaults == Cardinality({r \in Requests : turn[r].pc = "dead"})
agentVars == <<setup, override, runRows, turn, done>>

NoRun == [status |-> "none", outcome |-> "none", steps |-> 0]
Waiting == [pc |-> "idle", steps |-> 0, left |-> 0, verdict |-> "none",
            handedOff |-> FALSE, met |-> FALSE, blocked |-> FALSE, outcome |-> "none"]
NothingDone == [refusedSent |-> FALSE, late |-> 0, decided |-> "none", task |-> FALSE]

\* The tools of two objectives that change anything, and those that meet them.
ToolsOf(objective) ==
  {"send", "handoff", "other"} \cup
    (IF objective = "request_approval" THEN {"request"} ELSE {"decide"})
MetWhen(objective) ==
  IF objective = "request_approval" THEN {"request"} ELSE {"decide", "handoff", "send"}

Setups ==
  [level : Levels, objective : {"request_approval", "resolve_partial_approval"},
   again : BOOLEAN]

AgentInit ==
  /\ setup \in Setups
  /\ override = FALSE /\ runRows = [r \in Requests |-> NoRun]
  /\ turn = [r \in Requests |-> Waiting] /\ done = [r \in Requests |-> NothingDone]

SameTrigger(r, s) == r = s \/ setup.again
RunAt(r, pc) == turn[r].pc = pc
RunGoes(r, pc) == turn' = [turn EXCEPT ![r].pc = pc]
-----------------------------------------------------------------------------
(* Opening. *)

\* An advisor answers from the inbox, or a follow-up hands the thread over.
AdvisorTakesOver ==
  /\ ~override /\ override' = TRUE
  /\ UNCHANGED <<setup, runRows, turn, done>>

Active == {r \in Requests : runRows[r].status = "RUNNING"}

\* The look at the thread and its active runs; nothing is locked.
LookBeforeOpening(r) ==
  /\ RunAt(r, "idle")
  /\ RunGoes(r, IF override \/ Active # {} THEN "skipped" ELSE "opening")
  /\ UNCHANGED <<setup, override, runRows, done>>

\* Mutant: without the unique index, the look at the active runs is all there is.
NeverTaken(r) == FALSE

\* The unique index on the shop and the message that triggered the run.
TriggerTaken(r) ==
  \E s \in Requests : SameTrigger(r, s) /\ runRows[s].status # "none"

OpenRun(r) ==
  /\ RunAt(r, "opening")
  /\ IF TriggerTaken(r) THEN RunGoes(r, "skipped") /\ UNCHANGED runRows
     ELSE RunGoes(r, "looking") /\ runRows' = [runRows EXCEPT ![r].status = "RUNNING"]
  /\ UNCHANGED <<setup, override, done>>
-----------------------------------------------------------------------------
(* The loop. *)

\* The turn's own state goes with it.
Closes(r, pc, outcome) ==
  turn' = [turn EXCEPT ![r] = [Waiting EXCEPT !.pc = pc, !.steps = turn[r].steps, !.outcome = outcome]]

\* Mutant: the wheel is looked at when the run begins, and not again.
LooksOnce(r) == override /\ turn[r].steps = 0

\* Read again before every step.
SeesOverride(r) == override

Look(r) ==
  /\ RunAt(r, "looking") /\ turn[r].steps < MaxSteps
  /\ RunGoes(r, IF SeesOverride(r) THEN "aborting" ELSE "asking")
  /\ UNCHANGED <<setup, override, runRows, done>>

\* The step cap, or the wall clock or token budget found spent before a step.
OutOfBudget(r) ==
  /\ RunAt(r, "asking") \/ (RunAt(r, "looking") /\ turn[r].steps = MaxSteps)
  /\ Closes(r, "finishing", "budget_exhausted")
  /\ UNCHANGED <<setup, override, runRows, done>>

\* The model answers with calls; without any it has spent a step.
Ask(r, calls) ==
  /\ RunAt(r, "asking")
  /\ turn' = [turn EXCEPT ![r].pc = "calling", ![r].left = calls, ![r].steps = turn[r].steps + 1,
                          ![r].met = FALSE, ![r].blocked = FALSE]
  /\ UNCHANGED <<setup, override, runRows, done>>

CallResult(r, tool, ok) ==
  [turn[r] EXCEPT !.left = turn[r].left - 1, !.pc = "calling", !.verdict = "none",
                  !.met = turn[r].met \/ (ok /\ tool \in MetWhen(setup.objective))]

\* A tool that only reads or notes, one this objective may not use, arguments
\* that do not parse, a tool that throws or refuses.
CallOther(r) ==
  /\ RunAt(r, "calling") /\ turn[r].left > 0
  /\ turn' = [turn EXCEPT ![r] = CallResult(r, "other", FALSE)]
  /\ UNCHANGED <<setup, override, runRows, done>>

\* record_customer_decision; a decision already recorded is a success too.  The
\* decision commits first: when the items or the card then refuse theirs, the
\* call fails with the decision on record.
CallDecide(r, through) ==
  /\ RunAt(r, "calling") /\ turn[r].left > 0 /\ "decide" \in ToolsOf(setup.objective)
  /\ turn' = [turn EXCEPT ![r] = CallResult(r, "decide", through)]
  /\ done' = [done EXCEPT ![r].decided =
                IF through \/ done[r].decided = "reported" THEN "reported" ELSE "unreported"]
  /\ UNCHANGED <<setup, override, runRows>>

\* handoff_to_human: the task is created, the rest of the turn's calls go on.
CallHandoff(r) ==
  /\ RunAt(r, "calling") /\ turn[r].left > 0
  /\ turn' = [turn EXCEPT ![r] = [CallResult(r, "handoff", TRUE) EXCEPT !.handedOff = TRUE]]
  /\ done' = [done EXCEPT ![r].task = TRUE]
  /\ UNCHANGED <<setup, override, runRows>>

\* send_customer_message has its candidate reviewed, by a model too, before it
\* asks the gate; create_approval_request goes to the gate at once.
Review(r, verdict) ==
  /\ RunAt(r, "calling") /\ turn[r].left > 0
  /\ \/ verdict \in {"pass", "block_to_hitl"}
     \/ verdict = "request" /\ "request" \in ToolsOf(setup.objective)
  /\ turn' = [turn EXCEPT ![r].pc = "gate", ![r].verdict = verdict]
  /\ UNCHANGED <<setup, override, runRows, done>>

\* resolveSendMode for a message that is no template.
AutoSends(level) == level \in {"L2_CONVERSATIONAL", "L3_VOICE"}

\* What the gate answers: the customer's protections first, then the shop's
\* autonomy, then quiet hours, then the channel.
GateAnswers(level) ==
  {"BLOCKED"} \cup (IF AutoSends(level) THEN {"DEFERRED", "SENT", "FAILED"} ELSE {"PENDING_APPROVAL"})

\* Both calls of the gate carry the same message; the checker's verdict is no
\* part of it.  Whatever the gate answers, only the verdict makes the result a
\* refusal.
AskGate(r, answer) ==
  LET refused == turn[r].verdict = "block_to_hitl"
      tool == IF turn[r].verdict = "request" THEN "request" ELSE "send"
      sent == answer = "SENT"
  IN
  /\ RunAt(r, "gate") /\ answer \in GateAnswers(setup.level)
  /\ turn' = [turn EXCEPT ![r] = [CallResult(r, tool, ~refused) EXCEPT !.blocked = turn[r].blocked \/ refused]]
  /\ done' = [done EXCEPT ![r].late = done[r].late + (IF sent /\ override THEN 1 ELSE 0),
                          ![r].refusedSent = done[r].refusedSent \/ (sent /\ refused)]
  /\ UNCHANGED <<setup, override, runRows>>

\* Mutant: a turn whose draft was refused ends the run before its hand-off.
BlockedFirst(t) ==
  IF t.blocked THEN "blocked" ELSE IF t.handedOff THEN "handoff"
  ELSE IF t.met THEN "objective_met" ELSE "none"

\* What the turn means for the run: a hand-off before all, then success.
TurnMeans(t) ==
  IF t.handedOff THEN "handoff" ELSE IF t.met THEN "objective_met"
  ELSE IF t.blocked THEN "blocked" ELSE "none"

\* The step is recorded; then the run ends or looks again.
PersistStep(r) ==
  /\ RunAt(r, "calling") /\ turn[r].left = 0
  /\ runRows' = [runRows EXCEPT ![r].steps = runRows[r].steps + 1]
  /\ IF TurnMeans(turn[r]) = "none" THEN RunGoes(r, "looking")
     ELSE Closes(r, "finishing", TurnMeans(turn[r]))
  /\ UNCHANGED <<setup, override, done>>

Finish(r) ==
  /\ RunAt(r, "finishing") /\ Closes(r, "ended", "none")
  /\ runRows' = [runRows EXCEPT ![r].status = "FINISHED", ![r].outcome = turn[r].outcome]
  /\ UNCHANGED <<setup, override, done>>

Abort(r) ==
  /\ RunAt(r, "aborting") /\ RunGoes(r, "ended")
  /\ runRows' = [runRows EXCEPT ![r].status = "ABORTED"]
  /\ UNCHANGED <<setup, override, done>>

\* The process dies or the model throws: nothing ever finishes the row.
RunDies(r) ==
  /\ turn[r].pc \notin {"idle", "skipped", "ended", "dead"} /\ runFaults < MaxRunFaults
  /\ Closes(r, "dead", "none")
  /\ UNCHANGED <<setup, override, runRows, done>>
-----------------------------------------------------------------------------
RunStep(r) ==
  \/ LookBeforeOpening(r) \/ OpenRun(r) \/ Look(r) \/ OutOfBudget(r)
  \/ \E n \in 0..MaxCalls : Ask(r, n)
  \/ CallOther(r) \/ CallHandoff(r)
  \/ \E through \in BOOLEAN : CallDecide(r, through)
  \/ \E v \in {"pass", "block_to_hitl", "request"} : Review(r, v)
  \/ \E a \in {"BLOCKED", "PENDING_APPROVAL", "DEFERRED", "SENT", "FAILED"} : AskGate(r, a)
  \/ PersistStep(r) \/ Finish(r) \/ Abort(r)

AgentNext == AdvisorTakesOver \/ \E r \in Requests : RunStep(r) \/ RunDies(r)

AgentSpec == AgentInit /\ [][AgentNext]_agentVars
-----------------------------------------------------------------------------
(* Properties. *)

\* A customer's message is answered by one run, delivered twice or not.
OneRunPerMessage ==
  \A r, s \in Requests :
    SameTrigger(r, s) /\ runRows[r].status # "none" /\ runRows[s].status # "none" => r = s

\* The agent talks over an advisor for the rest of one turn, never into another.
TalksOverForOneTurn == \A r \in Requests : done[r].late <= MaxCalls

\* A decision that was reported to the run, or a hand-off, is never in a run that
\* says it gave up: its process is at work on it, or dead, or the run ended as
\* what it did.  (A decision whose call failed after the commit may be: it is on
\* record, and the run may end budget_exhausted or blocked.)
OutcomeOwnsItsEffects == \A r \in Requests :
  /\ runRows[r].status = "ABORTED" \/ runRows[r].outcome \in {"blocked", "budget_exhausted"} =>
       done[r].decided # "reported" /\ ~done[r].task
  /\ done[r].task /\ runRows[r].status = "FINISHED" => runRows[r].outcome = "handoff"

\* Each step is recorded before the next begins: what is not in the record is
\* the turn in hand, or the last of a process that died.
StepsAreRecorded == \A r \in Requests :
  /\ turn[r].steps \in {runRows[r].steps, runRows[r].steps + 1}
  /\ runRows[r].status \in {"FINISHED", "ABORTED"} => turn[r].steps = runRows[r].steps

\* What a run says it did, recorded and respected is what happened on the thread.
RunsAreSound ==
  /\ OneRunPerMessage /\ TalksOverForOneTurn
  /\ OutcomeOwnsItsEffects /\ StepsAreRecorded

\* tools.ts:415, of a draft the checker refuses: the gate "still writes the row,
\* so an advisor sees the draft *and* the reasons it was held".
RefusedIsNotSent == \A r \in Requests : ~done[r].refusedSent
=============================================================================
