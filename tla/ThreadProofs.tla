---------------------------- MODULE ThreadProofs ----------------------------
(***************************************************************************)
(* What the shop's machinery does on one customer's thread: the agent's    *)
(* runs (AgentRun), the gate every message passes (OutboundGate) and what  *)
(* the customer writes (Inbound), for any number of runs, calls, drafts    *)
(* and messages.                                                           *)
(***************************************************************************)
EXTENDS AgentRun, OutboundGate, Inbound, FiniteSetTheorems, SequenceTheorems, TLAPS

USE AgentConstants

(* The agent's runs. *)

RunPhase == {"idle", "skipped", "opening", "looking", "asking", "calling", "gate",
             "finishing", "aborting", "ended", "dead"}
RunOutcome == {"none", "handoff", "objective_met", "blocked", "budget_exhausted"}
TurnType ==
  [pc : RunPhase, steps : Nat, left : Nat, verdict : {"none", "pass", "block_to_hitl", "request"},
   handedOff : BOOLEAN, met : BOOLEAN, blocked : BOOLEAN, outcome : RunOutcome]
RowType == [status : {"none", "RUNNING", "FINISHED", "ABORTED"}, outcome : RunOutcome, steps : Nat]
DoneType == [refusedSent : BOOLEAN, late : Nat, decided : {"none", "unreported", "reported"}, task : BOOLEAN]

AgentTypeOK ==
  /\ setup \in Setups /\ override \in BOOLEAN
  /\ runRows \in [Requests -> RowType]
  /\ turn \in [Requests -> TurnType]
  /\ done \in [Requests -> DoneType]

\* Where the process is tells what its row says.
RowOf(t, row) ==
  /\ t.pc \in {"idle", "skipped", "opening"} => row = NoRun
  /\ t.pc \in {"looking", "asking", "calling", "gate", "finishing", "aborting"} =>
       row.status = "RUNNING"
  /\ t.pc = "dead" => row.status \in {"none", "RUNNING"}
  /\ t.pc = "ended" => row.status \in {"FINISHED", "ABORTED"}
  /\ row.status # "FINISHED" => row.outcome = "none"
  /\ t.pc \in {"idle", "skipped", "opening", "looking", "asking", "finishing", "aborting", "ended"} =>
       t.steps = row.steps
  /\ t.pc \in {"calling", "gate"} => t.steps = row.steps + 1
  /\ t.pc = "dead" => t.steps \in {row.steps, row.steps + 1}

\* The calls left of a turn are the messages it may yet send, and an advisor can
\* have come in between only in the turn that began before.
LateOf(t, d, taken) ==
  /\ d.late <= MaxCalls /\ t.left <= MaxCalls
  /\ t.pc \in {"calling", "gate"} => d.late + t.left <= MaxCalls
  /\ t.pc = "gate" => t.left > 0
  /\ t.pc = "asking" => d.late = 0
  /\ ~taken => d.late = 0

Reported(d) == d.decided = "reported"

\* What a run has done is in the turn in hand, or in how it ends.
EffectsOf(t, row, d) ==
  /\ t.pc \in {"idle", "skipped", "opening", "looking", "asking", "aborting"} => ~Reported(d) /\ ~d.task
  /\ t.pc \in {"calling", "gate"} => (Reported(d) => t.met) /\ (d.task => t.handedOff)
  /\ t.pc = "finishing" =>
       /\ t.outcome \in {"blocked", "budget_exhausted"} => ~Reported(d) /\ ~d.task
       /\ d.task => t.outcome = "handoff"
  /\ row.status = "ABORTED" => ~Reported(d) /\ ~d.task
  /\ row.status = "FINISHED" =>
       /\ row.outcome \in {"blocked", "budget_exhausted"} => ~Reported(d) /\ ~d.task
       /\ d.task => row.outcome = "handoff"

RunInv(r) ==
  RowOf(turn[r], runRows[r]) /\ LateOf(turn[r], done[r], override)
    /\ EffectsOf(turn[r], runRows[r], done[r])

AgentInv == AgentTypeOK /\ OneRunPerMessage /\ \A r \in Requests : RunInv(r)

LEMMA AgentInitInv == AgentInit => AgentInv
<1>1. SUFFICES ASSUME AgentInit PROVE AgentInv OBVIOUS
<1>2. AgentTypeOK
  BY <1>1 DEF AgentInit, AgentTypeOK, RowType, TurnType, DoneType, NoRun, Waiting, NothingDone,
              RunPhase, RunOutcome
<1>3. OneRunPerMessage BY <1>1 DEF AgentInit, OneRunPerMessage, NoRun
<1>4. \A r \in Requests : RunInv(r)
  BY <1>1 DEF AgentInit, RunInv, RowOf, LateOf, EffectsOf, Reported, NoRun, Waiting, NothingDone
<1>5. QED BY <1>2, <1>3, <1>4 DEF AgentInv

\* A step of one run leaves the others as they were.
LEMMA OneRunMoves ==
  ASSUME AgentInv, NEW r \in Requests, NEW t \in TurnType, NEW row \in RowType, NEW d \in DoneType,
         turn' = [turn EXCEPT ![r] = t], runRows' = [runRows EXCEPT ![r] = row],
         done' = [done EXCEPT ![r] = d], UNCHANGED <<setup, override>>,
         OneRunPerMessage', RowOf(t, row), LateOf(t, d, override), EffectsOf(t, row, d)
  PROVE  AgentInv'
<1>1. AgentTypeOK' BY DEF AgentInv, AgentTypeOK
<1>2. ASSUME NEW s \in Requests PROVE RunInv(s)'
  <2>1. CASE s = r
    <3>1. turn'[s] = t /\ runRows'[s] = row /\ done'[s] = d /\ override' = override
      BY <2>1 DEF AgentInv, AgentTypeOK
    <3>2. QED BY <3>1 DEF RunInv
  <2>2. CASE s # r
    <3>1. turn'[s] = turn[s] /\ runRows'[s] = runRows[s] /\ done'[s] = done[s] /\ override' = override
      BY <2>2 DEF AgentInv, AgentTypeOK
    <3>2. RunInv(s) BY DEF AgentInv
    <3>3. QED BY <3>1, <3>2 DEF RunInv
  <2>3. QED BY <2>1, <2>2
<1>3. QED BY <1>1, <1>2 DEF AgentInv

LEMMA SameRows ==
  ASSUME AgentInv, UNCHANGED setup,
         \A r \in Requests : runRows'[r].status # "none" => runRows[r].status # "none"
  PROVE  OneRunPerMessage'
  BY DEF AgentInv, OneRunPerMessage, SameTrigger

\* A step that changes only the run's row, if that, and not the opened ones.
LEMMA OpenedMoves ==
  ASSUME AgentInv, NEW r \in Requests, NEW t \in TurnType, NEW row \in RowType, NEW d \in DoneType,
         turn' = [turn EXCEPT ![r] = t], runRows' = [runRows EXCEPT ![r] = row],
         done' = [done EXCEPT ![r] = d], UNCHANGED <<setup, override>>,
         row = runRows[r] \/ runRows[r].status # "none",
         RowOf(t, row), LateOf(t, d, override), EffectsOf(t, row, d)
  PROVE  AgentInv'
<1>1. \A s \in Requests : runRows'[s].status # "none" => runRows[s].status # "none"
  BY DEF AgentInv, AgentTypeOK
<1>2. OneRunPerMessage' BY <1>1, SameRows
<1>3. QED BY <1>2, OneRunMoves

\* A step that changes no row.
LEMMA RunTurnMoves ==
  ASSUME AgentInv, NEW r \in Requests, NEW t \in TurnType, NEW d \in DoneType,
         turn' = [turn EXCEPT ![r] = t], done' = [done EXCEPT ![r] = d],
         UNCHANGED <<setup, override, runRows>>,
         RowOf(t, runRows[r]), LateOf(t, d, override), EffectsOf(t, runRows[r], d)
  PROVE  AgentInv'
<1>1. runRows[r] \in RowType /\ runRows' = [runRows EXCEPT ![r] = runRows[r]]
  BY DEF AgentInv, AgentTypeOK
<1>2. QED BY <1>1, OpenedMoves

\* A step that only moves the process.
LEMMA ProcessMoves ==
  ASSUME AgentInv, NEW r \in Requests, NEW t \in TurnType,
         turn' = [turn EXCEPT ![r] = t], UNCHANGED <<setup, override, runRows, done>>,
         RowOf(t, runRows[r]), LateOf(t, done[r], override), EffectsOf(t, runRows[r], done[r])
  PROVE  AgentInv'
<1>1. done[r] \in DoneType /\ done' = [done EXCEPT ![r] = done[r]]
  BY DEF AgentInv, AgentTypeOK
<1>2. QED BY <1>1, RunTurnMoves

\* The parts of a state that satisfies the invariant.
LEMMA PartsOf ==
  ASSUME AgentInv, NEW r \in Requests
  PROVE  /\ turn[r] \in TurnType /\ runRows[r] \in RowType /\ done[r] \in DoneType
         /\ RowOf(turn[r], runRows[r]) /\ LateOf(turn[r], done[r], override)
         /\ EffectsOf(turn[r], runRows[r], done[r])
  BY DEF AgentInv, AgentTypeOK, RunInv

\* The process goes to another place, its turn as it was.
LEMMA Goes ==
  ASSUME AgentInv, NEW r \in Requests, NEW pc \in RunPhase, RunGoes(r, pc)
  PROVE  LET t == [turn[r] EXCEPT !.pc = pc] IN t \in TurnType /\ turn' = [turn EXCEPT ![r] = t]
  BY PartsOf DEF RunGoes, AgentInv, AgentTypeOK, TurnType

LEMMA OpeningStep ==
  ASSUME AgentInv, NEW r \in Requests, LookBeforeOpening(r) \/ OpenRun(r)
  PROVE  AgentInv'
<1> USE PartsOf
<1>1. ASSUME NEW pc \in {"skipped", "opening"}, RunGoes(r, pc), turn[r].pc \in {"idle", "opening"},
             UNCHANGED <<setup, override, runRows, done>>
      PROVE  AgentInv'
  <2> DEFINE t == [turn[r] EXCEPT !.pc = pc]
  <2>1. pc \in RunPhase BY DEF RunPhase
  <2>2. t \in TurnType /\ turn' = [turn EXCEPT ![r] = t] BY <1>1, <2>1, Goes
  <2>3. RowOf(t, runRows[r]) /\ LateOf(t, done[r], override) /\ EffectsOf(t, runRows[r], done[r])
    BY <1>1 DEF RowOf, LateOf, EffectsOf, TurnType
  <2> HIDE DEF t
  <2>4. QED BY <1>1, <2>2, <2>3, ProcessMoves
<1>2. CASE LookBeforeOpening(r)
  <2>1. CASE override \/ Active # {} BY <1>1, <1>2, <2>1 DEF LookBeforeOpening, RunAt
  <2>2. CASE ~(override \/ Active # {}) BY <1>1, <1>2, <2>2 DEF LookBeforeOpening, RunAt
  <2>3. QED BY <2>1, <2>2
<1>3. CASE OpenRun(r) /\ TriggerTaken(r) BY <1>1, <1>3 DEF OpenRun, RunAt
<1>4. CASE OpenRun(r) /\ ~TriggerTaken(r)
  <2> DEFINE t == [turn[r] EXCEPT !.pc = "looking"]
             row == [runRows[r] EXCEPT !.status = "RUNNING"]
  <2>1. t \in TurnType /\ turn' = [turn EXCEPT ![r] = t] BY <1>4, Goes DEF OpenRun, RunPhase
  <2>2. row \in RowType /\ runRows' = [runRows EXCEPT ![r] = row]
    BY <1>4 DEF OpenRun, RowType, AgentInv, AgentTypeOK
  <2>3. RowOf(t, row) /\ LateOf(t, done[r], override) /\ EffectsOf(t, row, done[r])
    BY <1>4 DEF OpenRun, RunAt, RowOf, LateOf, EffectsOf, TurnType, RowType, NoRun
  <2>4. done' = [done EXCEPT ![r] = done[r]] /\ UNCHANGED <<setup, override>>
    BY <1>4 DEF OpenRun, AgentInv, AgentTypeOK
  <2>5. \A s \in Requests : SameTrigger(r, s) => runRows[s].status = "none"
    BY <1>4 DEF TriggerTaken
  <2>6. \A s \in Requests : s # r => runRows'[s] = runRows[s]
    BY <2>2 DEF AgentInv, AgentTypeOK
  <2>7. OneRunPerMessage'
    BY <2>4, <2>5, <2>6 DEF OneRunPerMessage, SameTrigger, AgentInv
  <2> HIDE DEF t, row
  <2>8. QED BY <2>1, <2>2, <2>3, <2>4, <2>7, OneRunMoves
<1>5. QED BY <1>2, <1>3, <1>4

\* The look at the thread, the budget, the model and the calls that change nothing
\* but the turn.
LEMMA LookStep ==
  ASSUME AgentInv, NEW r \in Requests, Look(r) PROVE AgentInv'
<1> DEFINE t == [turn[r] EXCEPT !.pc = IF override THEN "aborting" ELSE "asking"]
<1>1. t \in TurnType /\ turn' = [turn EXCEPT ![r] = t]
  BY Goes DEF Look, SeesOverride, RunPhase
<1>2. RowOf(t, runRows[r]) /\ LateOf(t, done[r], override) /\ EffectsOf(t, runRows[r], done[r])
  BY PartsOf DEF Look, RunAt, RowOf, LateOf, EffectsOf, TurnType
<1> HIDE DEF t
<1>3. QED BY <1>1, <1>2, ProcessMoves DEF Look

\* What closing a turn leaves.
LEMMA ClosedTurn ==
  ASSUME AgentInv, NEW r \in Requests, NEW pc \in RunPhase, NEW outcome \in RunOutcome, Closes(r, pc, outcome)
  PROVE  \E t \in TurnType :
           /\ turn' = [turn EXCEPT ![r] = t]
           /\ t.pc = pc /\ t.steps = turn[r].steps /\ t.left = 0 /\ t.outcome = outcome
<1> DEFINE t == [Waiting EXCEPT !.pc = pc, !.steps = turn[r].steps, !.outcome = outcome]
<1>1. t \in TurnType BY PartsOf DEF TurnType, Waiting
<1>2. t.pc = pc /\ t.steps = turn[r].steps /\ t.left = 0 /\ t.outcome = outcome BY DEF Waiting
<1>3. turn' = [turn EXCEPT ![r] = t] BY DEF Closes
<1>4. QED BY <1>1, <1>2, <1>3

LEMMA BudgetStep ==
  ASSUME AgentInv, NEW r \in Requests, OutOfBudget(r) PROVE AgentInv'
<1>1. PICK t \in TurnType :
        /\ turn' = [turn EXCEPT ![r] = t] /\ t.pc = "finishing" /\ t.steps = turn[r].steps
        /\ t.left = 0 /\ t.outcome = "budget_exhausted"
  BY ClosedTurn DEF OutOfBudget, RunPhase, RunOutcome
<1>2. RowOf(t, runRows[r]) /\ LateOf(t, done[r], override) /\ EffectsOf(t, runRows[r], done[r])
  BY <1>1, PartsOf DEF OutOfBudget, RunAt, RowOf, LateOf, EffectsOf
<1>3. QED BY <1>1, <1>2, ProcessMoves DEF OutOfBudget

LEMMA DeathStep ==
  ASSUME AgentInv, NEW r \in Requests, RunDies(r) PROVE AgentInv'
<1>1. PICK t \in TurnType :
        /\ turn' = [turn EXCEPT ![r] = t] /\ t.pc = "dead" /\ t.steps = turn[r].steps
        /\ t.left = 0 /\ t.outcome = "none"
  BY ClosedTurn DEF RunDies, RunPhase, RunOutcome
<1>2. RowOf(t, runRows[r]) /\ LateOf(t, done[r], override) /\ EffectsOf(t, runRows[r], done[r])
  BY <1>1, PartsOf DEF RunDies, RowOf, LateOf, EffectsOf, TurnType, RowType, RunPhase, NoRun
<1>3. QED BY <1>1, <1>2, ProcessMoves DEF RunDies

LEMMA AskStep ==
  ASSUME AgentInv, NEW r \in Requests, NEW n \in 0..MaxCalls, Ask(r, n) PROVE AgentInv'
<1>1. turn[r] \in TurnType /\ n \in Nat
  BY AgentConstants, PartsOf
<1>2. PICK k \in Nat : k = turn[r].steps + 1
  BY <1>1 DEF TurnType
<1> DEFINE t == [turn[r] EXCEPT !.pc = "calling", !.left = n, !.steps = k, !.met = FALSE, !.blocked = FALSE]
<1>3. t \in TurnType BY <1>1 DEF TurnType, RunPhase
<1>4. turn' = [turn EXCEPT ![r] = t] BY <1>2 DEF Ask, AgentInv, AgentTypeOK
<1>5. t.pc = "calling" /\ t.left = n /\ t.steps = k /\ t.handedOff = turn[r].handedOff
  BY <1>1 DEF TurnType
<1>6. RowOf(t, runRows[r])
  BY <1>2, <1>5, PartsOf DEF Ask, RunAt, RowOf, RowType
<1>7. LateOf(t, done[r], override) /\ EffectsOf(t, runRows[r], done[r])
  BY <1>1, <1>5, PartsOf DEF Ask, RunAt, RowOf, LateOf, EffectsOf, RowType, DoneType
<1> HIDE DEF t
<1>8. QED BY <1>3, <1>4, <1>6, <1>7, ProcessMoves DEF Ask

LEMMA ReviewStep ==
  ASSUME AgentInv, NEW r \in Requests, NEW v \in {"pass", "block_to_hitl", "request"}, Review(r, v)
  PROVE  AgentInv'
<1> DEFINE t == [turn[r] EXCEPT !.pc = "gate", !.verdict = v]
<1>1. t \in TurnType BY PartsOf DEF TurnType, RunPhase
<1>2. turn' = [turn EXCEPT ![r] = t] BY DEF Review, AgentInv, AgentTypeOK
<1>3. RowOf(t, runRows[r]) /\ LateOf(t, done[r], override) /\ EffectsOf(t, runRows[r], done[r])
  BY PartsOf DEF Review, RunAt, RowOf, LateOf, EffectsOf, TurnType
<1> HIDE DEF t
<1>4. QED BY <1>1, <1>2, <1>3, ProcessMoves DEF Review

\* What a call leaves of the turn.
LEMMA ResultOfCall ==
  ASSUME AgentInv, NEW r \in Requests, NEW tool, NEW ok \in BOOLEAN, turn[r].left > 0
  PROVE  LET t == CallResult(r, tool, ok) IN
         /\ t \in TurnType
         /\ t.pc = "calling" /\ t.left = turn[r].left - 1 /\ t.steps = turn[r].steps
         /\ t.handedOff = turn[r].handedOff /\ t.blocked = turn[r].blocked
         /\ turn[r].met \/ (ok /\ tool \in MetWhen(setup.objective)) => t.met
<1>1. turn[r] \in TurnType BY PartsOf
<1>2. PICK k \in Nat : k = turn[r].left - 1 BY <1>1 DEF TurnType
<1>3. PICK b \in BOOLEAN : b = (turn[r].met \/ (ok /\ tool \in MetWhen(setup.objective))) OBVIOUS
<1> DEFINE t == [turn[r] EXCEPT !.left = k, !.pc = "calling", !.verdict = "none", !.met = b]
<1>4. t \in TurnType BY <1>1 DEF TurnType, RunPhase
<1>5. /\ t.pc = "calling" /\ t.left = k /\ t.steps = turn[r].steps
      /\ t.handedOff = turn[r].handedOff /\ t.blocked = turn[r].blocked /\ t.met = b
  BY <1>1 DEF TurnType
<1>6. CallResult(r, tool, ok) = t BY <1>2, <1>3 DEF CallResult
<1> HIDE DEF t
<1>7. QED BY <1>2, <1>3, <1>4, <1>5, <1>6

\* The decision's tool is offered where it meets the objective.
LEMMA DecidingMeets == "decide" \in ToolsOf(setup.objective) => "decide" \in MetWhen(setup.objective)
  BY DEF ToolsOf, MetWhen

LEMMA RunCallStep ==
  ASSUME AgentInv, NEW r \in Requests, CallOther(r) \/ (\E through \in BOOLEAN : CallDecide(r, through)) \/ CallHandoff(r)
  PROVE  AgentInv'
<1> USE PartsOf
<1>1. CASE CallOther(r)
  <2> DEFINE t == CallResult(r, "other", FALSE)
  <2>1. turn[r].left > 0 /\ turn[r].pc = "calling" /\ turn' = [turn EXCEPT ![r] = t]
        /\ UNCHANGED <<setup, override, runRows, done>>
    BY <1>1 DEF CallOther, RunAt
  <2>2. /\ t \in TurnType
        /\ t.pc = "calling" /\ t.left = turn[r].left - 1 /\ t.steps = turn[r].steps
        /\ t.handedOff = turn[r].handedOff /\ (turn[r].met => t.met)
    BY <2>1, ResultOfCall
  <2> HIDE DEF t
  <2>3. RowOf(t, runRows[r]) /\ EffectsOf(t, runRows[r], done[r])
    BY <2>1, <2>2 DEF RowOf, EffectsOf, RowType
  <2>4. LateOf(t, done[r], override)
    BY <2>1, <2>2, AgentConstants DEF LateOf, TurnType, DoneType
  <2>5. QED BY <2>1, <2>2, <2>3, <2>4, ProcessMoves
<1>2. ASSUME NEW through \in BOOLEAN, CallDecide(r, through) PROVE AgentInv'
  <2> DEFINE t == CallResult(r, "decide", through)
             x == IF through \/ Reported(done[r]) THEN "reported" ELSE "unreported"
             d == [done[r] EXCEPT !.decided = x]
  <2>1. turn[r].left > 0 /\ turn[r].pc = "calling" /\ turn' = [turn EXCEPT ![r] = t]
        /\ done' = [done EXCEPT ![r] = d] /\ UNCHANGED <<setup, override, runRows>>
    BY <1>2 DEF CallDecide, RunAt, Reported, AgentInv, AgentTypeOK
  <2>2. /\ t \in TurnType
        /\ t.pc = "calling" /\ t.left = turn[r].left - 1 /\ t.steps = turn[r].steps
        /\ t.handedOff = turn[r].handedOff /\ (turn[r].met \/ through => t.met)
    BY <1>2, <2>1, ResultOfCall, DecidingMeets DEF CallDecide
  <2>3. d \in DoneType /\ d.late = done[r].late /\ d.task = done[r].task
        /\ (Reported(d) => through \/ Reported(done[r]))
    BY DEF DoneType, Reported
  <2> HIDE DEF t, x, d
  <2>4. RowOf(t, runRows[r]) /\ EffectsOf(t, runRows[r], d)
    BY <2>1, <2>2, <2>3 DEF RowOf, EffectsOf, RowType
  <2>5. LateOf(t, d, override)
    BY <2>1, <2>2, <2>3, AgentConstants DEF LateOf, TurnType, DoneType
  <2>6. QED BY <2>1, <2>2, <2>3, <2>4, <2>5, RunTurnMoves
<1>3. CASE CallHandoff(r)
  <2> DEFINE c == CallResult(r, "handoff", TRUE)
             t == [c EXCEPT !.handedOff = TRUE]
             d == [done[r] EXCEPT !.task = TRUE]
  <2>1. turn[r].left > 0 /\ turn[r].pc = "calling" /\ turn' = [turn EXCEPT ![r] = t]
        /\ done' = [done EXCEPT ![r] = d] /\ UNCHANGED <<setup, override, runRows>>
    BY <1>3 DEF CallHandoff, RunAt, AgentInv, AgentTypeOK
  <2>2. /\ c \in TurnType
        /\ c.pc = "calling" /\ c.left = turn[r].left - 1 /\ c.steps = turn[r].steps
        /\ (turn[r].met => c.met)
    BY <2>1, ResultOfCall
  <2>3. d \in DoneType /\ d.late = done[r].late /\ d.decided = done[r].decided BY DEF DoneType
  <2> HIDE DEF c, d
  <2>4. /\ t \in TurnType
        /\ t.pc = "calling" /\ t.left = turn[r].left - 1 /\ t.steps = turn[r].steps
        /\ t.handedOff /\ (turn[r].met => t.met)
    BY <2>2 DEF TurnType
  <2> HIDE DEF t
  <2>5. RowOf(t, runRows[r]) /\ EffectsOf(t, runRows[r], d)
    BY <2>1, <2>3, <2>4 DEF RowOf, EffectsOf, Reported, RowType
  <2>6. LateOf(t, d, override)
    BY <2>1, <2>3, <2>4, AgentConstants DEF LateOf, TurnType, DoneType
  <2>7. QED BY <2>1, <2>3, <2>4, <2>5, <2>6, RunTurnMoves
<1>4. QED BY <1>1, <1>2, <1>3

\* The gate's answer spends the call: if it is a message that talks over an
\* advisor, it is one the turn had left.
LEMMA RunGateStep ==
  ASSUME AgentInv, NEW r \in Requests,
         NEW a \in {"BLOCKED", "PENDING_APPROVAL", "DEFERRED", "SENT", "FAILED"}, AskGate(r, a)
  PROVE  AgentInv'
<1> USE PartsOf
<1> DEFINE refused == turn[r].verdict = "block_to_hitl"
           tool == IF turn[r].verdict = "request" THEN "request" ELSE "send"
           c == CallResult(r, tool, ~refused)
           late == done[r].late + (IF a = "SENT" /\ override THEN 1 ELSE 0)
<1>1. turn[r].pc = "gate" /\ turn[r].left > 0 /\ UNCHANGED <<setup, override, runRows>>
  BY DEF AskGate, RunAt, LateOf
<1>2. /\ c \in TurnType
      /\ c.pc = "calling" /\ c.left = turn[r].left - 1 /\ c.steps = turn[r].steps
      /\ c.handedOff = turn[r].handedOff /\ (turn[r].met => c.met)
  BY <1>1, ResultOfCall
<1>3. PICK b \in BOOLEAN : b = (turn[r].blocked \/ refused) OBVIOUS
<1>4. PICK s \in BOOLEAN : s = (done[r].refusedSent \/ (a = "SENT" /\ refused)) OBVIOUS
<1>5. PICK k \in Nat : k = late BY DEF DoneType
<1> DEFINE t == [c EXCEPT !.blocked = b]
           d == [done[r] EXCEPT !.late = k, !.refusedSent = s]
<1>6. turn' = [turn EXCEPT ![r] = t] BY <1>3 DEF AskGate
<1>7. done' = [done EXCEPT ![r] = d] BY <1>4, <1>5 DEF AskGate, AgentInv, AgentTypeOK
<1>8. k = done[r].late \/ (override /\ k = done[r].late + 1)
  BY <1>5 DEF DoneType, AgentInv, AgentTypeOK
<1> HIDE DEF c, late
<1>9. d \in DoneType /\ d.late = k /\ d.decided = done[r].decided /\ d.task = done[r].task
  BY <1>5, <1>4 DEF DoneType
<1>10. /\ t \in TurnType
       /\ t.pc = "calling" /\ t.left = turn[r].left - 1 /\ t.steps = turn[r].steps
       /\ t.handedOff = turn[r].handedOff /\ (turn[r].met => t.met)
  BY <1>2, <1>3 DEF TurnType
<1> HIDE DEF t, d
<1>11. RowOf(t, runRows[r]) /\ EffectsOf(t, runRows[r], d)
  BY <1>1, <1>9, <1>10 DEF RowOf, EffectsOf, Reported, RowType
<1>12. LateOf(t, d, override)
  BY <1>1, <1>8, <1>9, <1>10, AgentConstants DEF LateOf, TurnType, DoneType
<1>13. QED BY <1>1, <1>6, <1>7, <1>9, <1>10, <1>11, <1>12, RunTurnMoves

\* The step's record, and what the turn means for the run.
LEMMA PersistInv ==
  ASSUME AgentInv, NEW r \in Requests, PersistStep(r) PROVE AgentInv'
<1> USE PartsOf
<1>1. PICK k \in Nat : k = runRows[r].steps + 1 BY DEF RowType
<1> DEFINE row == [runRows[r] EXCEPT !.steps = k]
           m == TurnMeans(turn[r])
<1>2. turn[r].pc = "calling" /\ UNCHANGED <<setup, override, done>> BY DEF PersistStep, RunAt
<1>3. runRows' = [runRows EXCEPT ![r] = row] BY <1>1 DEF PersistStep, AgentInv, AgentTypeOK
<1>4. row \in RowType /\ row.status = runRows[r].status /\ row.outcome = runRows[r].outcome
      /\ row.steps = k
  BY DEF RowType
<1>5. done' = [done EXCEPT ![r] = done[r]] BY <1>2 DEF AgentInv, AgentTypeOK
<1> HIDE DEF row
<1>6. CASE m = "none"
  <2> DEFINE t == [turn[r] EXCEPT !.pc = "looking"]
  <2>1. RunGoes(r, "looking") BY <1>6 DEF PersistStep
  <2>2. t \in TurnType /\ turn' = [turn EXCEPT ![r] = t] BY <2>1, Goes DEF RunPhase
  <2>3. t.pc = "looking" /\ t.steps = turn[r].steps /\ t.left = turn[r].left BY DEF TurnType
  <2>4. ~turn[r].handedOff /\ ~turn[r].met BY <1>6 DEF TurnMeans
  <2> HIDE DEF t
  <2>5. RowOf(t, row) BY <1>1, <1>2, <1>4, <2>3 DEF RowOf
  <2>6. LateOf(t, done[r], override) BY <1>2, <2>3 DEF LateOf
  <2>7. EffectsOf(t, row, done[r]) BY <1>2, <1>4, <2>3, <2>4 DEF EffectsOf, RowOf
  <2>8. QED BY <1>2, <1>3, <1>4, <1>5, <2>2, <2>5, <2>6, <2>7, OpenedMoves DEF RowOf
<1>7. CASE m # "none"
  <2>1. m \in RunOutcome BY DEF TurnMeans, RunOutcome
  <2>2. Closes(r, "finishing", m) BY <1>7 DEF PersistStep
  <2>3. PICK t \in TurnType :
          /\ turn' = [turn EXCEPT ![r] = t] /\ t.pc = "finishing" /\ t.steps = turn[r].steps
          /\ t.left = 0 /\ t.outcome = m
    BY <2>1, <2>2, ClosedTurn DEF RunPhase
  <2>4. /\ turn[r].handedOff => m = "handoff"
        /\ turn[r].met => m \notin {"blocked", "budget_exhausted"}
        /\ m = "handoff" => m \notin {"blocked", "budget_exhausted"}
    BY DEF TurnMeans
  <2> HIDE DEF m
  <2>5. RowOf(t, row) BY <1>1, <1>2, <1>4, <2>3 DEF RowOf
  <2>6. LateOf(t, done[r], override) BY <1>2, <2>3, AgentConstants DEF LateOf
  <2>7. EffectsOf(t, row, done[r]) BY <1>2, <1>4, <2>3, <2>4 DEF EffectsOf, RowOf
  <2>8. QED BY <1>2, <1>3, <1>4, <1>5, <2>3, <2>5, <2>6, <2>7, OpenedMoves DEF RowOf
<1>8. QED BY <1>6, <1>7

LEMMA EndingStep ==
  ASSUME AgentInv, NEW r \in Requests, Finish(r) \/ Abort(r) PROVE AgentInv'
<1> USE PartsOf
<1>1. CASE Finish(r)
  <2> DEFINE row == [runRows[r] EXCEPT !.status = "FINISHED", !.outcome = turn[r].outcome]
  <2>1. PICK t \in TurnType :
          /\ turn' = [turn EXCEPT ![r] = t] /\ t.pc = "ended" /\ t.steps = turn[r].steps
          /\ t.left = 0 /\ t.outcome = "none"
    BY <1>1, ClosedTurn DEF Finish, RunPhase, RunOutcome
  <2>2. /\ row \in RowType /\ runRows' = [runRows EXCEPT ![r] = row]
        /\ row.status = "FINISHED" /\ row.outcome = turn[r].outcome /\ row.steps = runRows[r].steps
    BY <1>1 DEF Finish, RowType, TurnType, AgentInv, AgentTypeOK
  <2>3. turn[r].pc = "finishing" /\ UNCHANGED <<setup, override, done>>
        /\ done' = [done EXCEPT ![r] = done[r]]
    BY <1>1 DEF Finish, RunAt, AgentInv, AgentTypeOK
  <2> HIDE DEF row
  <2>4. RowOf(t, row) /\ LateOf(t, done[r], override) /\ EffectsOf(t, row, done[r])
    BY <2>1, <2>2, <2>3, AgentConstants DEF RowOf, LateOf, EffectsOf
  <2>5. QED BY <2>1, <2>2, <2>3, <2>4, OpenedMoves DEF RowOf
<1>2. CASE Abort(r)
  <2> DEFINE row == [runRows[r] EXCEPT !.status = "ABORTED"]
             t == [turn[r] EXCEPT !.pc = "ended"]
  <2>1. t \in TurnType /\ turn' = [turn EXCEPT ![r] = t] BY <1>2, Goes DEF Abort, RunPhase
  <2>2. t.pc = "ended" /\ t.steps = turn[r].steps /\ t.left = turn[r].left BY DEF TurnType
  <2>3. /\ row \in RowType /\ runRows' = [runRows EXCEPT ![r] = row]
        /\ row.status = "ABORTED" /\ row.outcome = runRows[r].outcome /\ row.steps = runRows[r].steps
    BY <1>2 DEF Abort, RowType, AgentInv, AgentTypeOK
  <2>4. turn[r].pc = "aborting" /\ UNCHANGED <<setup, override, done>>
        /\ done' = [done EXCEPT ![r] = done[r]]
    BY <1>2 DEF Abort, RunAt, AgentInv, AgentTypeOK
  <2> HIDE DEF row, t
  <2>5. RowOf(t, row) /\ LateOf(t, done[r], override) /\ EffectsOf(t, row, done[r])
    BY <2>1, <2>2, <2>3, <2>4 DEF RowOf, LateOf, EffectsOf
  <2>6. QED BY <2>1, <2>3, <2>4, <2>5, OpenedMoves DEF RowOf
<1>3. QED BY <1>1, <1>2

LEMMA OverrideStep == ASSUME AgentInv, AdvisorTakesOver PROVE AgentInv'
<1>1. AgentTypeOK' BY DEF AdvisorTakesOver, AgentInv, AgentTypeOK
<1>2. OneRunPerMessage' BY SameRows DEF AdvisorTakesOver
<1>3. \A r \in Requests : RunInv(r)' BY DEF AdvisorTakesOver, AgentInv, RunInv, LateOf
<1>4. QED BY <1>1, <1>2, <1>3 DEF AgentInv

LEMMA AgentStepInv == ASSUME AgentInv, [AgentNext]_agentVars PROVE AgentInv'
<1>1. CASE AdvisorTakesOver BY <1>1, OverrideStep
<1>2. CASE \E r \in Requests : RunStep(r) \/ RunDies(r)
  BY <1>2, OpeningStep, LookStep, BudgetStep, DeathStep, AskStep, ReviewStep, RunCallStep, RunGateStep,
     PersistInv, EndingStep
  DEF RunStep
<1>3. CASE UNCHANGED agentVars
  BY <1>3 DEF agentVars, AgentInv, AgentTypeOK, RunInv, OneRunPerMessage, SameTrigger
<1>4. QED BY <1>1, <1>2, <1>3 DEF AgentNext

\* A message is answered by one run; an advisor who takes the wheel is talked over
\* for the rest of one turn at most; a run that says it gave up was told of no
\* decision and handed off nothing, though a decision whose call failed after its
\* commit may be on record; and the record is behind by one turn at most.
THEOREM RunsAlwaysSound == AgentSpec => []RunsAreSound
<1>1. ASSUME AgentInv PROVE RunsAreSound
  <2>1. TalksOverForOneTurn BY <1>1 DEF AgentInv, RunInv, LateOf, TalksOverForOneTurn
  <2>2. OutcomeOwnsItsEffects
    BY <1>1, PartsOf DEF EffectsOf, Reported, RowOf, OutcomeOwnsItsEffects
  <2>3. StepsAreRecorded
    <3>1. ASSUME NEW r \in Requests
          PROVE  /\ turn[r].steps \in {runRows[r].steps, runRows[r].steps + 1}
                 /\ runRows[r].status \in {"FINISHED", "ABORTED"} => turn[r].steps = runRows[r].steps
      BY <1>1, PartsOf DEF RowOf, TurnType, RunPhase, NoRun
    <3>2. QED BY <3>1 DEF StepsAreRecorded
  <2>4. QED BY <1>1, <2>1, <2>2, <2>3 DEF RunsAreSound, AgentInv
<1>2. QED BY <1>1, AgentInitInv, AgentStepInv, PTL DEF AgentSpec
-----------------------------------------------------------------------------
(* The messages behind the gate. *)

\* A call becomes another.
Turns(p, c) == call' = [call EXCEPT ![p] = c]

\* A call in one of these phases is at work on the message it read.
Working == {"approved", "sending", "accepted", "refused"}
OnRow(p, m) == call[p].msg = m /\ call[p].phase \in Working

CallsIn(Q) == {p \in Procs : call[p] \in Q}
CallsOf(Q) == Cardinality(CallsIn(Q))
CallType == [msg : Messages, phase : CallPhase] \cup {NoCall}
\* What the customer has refused and is on its way; what the day's count is yet to show.
Unwanted == [msg : Messages \ (Marketing \cup Acks), phase : {"sending"}]
InFlightCalls == [msg : Capped, phase : {"sending", "accepted", "refused"}]

\* Whoever is at work on a draft has an advisor's word for it.
DraftRows ==
  \A m \in Drafts \cap Messages :
    /\ received[m] > 0 \/ msg[m] = "QUEUED" => review[m] = "approved"
    /\ msg[m] = "QUEUED" => hold[m] # "no"
DraftCalls ==
  \A p \in Procs : \A m \in Drafts \cap Messages : m \in claimed[p] \/ OnRow(p, m) => review[m] = "approved"
PendingRows ==
  \A m \in Messages : /\ msg[m] = "PENDING_APPROVAL" => m \in Drafts
                      /\ msg[m] = "none" => review[m] = "none"
ReadCalls ==
  \A p \in Procs : call[p].phase \in {"read", "approved"} =>
    call[p].msg \in Drafts \cap Messages /\ msg[call[p].msg] # "none"
DraftsApproved == DraftRows /\ DraftCalls /\ PendingRows /\ ReadCalls

\* While the customer's no stands, calls only leave the channel.
NoStands == consent["SERVICE"] = "REVOKED" => after + CallsOf(Unwanted) <= Cardinality(Procs)

\* The last call the cap let in was one below it.
CapCounted == Cardinality(recent \cap Capped) + CallsOf(InFlightCalls) < DailyCap + Cardinality(Procs)

\* A decided row is somebody's until it says so itself.
InHands ==
  \A m \in Messages :
    \/ msg[m] = "QUEUED" /\ hold[m] = "no"
    \/ msg[m] = "PENDING_APPROVAL" /\ review[m] # "none" /\ m \notin Lost
    => gateFaults > 0 \/ \E p \in Procs : OnRow(p, m)

GateInv == TypeOK /\ DraftsApproved /\ NoStands /\ CapCounted /\ InHands

Unsettled == {"none", "QUEUED", "PENDING_APPROVAL"}
AnsweredCall(p, m) == call[p].msg = m /\ call[p].phase \in {"accepted", "refused"}
\* The message may yet be delivered.
MayLeave(m) == msg[m] \in Unsettled /\ \A p \in Procs : ~AnsweredCall(p, m)

\* With one drain a row is one call's, and no drain's batch holds it as well.
OneDrain == \A d, e \in Drainers : d = e
OneCall == \A p, q \in Procs : \A m \in Messages : OnRow(p, m) /\ OnRow(q, m) => p = q
\* What the row of a call at work on it says.
CallRow(p, m) ==
  /\ msg[m] \in {"QUEUED", "PENDING_APPROVAL"}
  /\ msg[m] = "PENDING_APPROVAL" => review[m] = "approved"
  /\ msg[m] = "QUEUED" => hold[m] # "later"
  /\ msg[m] = "QUEUED" /\ hold[m] = "due" => p \in Drainers
  /\ \A q \in Procs : m \notin claimed[q]
CallRows == \A p \in Procs : \A m \in Messages : OnRow(p, m) => CallRow(p, m)
BatchRow(p, m) == p \in Drainers /\ msg[m] = "QUEUED" /\ hold[m] = "due"
BatchRows == \A p \in Procs : \A m \in claimed[p] : BatchRow(p, m)
ReadRow(m) == msg[m] = "PENDING_APPROVAL" \/ review[m] # "none"
ReadRows ==
  \A p \in Procs : /\ call[p].phase = "read" => ReadRow(call[p].msg)
                   /\ call[p].phase = "approved" => msg[call[p].msg] = "PENDING_APPROVAL"
NamedRows == \A m \in Messages : msg[m] \in Unsettled => m \notin channelNamed

\* What has been delivered was not to be delivered again, but for the faults.
Delivery(m) == received[m] <= 1 + gateFaults /\ (MayLeave(m) => received[m] <= gateFaults)
DeliveriesCounted == \A m \in Messages : Delivery(m)

OnceInv == OneCall /\ CallRows /\ BatchRows /\ ReadRows /\ NamedRows /\ DeliveriesCounted

LEMMA CallCounts ==
  ASSUME NEW Q
  PROVE  /\ IsFiniteSet(CallsIn(Q)) /\ CallsOf(Q) \in Nat /\ Cardinality(Procs) \in Nat
         /\ CallsOf(Q) <= Cardinality(Procs)
<1>1. CallsIn(Q) \subseteq Procs
  BY DEF CallsIn
<1> QED BY <1>1, GateConstants, FS_Subset, FS_CardinalityType DEF CallsOf

LEMMA CallMoves ==
  ASSUME call \in [Procs -> CallType], NEW p \in Procs, NEW c \in CallType, Turns(p, c), NEW Q
  PROVE  /\ CallsOf(Q)' \in Nat /\ CallsOf(Q) \in Nat
         /\ (call[p] \in Q <=> c \in Q) => CallsOf(Q)' = CallsOf(Q)
         /\ call[p] \in Q /\ c \notin Q => CallsOf(Q)' = CallsOf(Q) - 1
         /\ call[p] \notin Q /\ c \in Q => CallsOf(Q)' = CallsOf(Q) + 1
<1>1. IsFiniteSet(CallsIn(Q)) /\ CallsOf(Q) \in Nat
  BY CallCounts
<1>2. CallsIn(Q)' = IF c \in Q THEN CallsIn(Q) \cup {p} ELSE CallsIn(Q) \ {p}
  BY DEF CallsIn, Turns
<1>3. p \in CallsIn(Q) <=> call[p] \in Q
  BY DEF CallsIn
<1>4. CallsOf(Q)' = Cardinality(CallsIn(Q)')
  BY DEF CallsOf
<1>5. CASE c \in Q
  <2>1. Cardinality(CallsIn(Q) \cup {p}) = IF p \in CallsIn(Q) THEN CallsOf(Q) ELSE CallsOf(Q) + 1
    BY <1>1, FS_AddElement DEF CallsOf
  <2> QED BY <1>1, <1>2, <1>3, <1>4, <1>5, <2>1
<1>6. CASE c \notin Q
  <2>1. Cardinality(CallsIn(Q) \ {p}) = IF p \in CallsIn(Q) THEN CallsOf(Q) - 1 ELSE CallsOf(Q)
    BY <1>1, FS_RemoveElement DEF CallsOf
  <2>2. p \in CallsIn(Q) => CallsOf(Q) # 0
    BY <1>1, FS_EmptySet DEF CallsOf
  <2> QED BY <1>1, <1>2, <1>3, <1>4, <1>6, <2>1, <2>2
<1> QED BY <1>5, <1>6

LEMMA CallClasses ==
  ASSUME NEW c \in CallType
  PROVE  /\ c \in Unwanted <=> c.phase = "sending" /\ c.msg \notin Marketing \cup Acks
         /\ c \in InFlightCalls <=> c.phase \in {"sending", "accepted", "refused"} /\ c.msg \in Capped
         /\ c.phase # "idle" => c.msg \in Messages
         /\ c.phase = "idle" => c = NoCall
BY DEF CallType, CallPhase, NoCall, Unwanted, InFlightCalls, Capped

LEMMA CallKinds ==
  /\ NoCall \in CallType /\ NoCall.phase = "idle"
  /\ \A m \in Messages : \A x \in CallPhase :
       At(m, x) \in CallType /\ At(m, x).msg = m /\ At(m, x).phase = x
BY DEF CallType, NoCall, At

\* What a call's turn does to the counts.
LEMMA TurnMoves ==
  ASSUME TypeOK, NEW p \in Procs, NEW c \in CallType, Turns(p, c)
  PROVE  /\ call \in [Procs -> CallType] /\ call' \in [Procs -> CallType]
         /\ \A q \in Procs : \A m : OnRow(q, m)' <=> IF q = p THEN c.msg = m /\ c.phase \in Working ELSE OnRow(q, m)
         /\ \A q \in Procs : call'[q] = IF q = p THEN c ELSE call[q]
<1>1. call \in [Procs -> CallType]
  BY DEF TypeOK, CallType
<1> QED BY <1>1 DEF Turns, OnRow

LEMMA CountsKept ==
  ASSUME UNCHANGED call
  PROVE  /\ CallsOf(Unwanted)' = CallsOf(Unwanted) /\ CallsOf(InFlightCalls)' = CallsOf(InFlightCalls)
         /\ \A q \in Procs : \A m : OnRow(q, m)' <=> OnRow(q, m)
BY DEF CallsOf, CallsIn, OnRow

\* A phase of its own.
LEMMA PhaseTurns ==
  ASSUME TypeOK, NEW p \in Procs, call[p].phase # "idle", NEW x \in CallPhase,
         call' = [call EXCEPT ![p].phase = x]
  PROVE  Turns(p, At(call[p].msg, x)) /\ call[p].msg \in Messages
<1>1. call[p] \in [msg : Messages, phase : CallPhase]
  BY DEF TypeOK, NoCall
<1>2. [call[p] EXCEPT !.phase = x] = At(call[p].msg, x)
  BY <1>1 DEF At
<1> QED BY <1>1, <1>2 DEF TypeOK, Turns

\* A call that leaves the channel's books, or stays in them, keeps both counts.
LEMMA CountsFall ==
  ASSUME TypeOK, NoStands, CapCounted, NEW p \in Procs, NEW c \in CallType, Turns(p, c),
         c \in Unwanted => call[p] \in Unwanted, c \in InFlightCalls => call[p] \in InFlightCalls,
         UNCHANGED <<consent, after, recent>>
  PROVE  NoStands' /\ CapCounted'
<1> DEFINE a == CallsOf(Unwanted)  a1 == CallsOf(Unwanted)'
           b == CallsOf(InFlightCalls)  b1 == CallsOf(InFlightCalls)'
<1>1. call \in [Procs -> CallType]
  BY DEF TypeOK, CallType
<1>2. a1 \in Nat /\ a \in Nat /\ a1 \in {a, a - 1}
  BY <1>1, CallMoves
<1>3. b1 \in Nat /\ b \in Nat /\ b1 \in {b, b - 1}
  BY <1>1, CallMoves
<1>4. IsFiniteSet(recent \cap Capped) /\ Cardinality(recent \cap Capped) \in Nat
  <2>1. recent \cap Capped \subseteq Messages
    BY DEF TypeOK
  <2> QED BY <2>1, GateConstants, FS_Subset, FS_CardinalityType
<1>5. Cardinality(Procs) \in Nat /\ DailyCap \in Nat /\ after \in Nat
  BY GateConstants, FS_CardinalityType DEF TypeOK
<1>6. consent["SERVICE"] = "REVOKED" => after + a <= Cardinality(Procs)
  BY DEF NoStands
<1>7. Cardinality(recent \cap Capped) + b < DailyCap + Cardinality(Procs)
  BY DEF CapCounted
<1> HIDE DEF a, a1, b, b1
<1>8. consent["SERVICE"] = "REVOKED" => after + a1 <= Cardinality(Procs)
  BY <1>2, <1>5, <1>6
<1>9. Cardinality(recent \cap Capped) + b1 < DailyCap + Cardinality(Procs)
  BY <1>3, <1>4, <1>5, <1>7
<1> QED BY <1>8, <1>9 DEF a1, b1, NoStands, CapCounted

\* A call enters the channel only if the gate let its message through.
LEMMA CountsEnter ==
  ASSUME TypeOK, NoStands, CapCounted, NEW p \in Procs, NEW m \in Messages, Turns(p, At(m, "sending")),
         NEW fresh \in BOOLEAN, ~Refuses(m, fresh),
         UNCHANGED <<consent, after, recent>>
  PROVE  NoStands' /\ CapCounted'
<1> DEFINE c == At(m, "sending")
<1>0. call \in [Procs -> CallType]
  BY DEF TypeOK, CallType
<1>1. c \in CallType /\ c.msg = m /\ c.phase = "sending"
  BY CallKinds DEF CallPhase
<1>2. consent["SERVICE"] = "REVOKED" => c \notin Unwanted
  BY <1>1, CallClasses DEF Refuses, ConsentRefuses, Purpose
<1>3. c \in InFlightCalls => ~(Cardinality(recent) >= DailyCap)
  BY <1>1, CallClasses DEF Refuses, CapRefuses, Capped
<1> HIDE DEF c
<1>4. NoStands'
  <2> DEFINE a == CallsOf(Unwanted)  a1 == CallsOf(Unwanted)'
  <2>1. c \notin Unwanted => a1 \in Nat /\ a \in Nat /\ a1 \in {a, a - 1}
    BY <1>0, <1>1, CallMoves DEF c
  <2>2. consent["SERVICE"] = "REVOKED" => after + a <= Cardinality(Procs)
    BY DEF NoStands
  <2>3. Cardinality(Procs) \in Nat /\ after \in Nat
    BY GateConstants, FS_CardinalityType DEF TypeOK
  <2> HIDE DEF a, a1
  <2>4. consent["SERVICE"] = "REVOKED" => after + a1 <= Cardinality(Procs)
    BY <1>2, <2>1, <2>2, <2>3
  <2> QED BY <2>4 DEF a1, NoStands
<1>5. CapCounted'
  <2> DEFINE b == CallsOf(InFlightCalls)  b1 == CallsOf(InFlightCalls)'
             k == Cardinality(recent \cap Capped)  n == Cardinality(Procs)
  <2>1. b1 \in Nat /\ b1 <= n
    <3>1. CallsIn(InFlightCalls)' \subseteq Procs /\ IsFiniteSet(Procs)
      BY GateConstants DEF CallsIn
    <3>2. b1 = Cardinality(CallsIn(InFlightCalls)')
      BY DEF CallsOf
    <3> QED BY <3>1, <3>2, FS_Subset, FS_CardinalityType
  <2>2. b \in Nat /\ (c \notin InFlightCalls => b1 \in {b, b - 1})
    BY <1>0, <1>1, CallMoves DEF c
  <2>3. k \in Nat /\ k <= Cardinality(recent) /\ Cardinality(recent) \in Nat
    <3>1. recent \subseteq Messages /\ IsFiniteSet(Messages)
      BY GateConstants DEF TypeOK
    <3>2. IsFiniteSet(recent)
      BY <3>1, FS_Subset
    <3> QED BY <3>2, FS_Subset, FS_CardinalityType
  <2>4. n \in Nat /\ DailyCap \in Nat
    BY GateConstants, FS_CardinalityType
  <2>5. k + b < DailyCap + n
    BY DEF CapCounted
  <2> HIDE DEF b, b1, k, n
  <2>6. k + b1 < DailyCap + n
    BY <1>3, <2>1, <2>2, <2>3, <2>4, <2>5
  <2> QED BY <2>6 DEF b1, k, n, CapCounted
<1> QED BY <1>4, <1>5

LEMMA GateInit == Init => GateInv
<1> SUFFICES ASSUME Init PROVE GateInv
  OBVIOUS
<1>1. TypeOK
  BY GateConstants DEF Init, TypeOK, Status, NoCall
<1>2. \A p \in Procs : call[p].phase = "idle"
  BY DEF Init, NoCall
<1>3. DraftsApproved /\ InHands
  BY <1>2 DEF Init, DraftsApproved, DraftRows, DraftCalls, PendingRows, ReadCalls, InHands, OnRow, Working
<1>4. NoStands
  BY DEF Init, NoStands
<1>5. CapCounted
  <2>1. CallsIn(InFlightCalls) = {} /\ recent \cap Capped = {}
    BY <1>2 DEF Init, CallsIn, InFlightCalls
  <2>2. CallsOf(InFlightCalls) = 0 /\ Cardinality(recent \cap Capped) = 0
    BY <2>1, FS_EmptySet DEF CallsOf
  <2>3. Cardinality(Procs) \in Nat /\ DailyCap \in Nat \ {0}
    BY GateConstants, FS_CardinalityType
  <2> QED BY <2>2, <2>3 DEF CapCounted
<1> QED BY <1>1, <1>3, <1>4, <1>5 DEF GateInv

\* The three ends of a release's decision.
LEMMA ReleaseKinds ==
  ASSUME NEW p \in Procs, NEW m \in Messages, ReleaseFrom(p, m)
  PROVE  \/ /\ msg' = [msg EXCEPT ![m] = "FAILED"] /\ UNCHANGED hold /\ Turns(p, NoCall)
         \/ /\ msg' = [msg EXCEPT ![m] = "QUEUED"] /\ hold' = [hold EXCEPT ![m] = "later"]
            /\ Turns(p, NoCall)
         \/ ~Refuses(m, FALSE) /\ UNCHANGED <<msg, hold>> /\ Turns(p, At(m, "sending"))
BY DEF ReleaseFrom, Turns

\* A release keeps the gate's word, whoever makes it.
LEMMA ReleaseGate ==
  ASSUME GateInv, NEW p \in Procs, NEW m \in Messages,
         ReleaseFrom(p, m), m \in Drafts => review[m] = "approved",
         call[p] = NoCall \/ (call[p].phase = "approved" /\ call[p].msg = m),
         claimed' \in [Procs -> SUBSET Messages], \A q \in Procs : claimed'[q] \subseteq claimed[q],
         UNCHANGED <<channelNamed, recent, review, consent, window, quiet, nights, received, after, gateFaults>>
  PROVE  GateInv'
<1>0. TypeOK /\ DraftsApproved /\ NoStands /\ CapCounted /\ InHands
  BY DEF GateInv
<1>1. PICK x \in {"FAILED", "QUEUED", "kept"} :
        /\ msg' = [msg EXCEPT ![m] = IF x = "kept" THEN msg[m] ELSE x]
        /\ hold' = [hold EXCEPT ![m] = IF x = "QUEUED" THEN "later" ELSE hold[m]]
        /\ IF x = "kept" THEN Turns(p, At(m, "sending")) /\ ~Refuses(m, FALSE) ELSE Turns(p, NoCall)
  <2>1. msg = [msg EXCEPT ![m] = msg[m]] /\ hold = [hold EXCEPT ![m] = hold[m]]
    BY <1>0 DEF TypeOK
  <2> QED BY <2>1, ReleaseKinds
<1> DEFINE c == IF x = "kept" THEN At(m, "sending") ELSE NoCall
<1>2. /\ Turns(p, c) /\ c \in CallType
      /\ x = "kept" => c.msg = m /\ c.phase = "sending"
      /\ x # "kept" => c.phase = "idle"
  <2>1. At(m, "sending") \in CallType /\ At(m, "sending").msg = m /\ At(m, "sending").phase = "sending"
    <3>1. "sending" \in CallPhase BY DEF CallPhase
    <3> QED BY <3>1, CallKinds
  <2>2. NoCall \in CallType /\ NoCall.phase = "idle" BY CallKinds
  <2>3. CASE x = "kept" BY <2>1, <2>3, <1>1
  <2>4. CASE x # "kept" BY <2>2, <2>4, <1>1
  <2> QED BY <2>3, <2>4
<1> HIDE DEF c
<1>3. /\ call \in [Procs -> CallType] /\ call' \in [Procs -> CallType]
      /\ \A q \in Procs : \A k : OnRow(q, k)' <=> IF q = p THEN c.msg = k /\ c.phase \in Working ELSE OnRow(q, k)
      /\ \A q \in Procs : call'[q] = IF q = p THEN c ELSE call[q]
  BY <1>0, <1>2, TurnMoves
<1>4. \A k \in Messages : /\ msg'[k] = IF k = m /\ x # "kept" THEN x ELSE msg[k]
                          /\ hold'[k] = IF k = m /\ x = "QUEUED" THEN "later" ELSE hold[k]
  BY <1>0, <1>1 DEF TypeOK
<1>5. TypeOK'
  <2>1. msg' \in [Messages -> Status] /\ hold' \in [Messages -> {"no", "later", "due"}]
    BY <1>0, <1>1 DEF TypeOK, Status
  <2> QED BY <1>0, <1>3, <2>1 DEF TypeOK, CallType
<1>6. DraftsApproved'
  <2>1. DraftRows'
    BY <1>0, <1>4 DEF DraftsApproved, DraftRows
  <2>2. PendingRows'
    BY <1>0, <1>4 DEF DraftsApproved, PendingRows
  <2>3. DraftCalls'
    BY <1>0, <1>2, <1>3 DEF DraftsApproved, DraftCalls, Working
  <2>4. ReadCalls'
    BY <1>0, <1>1, <1>4, <1>2, <1>3 DEF DraftsApproved, ReadCalls
  <2> QED BY <2>1, <2>2, <2>3, <2>4 DEF DraftsApproved
<1>7. NoStands' /\ CapCounted'
  <2>1. CASE x = "kept"
    <3>1. Turns(p, At(m, "sending")) /\ ~Refuses(m, FALSE)
      BY <1>1, <2>1
    <3> QED BY <1>0, <3>1, CountsEnter
  <2>2. CASE x # "kept"
    <3>1. c \notin Unwanted /\ c \notin InFlightCalls
      BY <1>2, <2>2, CallClasses
    <3> QED BY <1>0, <1>2, <3>1, CountsFall
  <2> QED BY <2>1, <2>2
<1>8. ASSUME NEW k \in Messages,
             \/ msg'[k] = "QUEUED" /\ hold'[k] = "no"
             \/ msg'[k] = "PENDING_APPROVAL" /\ review'[k] # "none" /\ k \notin Lost
      PROVE  gateFaults' > 0 \/ \E q \in Procs : OnRow(q, k)'
  <2>1. CASE k = m
    <3>1. x = "kept"
      BY <1>4, <1>8, <2>1
    <3>2. OnRow(p, k)'
      BY <1>2, <1>3, <2>1, <3>1 DEF Working
    <3> QED BY <3>2
  <2>2. CASE k # m
    <3>1. gateFaults > 0 \/ \E q \in Procs : OnRow(q, k)
      BY <1>0, <1>4, <1>8, <2>2 DEF InHands
    <3>2. ~OnRow(p, k)
      BY <2>2 DEF OnRow, Working, NoCall
    <3> QED BY <1>3, <3>1, <3>2
  <2> QED BY <2>1, <2>2
<1>9. InHands'
  BY <1>8 DEF InHands
<1> QED BY <1>5, <1>6, <1>7, <1>9 DEF GateInv

\* A fresh message: decided and written in one transaction.
LEMMA SendGate == ASSUME GateInv, NEW p \in Procs, NEW m \in Messages, Send(p, m) PROVE GateInv'
<1>0. TypeOK /\ DraftsApproved /\ NoStands /\ CapCounted /\ InHands
  BY DEF GateInv
<1>1. PICK x \in {"BLOCKED", "PENDING_APPROVAL", "QUEUED"}, h \in {"later", "no"}, d \in BOOLEAN :
        /\ msg' = [msg EXCEPT ![m] = x] /\ hold' = [hold EXCEPT ![m] = h]
        /\ IF d THEN Turns(p, At(m, "sending")) /\ ~Refuses(m, TRUE) ELSE Turns(p, NoCall)
        /\ x = "PENDING_APPROVAL" <=> (m \in Drafts /\ x # "BLOCKED")
        /\ d <=> (x = "QUEUED" /\ h = "no")
        /\ call[p] = NoCall /\ msg[m] = "none"
        /\ UNCHANGED <<channelNamed, recent, review, claimed, consent, window, quiet, nights, received, after, gateFaults>>
  <2>1. CASE Refuses(m, TRUE)
    <3>1. Decide(m) = "block"
      BY <2>1 DEF Decide
    <3> QED BY <2>1, <3>1 DEF Send, Turns, Idle, customerVars
  <2>2. CASE ~Refuses(m, TRUE) /\ m \in Drafts
    <3>1. Decide(m) = "hitl"
      BY <2>2 DEF Decide
    <3> QED BY <2>2, <3>1 DEF Send, Turns, Idle, customerVars
  <2>3. CASE ~Refuses(m, TRUE) /\ m \notin Drafts /\ Defers(m, TRUE)
    <3>1. Decide(m) = "defer"
      BY <2>3 DEF Decide
    <3> QED BY <2>3, <3>1 DEF Send, Turns, Idle, customerVars
  <2>4. CASE ~Refuses(m, TRUE) /\ m \notin Drafts /\ ~Defers(m, TRUE)
    <3>1. Decide(m) = "send"
      BY <2>4 DEF Decide
    <3> QED BY <2>4, <3>1 DEF Send, Turns, Idle, customerVars
  <2> QED BY <2>1, <2>2, <2>3, <2>4
<1> DEFINE c == IF d THEN At(m, "sending") ELSE NoCall
<1>2. /\ Turns(p, c) /\ c \in CallType
      /\ d => c.msg = m /\ c.phase = "sending"
      /\ ~d => c.phase = "idle"
  BY <1>1, CallKinds DEF CallPhase
<1> HIDE DEF c
<1>3. /\ call \in [Procs -> CallType] /\ call' \in [Procs -> CallType]
      /\ \A q \in Procs : \A k : OnRow(q, k)' <=> IF q = p THEN c.msg = k /\ c.phase \in Working ELSE OnRow(q, k)
      /\ \A q \in Procs : call'[q] = IF q = p THEN c ELSE call[q]
  BY <1>0, <1>2, TurnMoves
<1>4. \A k \in Messages : /\ msg'[k] = IF k = m THEN x ELSE msg[k]
                          /\ hold'[k] = IF k = m THEN h ELSE hold[k]
  BY <1>0, <1>1 DEF TypeOK
<1>5. TypeOK'
  <2>1. msg' \in [Messages -> Status] /\ hold' \in [Messages -> {"no", "later", "due"}]
    BY <1>0, <1>1 DEF TypeOK, Status
  <2> QED BY <1>0, <1>1, <1>3, <2>1 DEF TypeOK, CallType
<1>6. DraftsApproved'
  <2>1. DraftRows'
    BY <1>0, <1>1, <1>4 DEF DraftsApproved, DraftRows
  <2>2. PendingRows'
    BY <1>0, <1>1, <1>4 DEF DraftsApproved, PendingRows
  <2>3. DraftCalls'
    BY <1>0, <1>1, <1>2, <1>3 DEF DraftsApproved, DraftCalls, Working
  <2>4. ReadCalls'
    BY <1>0, <1>1, <1>4, <1>2, <1>3 DEF DraftsApproved, ReadCalls
  <2> QED BY <2>1, <2>2, <2>3, <2>4 DEF DraftsApproved
<1>7. NoStands' /\ CapCounted'
  <2>1. CASE d
    <3>1. Turns(p, At(m, "sending")) /\ ~Refuses(m, TRUE)
      BY <1>1, <2>1
    <3> QED BY <1>0, <1>1, <3>1, CountsEnter
  <2>2. CASE ~d
    <3>1. c \notin Unwanted /\ c \notin InFlightCalls
      BY <1>2, <2>2, CallClasses
    <3> QED BY <1>0, <1>1, <1>2, <3>1, CountsFall
  <2> QED BY <2>1, <2>2
<1>8. ASSUME NEW k \in Messages,
             \/ msg'[k] = "QUEUED" /\ hold'[k] = "no"
             \/ msg'[k] = "PENDING_APPROVAL" /\ review'[k] # "none" /\ k \notin Lost
      PROVE  gateFaults' > 0 \/ \E q \in Procs : OnRow(q, k)'
  <2>1. CASE k = m /\ d
    <3>2. OnRow(p, k)'
      BY <1>2, <1>3, <2>1 DEF Working
    <3> QED BY <3>2
  <2>2. CASE k = m /\ ~d
    <3>1. msg'[k] = "PENDING_APPROVAL" /\ review[k] # "none"
      BY <1>1, <1>4, <1>8, <2>2
    <3> QED BY <1>0, <1>1, <2>2, <3>1 DEF DraftsApproved, PendingRows
  <2>3. CASE k # m
    <3>1. gateFaults > 0 \/ \E q \in Procs : OnRow(q, k)
      BY <1>0, <1>1, <1>4, <1>8, <2>3 DEF InHands
    <3>2. ~OnRow(p, k)
      BY <1>1 DEF OnRow, Working, NoCall
    <3> QED BY <1>1, <1>3, <3>1, <3>2
  <2> QED BY <2>1, <2>2, <2>3
<1>9. InHands'
  BY <1>8 DEF InHands
<1> QED BY <1>5, <1>6, <1>7, <1>9 DEF GateInv

\* A call's turn that concerns one row, its own.
LEMMA TurnGate ==
  ASSUME GateInv, NEW p \in Procs, NEW c \in CallType, Turns(p, c), NEW m \in Messages,
         TypeOK', NoStands', CapCounted',
         \A k \in Messages \ {m} : /\ msg'[k] = msg[k] /\ review'[k] = review[k]
                                   /\ received'[k] = received[k],
         UNCHANGED hold, \A q \in Procs : claimed'[q] \subseteq claimed[q],
         gateFaults' = gateFaults \/ gateFaults' > 0,
         call[p].phase \in Working => call[p].msg = m,
         c.phase \in Working => c.msg = m /\ (m \in Drafts => review'[m] = "approved"),
         c.phase \in {"read", "approved"} => c.msg = m /\ m \in Drafts /\ msg'[m] # "none",
         review[m] = "approved" => review'[m] = "approved",
         m \in Drafts /\ received'[m] > 0 => received[m] > 0 \/ review[m] = "approved",
         /\ msg'[m] = "QUEUED" => msg[m] = "QUEUED"
         /\ msg'[m] = "PENDING_APPROVAL" => msg[m] = "PENDING_APPROVAL"
         /\ msg'[m] = "none" => msg[m] = "none" /\ review'[m] = "none",
         /\ \/ msg'[m] = "QUEUED" /\ hold[m] = "no"
            \/ msg'[m] = "PENDING_APPROVAL" /\ review'[m] # "none" /\ m \notin Lost
         /\ call[p].phase \in Working \/ review'[m] # review[m]
         => gateFaults' > 0 \/ c.phase \in Working
  PROVE  GateInv'
<1>0. TypeOK /\ DraftsApproved /\ NoStands /\ CapCounted /\ InHands
  BY DEF GateInv
<1>1. /\ call \in [Procs -> CallType] /\ call' \in [Procs -> CallType]
      /\ \A q \in Procs : \A k : OnRow(q, k)' <=> IF q = p THEN c.msg = k /\ c.phase \in Working ELSE OnRow(q, k)
      /\ \A q \in Procs : call'[q] = IF q = p THEN c ELSE call[q]
  BY <1>0, TurnMoves
<1>2. DraftRows'
  BY <1>0 DEF DraftsApproved, DraftRows
<1>3. DraftCalls'
  <2>1. ASSUME NEW q \in Procs, NEW k \in Drafts \cap Messages, k \in claimed'[q] \/ OnRow(q, k)'
        PROVE  review'[k] = "approved"
    <3>1. CASE k \in claimed[q] \/ OnRow(q, k)
      BY <1>0, <3>1 DEF DraftsApproved, DraftCalls
    <3>2. CASE q = p /\ c.msg = k /\ c.phase \in Working
      BY <3>2
    <3> QED BY <1>1, <2>1, <3>1, <3>2
  <2> QED BY <2>1 DEF DraftCalls
<1>4. PendingRows'
  BY <1>0 DEF DraftsApproved, PendingRows
<1>5. ReadCalls'
  BY <1>0, <1>1 DEF DraftsApproved, ReadCalls
<1>6. ASSUME NEW k \in Messages,
             \/ msg'[k] = "QUEUED" /\ hold'[k] = "no"
             \/ msg'[k] = "PENDING_APPROVAL" /\ review'[k] # "none" /\ k \notin Lost
      PROVE  gateFaults' > 0 \/ \E q \in Procs : OnRow(q, k)'
  <2>1. CASE k = m /\ c.phase \in Working
    <3>1. OnRow(p, k)'
      BY <1>1, <2>1
    <3> QED BY <3>1
  <2>2. CASE k = m /\ c.phase \notin Working /\ (call[p].phase \in Working \/ review'[m] # review[m])
    BY <1>6, <2>2
  <2>3. CASE ~(call[p].phase \in Working /\ call[p].msg = k) /\ review'[k] = review[k]
    <3>1. gateFaults > 0 \/ \E q \in Procs : OnRow(q, k)
      BY <1>0, <1>6, <2>3 DEF InHands
    <3>2. ~OnRow(p, k)
      BY <2>3 DEF OnRow
    <3> QED BY <1>1, <3>1, <3>2
  <2> QED BY <2>1, <2>2, <2>3
<1> QED BY <1>2, <1>3, <1>4, <1>5, <1>6 DEF GateInv, DraftsApproved, InHands

\* The rows, the clock and the customer move on beside the calls.
LEMMA StillGate ==
  ASSUME GateInv, UNCHANGED <<call, review, received, gateFaults>>,
         TypeOK', NoStands', CapCounted',
         \A k \in Messages : \/ msg'[k] = msg[k] /\ (hold'[k] = "no" <=> hold[k] = "no")
                             \/ msg'[k] \notin Unsettled,
         \A q \in Procs : \A k \in claimed'[q] : k \in claimed[q] \/ msg[k] = "QUEUED"
  PROVE  GateInv'
<1>0. TypeOK /\ DraftsApproved /\ NoStands /\ CapCounted /\ InHands
  BY DEF GateInv
<1>1. \A q \in Procs : \A k : OnRow(q, k)' <=> OnRow(q, k)
  BY CountsKept
<1>2. DraftRows'
  BY <1>0 DEF DraftsApproved, DraftRows, Unsettled
<1>3. DraftCalls'
  BY <1>0, <1>1 DEF DraftsApproved, DraftCalls, DraftRows
<1>4. PendingRows'
  BY <1>0 DEF DraftsApproved, PendingRows, Unsettled
<1>5. ReadCalls'
  BY <1>0 DEF DraftsApproved, ReadCalls, Unsettled
<1>6. InHands'
  BY <1>0, <1>1 DEF InHands, Unsettled
<1> QED BY <1>2, <1>3, <1>4, <1>5, <1>6 DEF GateInv, DraftsApproved

LEMMA OpenGate == ASSUME GateInv, NEW p \in Procs, NEW m \in Messages, OpenCandidate(p, m) PROVE GateInv'
<1>0. TypeOK /\ DraftsApproved /\ NoStands /\ CapCounted /\ InHands
  BY DEF GateInv
<1> DEFINE c == At(m, "read")
<1>1. /\ Turns(p, c) /\ call[p] = NoCall /\ msg[m] = "PENDING_APPROVAL"
      /\ UNCHANGED <<msg, hold, channelNamed, recent, review, claimed, consent, window, quiet, nights,
                     received, after, gateFaults>>
  BY DEF OpenCandidate, Turns, Idle, messageVars, customerVars
<1>2. c \in CallType /\ c.msg = m /\ c.phase = "read"
  BY CallKinds DEF CallPhase
<1> HIDE DEF c
<1>3. TypeOK'
  BY <1>0, <1>1, <1>2, TurnMoves DEF TypeOK, CallType
<1>4. NoStands' /\ CapCounted'
  BY <1>0, <1>1, <1>2, CallClasses, CountsFall
<1>5. m \in Drafts
  BY <1>0, <1>1 DEF DraftsApproved, PendingRows
<1> QED BY <1>0, <1>1, <1>2, <1>3, <1>4, <1>5, TurnGate DEF Working, NoCall

LEMMA ChannelGate == ASSUME GateInv, NEW p \in Procs, CallChannel(p) PROVE GateInv'
<1>0. TypeOK /\ DraftsApproved /\ NoStands /\ CapCounted /\ InHands
  BY DEF GateInv
<1> DEFINE m == call[p].msg
<1>1. PICK x \in {"accepted", "refused"} :
        /\ call' = [call EXCEPT ![p].phase = x]
        /\ Deliver(m) \/ UNCHANGED <<received, after>>
        /\ call[p].phase = "sending"
        /\ UNCHANGED <<msg, hold, channelNamed, recent, review, claimed, consent, window, quiet, nights, gateFaults>>
  BY DEF CallChannel, messageVars, customerVars
<1> DEFINE c == At(m, x)
<1>2. Turns(p, c) /\ m \in Messages /\ c \in CallType /\ c.msg = m /\ c.phase = x
  <2>1. x \in CallPhase /\ call[p].phase # "idle"
    BY <1>1 DEF CallPhase
  <2>2. Turns(p, c) /\ m \in Messages
    BY <1>0, <1>1, <2>1, PhaseTurns
  <2> QED BY <2>1, <2>2, CallKinds
<1> HIDE DEF c, m
<1>3. PICK b \in {0, 1}, a \in {0, 1} :
        /\ received' = [received EXCEPT ![m] = received[m] + b] /\ after' = after + a
        /\ a = 1 => consent["SERVICE"] = "REVOKED" /\ m \notin Marketing \cup Acks
  <2>1. CASE UNCHANGED <<received, after>>
    <3>1. received' = [received EXCEPT ![m] = received[m] + 0] /\ after' = after + 0
      BY <1>0, <2>1 DEF TypeOK
    <3> QED BY <3>1
  <2>2. CASE Deliver(m)
    <3>1. /\ received' = [received EXCEPT ![m] = received[m] + 1]
          /\ after' = IF consent["SERVICE"] = "REVOKED" /\ m \notin Marketing /\ m \notin Acks
                        THEN after + 1 ELSE after + 0
      BY <1>0, <2>2 DEF Deliver, Purpose, TypeOK
    <3> QED BY <3>1
  <2> QED BY <1>1, <2>1, <2>2 DEF m
<1>4. call[p] \in CallType /\ call[p].msg = m
  <2>1. call \in [Procs -> CallType]
    BY <1>0 DEF TypeOK, CallType
  <2> QED BY <2>1 DEF m
<1>5. TypeOK'
  <2>1. received' \in [Messages -> Nat]
    <3>1. received[m] + b \in Nat
      BY <1>0, <1>2 DEF TypeOK
    <3> QED BY <1>0, <1>3, <3>1 DEF TypeOK
  <2>2. after' \in Nat
    BY <1>0, <1>3 DEF TypeOK
  <2> QED BY <1>0, <1>1, <1>2, <2>1, <2>2, TurnMoves DEF TypeOK, CallType
<1>6. NoStands'
  <2> DEFINE u == CallsOf(Unwanted)  u1 == CallsOf(Unwanted)'
  <2>1. c \notin Unwanted /\ (call[p] \in Unwanted <=> m \notin Marketing \cup Acks)
    BY <1>1, <1>2, <1>4, CallClasses
  <2>2. /\ u \in Nat /\ u1 \in Nat
        /\ m \notin Marketing \cup Acks => u1 = u - 1
        /\ m \in Marketing \cup Acks => u1 = u
    BY <1>0, <1>2, <2>1, CallMoves DEF TypeOK, CallType
  <2>3. consent["SERVICE"] = "REVOKED" => after + u <= Cardinality(Procs)
    BY <1>0 DEF NoStands
  <2>4. Cardinality(Procs) \in Nat /\ after \in Nat
    BY <1>0, GateConstants, FS_CardinalityType DEF TypeOK
  <2> HIDE DEF u, u1
  <2>5. consent["SERVICE"] = "REVOKED" => after' + u1 <= Cardinality(Procs)
    BY <1>3, <2>2, <2>3, <2>4
  <2> QED BY <1>1, <2>5 DEF NoStands, u1
<1>7. CapCounted'
  <2>1. c \in InFlightCalls <=> call[p] \in InFlightCalls
    BY <1>1, <1>2, <1>4, CallClasses
  <2>2. CallsOf(InFlightCalls)' = CallsOf(InFlightCalls)
    BY <1>0, <1>2, <2>1, CallMoves DEF TypeOK, CallType
  <2> QED BY <1>0, <1>1, <2>2 DEF CapCounted
<1>8. m \in Drafts => review[m] = "approved"
  BY <1>0, <1>1, <1>2, <1>4 DEF DraftsApproved, DraftCalls, OnRow, Working
<1>9. \A k \in Messages \ {m} : received'[k] = received[k]
  BY <1>0, <1>2, <1>3 DEF TypeOK
<1>10. msg[m] = "none" => review[m] = "none"
  BY <1>0, <1>2 DEF DraftsApproved, PendingRows
<1> QED BY <1>1, <1>2, <1>4, <1>5, <1>6, <1>7, <1>8, <1>9, <1>10, TurnGate DEF Working

\* The answer is written, or the failure; the row is settled.
LEMMA RecordGate ==
  ASSUME GateInv, NEW p \in Procs, RecordSent(p) \/ RecordFailed(p)
  PROVE  GateInv'
<1>0. TypeOK /\ DraftsApproved /\ NoStands /\ CapCounted /\ InHands
  BY DEF GateInv
<1> DEFINE m == call[p].msg
<1>1. PICK x \in {"SENT", "FAILED"} :
        /\ msg' = [msg EXCEPT ![m] = x] /\ Turns(p, NoCall)
        /\ call[p].phase \in {"accepted", "refused"}
        /\ IF x = "SENT" THEN recent' = recent \cup {m} /\ channelNamed' = channelNamed \cup {m}
                         ELSE UNCHANGED <<recent, channelNamed>>
        /\ gateFaults' = gateFaults \/ gateFaults' = gateFaults + 1
        /\ UNCHANGED <<hold, review, claimed, consent, window, quiet, nights, received, after>>
  BY DEF RecordSent, RecordFailed, Turns, customerVars
<1>2. call[p] \in CallType /\ call[p].msg = m /\ m \in Messages
  BY <1>0, <1>1, CallClasses DEF TypeOK, CallType
<1> HIDE DEF m
<1>3. NoCall \in CallType /\ NoCall.phase = "idle" /\ NoCall \notin Unwanted /\ NoCall \notin InFlightCalls
  BY CallKinds, CallClasses
<1>4. TypeOK'
  <2>1. msg' \in [Messages -> Status] /\ recent' \subseteq channelNamed' /\ channelNamed' \subseteq Messages
        /\ gateFaults' \in Nat
    BY <1>0, <1>1, <1>2 DEF TypeOK, Status
  <2> QED BY <1>0, <1>1, <1>3, <2>1, TurnMoves DEF TypeOK, CallType
<1>5. NoStands'
  <2>1. call[p] \notin Unwanted
    BY <1>1, <1>2, CallClasses
  <2>2. CallsOf(Unwanted)' = CallsOf(Unwanted)
    BY <1>0, <1>1, <1>3, <2>1, CallMoves DEF TypeOK, CallType
  <2> QED BY <1>0, <1>1, <2>2 DEF NoStands
<1>6. CapCounted'
  <2> DEFINE b == CallsOf(InFlightCalls)  b1 == CallsOf(InFlightCalls)'
             k == Cardinality(recent \cap Capped)  k1 == Cardinality(recent' \cap Capped)
  <2>1. call[p] \in InFlightCalls <=> m \in Capped
    BY <1>1, <1>2, CallClasses
  <2>2. /\ b \in Nat /\ b1 \in Nat
        /\ m \in Capped => b1 = b - 1
        /\ m \notin Capped => b1 = b
    BY <1>0, <1>1, <1>3, <2>1, CallMoves DEF TypeOK, CallType
  <2>3. k \in Nat /\ k1 \in {k, k + 1} /\ (m \notin Capped => k1 = k)
    <3>1. IsFiniteSet(recent \cap Capped)
      <4>1. recent \cap Capped \subseteq Messages
        BY <1>0 DEF TypeOK
      <4> QED BY <4>1, GateConstants, FS_Subset
    <3>2. recent' \cap Capped = IF m \in Capped /\ recent' # recent THEN (recent \cap Capped) \cup {m} ELSE recent \cap Capped
      BY <1>1
    <3> QED BY <3>1, <3>2, FS_AddElement, FS_CardinalityType
  <2>4. Cardinality(Procs) \in Nat /\ DailyCap \in Nat
    BY GateConstants, FS_CardinalityType
  <2>5. k + b < DailyCap + Cardinality(Procs)
    BY <1>0 DEF CapCounted
  <2> HIDE DEF b, b1, k, k1
  <2>6. k1 + b1 < DailyCap + Cardinality(Procs)
    BY <2>2, <2>3, <2>4, <2>5
  <2> QED BY <2>6 DEF b1, k1, CapCounted
<1>7. /\ \A k \in Messages \ {m} : msg'[k] = msg[k]
      /\ msg'[m] \in {"SENT", "FAILED"}
  BY <1>0, <1>1, <1>2 DEF TypeOK
<1>8. gateFaults' = gateFaults \/ gateFaults' > 0
  BY <1>0, <1>1 DEF TypeOK
<1>9. m \in Drafts => review[m] = "approved"
  BY <1>0, <1>1, <1>2 DEF DraftsApproved, DraftCalls, OnRow, Working
<1> QED BY <1>1, <1>2, <1>3, <1>4, <1>5, <1>6, <1>7, <1>8, <1>9, TurnGate DEF Working

\* An advisor's decision: the first one counts.
LEMMA ReviewGate ==
  ASSUME GateInv, NEW p \in Procs, Approve(p) \/ Reject(p)
  PROVE  GateInv'
<1>0. TypeOK /\ DraftsApproved /\ NoStands /\ CapCounted /\ InHands
  BY DEF GateInv
<1> DEFINE m == call[p].msg
<1>1. /\ call[p].phase = "read"
      /\ UNCHANGED <<hold, channelNamed, recent, claimed, consent, window, quiet, nights, received,
                     after, gateFaults>>
      /\ \/ /\ review' = [review EXCEPT ![m] = "approved"] /\ UNCHANGED msg
            /\ call' = [call EXCEPT ![p].phase = "approved"] /\ review[m] = "none"
         \/ UNCHANGED <<review, msg>> /\ Turns(p, NoCall)
         \/ /\ review' = [review EXCEPT ![m] = "rejected"] /\ msg' = [msg EXCEPT ![m] = "BLOCKED"]
            /\ Turns(p, NoCall) /\ review[m] = "none"
  BY DEF Approve, Reject, Undecided, Turns, messageVars, customerVars
<1>2. m \in Drafts \cap Messages /\ msg[m] # "none"
  BY <1>0, <1>1 DEF DraftsApproved, ReadCalls
<1>3. call[p] \in CallType
  <2>1. call \in [Procs -> CallType]
    BY <1>0 DEF TypeOK, CallType
  <2> QED BY <2>1
<1> HIDE DEF m
<1>4. CASE /\ review' = [review EXCEPT ![m] = "approved"] /\ UNCHANGED msg
           /\ call' = [call EXCEPT ![p].phase = "approved"] /\ review[m] = "none"
  <2> DEFINE c == At(m, "approved")
  <2>1. Turns(p, c) /\ c \in CallType /\ c.msg = m /\ c.phase = "approved"
    <3>1. "approved" \in CallPhase /\ call[p].phase # "idle"
      BY <1>1 DEF CallPhase
    <3>2. Turns(p, c)
      BY <1>0, <1>4, <3>1, PhaseTurns DEF m
    <3> QED BY <1>2, <3>1, <3>2, CallKinds
  <2> HIDE DEF c
  <2>2. TypeOK'
    <3>1. review' \in [Messages -> {"none", "approved", "rejected"}]
      BY <1>0, <1>2, <1>4 DEF TypeOK
    <3> QED BY <1>0, <1>1, <1>4, <2>1, <3>1, TurnMoves DEF TypeOK, CallType
  <2>3. NoStands' /\ CapCounted'
    BY <1>0, <1>1, <2>1, CallClasses, CountsFall
  <2>4. review'[m] = "approved" /\ \A k \in Messages \ {m} : review'[k] = review[k]
    BY <1>0, <1>2, <1>4 DEF TypeOK
  <2> QED BY <1>1, <1>2, <1>4, <2>1, <2>2, <2>3, <2>4, TurnGate DEF Working
<1>5. CASE UNCHANGED <<review, msg>> /\ Turns(p, NoCall)
  <2>1. NoCall \in CallType /\ NoCall.phase = "idle" /\ NoCall \notin Unwanted /\ NoCall \notin InFlightCalls
    BY CallKinds, CallClasses
  <2>2. TypeOK'
    BY <1>0, <1>1, <1>5, <2>1, TurnMoves DEF TypeOK, CallType
  <2>3. NoStands' /\ CapCounted'
    BY <1>0, <1>1, <1>5, <2>1, CountsFall
  <2> QED BY <1>1, <1>2, <1>5, <2>1, <2>2, <2>3, TurnGate DEF Working
<1>6. CASE /\ review' = [review EXCEPT ![m] = "rejected"] /\ msg' = [msg EXCEPT ![m] = "BLOCKED"]
           /\ Turns(p, NoCall) /\ review[m] = "none"
  <2>1. NoCall \in CallType /\ NoCall.phase = "idle" /\ NoCall \notin Unwanted /\ NoCall \notin InFlightCalls
    BY CallKinds, CallClasses
  <2>2. TypeOK'
    <3>1. review' \in [Messages -> {"none", "approved", "rejected"}] /\ msg' \in [Messages -> Status]
      BY <1>0, <1>2, <1>6 DEF TypeOK, Status
    <3> QED BY <1>0, <1>1, <1>6, <2>1, <3>1, TurnMoves DEF TypeOK, CallType
  <2>3. NoStands' /\ CapCounted'
    BY <1>0, <1>1, <1>6, <2>1, CountsFall
  <2>4. /\ review'[m] = "rejected" /\ \A k \in Messages \ {m} : review'[k] = review[k]
        /\ msg'[m] = "BLOCKED" /\ \A k \in Messages \ {m} : msg'[k] = msg[k]
    BY <1>0, <1>2, <1>6 DEF TypeOK
  <2> QED BY <1>1, <1>2, <1>6, <2>1, <2>2, <2>3, <2>4, TurnGate DEF Working
<1> QED BY <1>1, <1>4, <1>5, <1>6

\* An approved draft is released, unless its media is gone.
LEMMA ApprovedGate == ASSUME GateInv, NEW p \in Procs, ReleaseApproved(p) PROVE GateInv'
<1>0. TypeOK /\ DraftsApproved /\ NoStands /\ CapCounted /\ InHands
  BY DEF GateInv
<1> DEFINE m == call[p].msg
<1>1. /\ call[p].phase = "approved"
      /\ UNCHANGED <<channelNamed, recent, review, claimed, consent, window, quiet, nights, received,
                     after, gateFaults>>
      /\ \/ m \in Lost /\ Turns(p, NoCall) /\ UNCHANGED <<msg, hold>>
         \/ ReleaseFrom(p, m)
  BY DEF ReleaseApproved, Turns, customerVars
<1>2. m \in Drafts \cap Messages /\ msg[m] # "none"
  BY <1>0, <1>1 DEF DraftsApproved, ReadCalls
<1>3. review[m] = "approved" /\ (msg[m] = "QUEUED" => hold[m] # "no")
  BY <1>0, <1>1, <1>2 DEF DraftsApproved, DraftCalls, DraftRows, OnRow, Working
<1>4. CASE m \in Lost /\ Turns(p, NoCall) /\ UNCHANGED <<msg, hold>>
  <2>1. NoCall \in CallType /\ NoCall.phase = "idle" /\ NoCall \notin Unwanted /\ NoCall \notin InFlightCalls
    BY CallKinds, CallClasses
  <2>2. TypeOK'
    BY <1>0, <1>1, <1>4, <2>1, TurnMoves DEF TypeOK, CallType
  <2>3. NoStands' /\ CapCounted'
    BY <1>0, <1>1, <1>4, <2>1, CountsFall
  <2> QED BY <1>1, <1>2, <1>3, <1>4, <2>1, <2>2, <2>3, TurnGate DEF Working
<1>5. CASE ReleaseFrom(p, m)
  <2>1. claimed' \in [Procs -> SUBSET Messages] /\ \A q \in Procs : claimed'[q] \subseteq claimed[q]
    BY <1>0, <1>1 DEF TypeOK
  <2> QED BY <1>1, <1>2, <1>3, <1>5, <2>1, ReleaseGate
<1> QED BY <1>1, <1>4, <1>5

\* A drain releases a row of its batch.
LEMMA DrainGate == ASSUME GateInv, NEW p \in Procs, NEW m \in Messages, Release(p, m) PROVE GateInv'
<1>0. TypeOK /\ DraftsApproved /\ NoStands /\ CapCounted /\ InHands
  BY DEF GateInv
<1>1. /\ m \in claimed[p] /\ call[p] = NoCall
      /\ claimed' = [claimed EXCEPT ![p] = claimed[p] \ {m}]
      /\ UNCHANGED <<channelNamed, recent, review, consent, window, quiet, nights, received, after, gateFaults>>
      /\ UNCHANGED <<msg, hold, call>> \/ ReleaseFrom(p, m)
  BY DEF Release, customerVars
<1>2. claimed' \in [Procs -> SUBSET Messages] /\ \A q \in Procs : claimed'[q] \subseteq claimed[q]
  BY <1>0, <1>1 DEF TypeOK
<1>3. m \in Drafts => review[m] = "approved"
  BY <1>0, <1>1 DEF DraftsApproved, DraftCalls
<1>4. CASE UNCHANGED <<msg, hold, call>>
  <2>1. TypeOK'
    BY <1>0, <1>1, <1>2, <1>4 DEF TypeOK
  <2>2. NoStands' /\ CapCounted'
    BY <1>0, <1>1, <1>4, CountsKept DEF NoStands, CapCounted
  <2> QED BY <1>1, <1>2, <1>4, <2>1, <2>2, StillGate
<1>5. CASE ReleaseFrom(p, m)
  BY <1>1, <1>2, <1>3, <1>5, ReleaseGate
<1> QED BY <1>1, <1>4, <1>5

\* A process dies.
LEMMA CrashGate == ASSUME GateInv, NEW p \in Procs, Crash(p) PROVE GateInv'
<1>0. TypeOK /\ DraftsApproved /\ NoStands /\ CapCounted /\ InHands
  BY DEF GateInv
<1>1. /\ Turns(p, NoCall) /\ gateFaults' = gateFaults + 1 /\ claimed' = [claimed EXCEPT ![p] = {}]
      /\ ~Idle(p)
      /\ UNCHANGED <<msg, hold, channelNamed, recent, review, consent, window, quiet, nights, received, after>>
  BY DEF Crash, Turns, messageVars, customerVars
<1>2. NoCall \in CallType /\ NoCall.phase = "idle" /\ NoCall \notin Unwanted /\ NoCall \notin InFlightCalls
  BY CallKinds, CallClasses
<1>3. gateFaults' \in Nat /\ gateFaults' > 0
  BY <1>0, <1>1 DEF TypeOK
<1>4. claimed' \in [Procs -> SUBSET Messages] /\ \A q \in Procs : claimed'[q] \subseteq claimed[q]
  BY <1>0, <1>1 DEF TypeOK
<1>5. TypeOK'
  BY <1>0, <1>1, <1>2, <1>3, <1>4, TurnMoves DEF TypeOK, CallType
<1>6. NoStands' /\ CapCounted'
  BY <1>0, <1>1, <1>2, CountsFall
<1>7. PICK m \in Messages : call[p] = NoCall \/ call[p].msg = m
  <2>1. call \in [Procs -> CallType] /\ claimed[p] \subseteq Messages
    BY <1>0 DEF TypeOK, CallType
  <2>2. CASE call[p] = NoCall
    <3>1. claimed[p] # {}
      BY <1>1, <2>2 DEF Idle
    <3> QED BY <2>1, <2>2, <3>1
  <2>3. CASE call[p] # NoCall
    BY <2>1, <2>3, CallClasses
  <2> QED BY <2>2, <2>3
<1>8. call[p].phase \in Working => call[p].msg = m
  BY <1>7 DEF NoCall, Working
<1>9. msg[m] = "none" => review[m] = "none"
  BY <1>0 DEF DraftsApproved, PendingRows
<1> QED BY <1>1, <1>2, <1>3, <1>4, <1>5, <1>6, <1>8, <1>9, TurnGate DEF Working

\* The channel's receipts, the clock, the customer and the drain's claim.
LEMMA WorldGate ==
  ASSUME GateInv,
         \/ \E p \in Procs : ClaimHeld(p)
         \/ \E m \in Messages, x \in {"SENT", "DELIVERED", "READ", "FAILED"} : Receipt(m, x)
         \/ \E m \in Messages : Age(m)
         \/ \E m \in Messages, x \in {"GRANTED", "REVOKED"} : SayConsent(Purpose(m), x)
         \/ MoveWindow \/ Nightfall \/ Morning
  PROVE  GateInv'
<1>0. TypeOK /\ DraftsApproved /\ NoStands /\ CapCounted /\ InHands
  BY DEF GateInv
<1>1. ASSUME NEW p \in Procs, ClaimHeld(p) PROVE GateInv'
  <2> DEFINE due == {m \in Messages : msg[m] = "QUEUED" /\ hold[m] = "due"}
  <2>1. /\ claimed' = [claimed EXCEPT ![p] = due] /\ claimed[p] = {}
        /\ UNCHANGED <<msg, hold, channelNamed, recent, review, call, consent, window, quiet, nights,
                       received, after, gateFaults>>
    BY <1>1 DEF ClaimHeld, Idle, messageVars, customerVars
  <2>2. TypeOK'
    BY <1>0, <2>1 DEF TypeOK
  <2>3. NoStands' /\ CapCounted'
    BY <1>0, <2>1, CountsKept DEF NoStands, CapCounted
  <2>4. \A q \in Procs : \A k \in claimed'[q] : k \in claimed[q] \/ msg[k] = "QUEUED"
    BY <1>0, <2>1 DEF TypeOK
  <2> QED BY <2>1, <2>2, <2>3, <2>4, StillGate
<1>2. ASSUME NEW m \in Messages, NEW x \in {"SENT", "DELIVERED", "READ", "FAILED"}, Receipt(m, x)
      PROVE  GateInv'
  <2>1. /\ msg' = [msg EXCEPT ![m] = LaterStatus(msg[m], x)]
        /\ UNCHANGED <<hold, channelNamed, recent, review, call, claimed, consent, window, quiet, nights,
                       received, after, gateFaults>>
    BY <1>2 DEF Receipt, callVars, customerVars
  <2>2. \/ LaterStatus(msg[m], x) = msg[m]
        \/ LaterStatus(msg[m], x) \in Status \ Unsettled
    BY DEF LaterStatus, Status, Unsettled
  <2>3. TypeOK'
    <3>1. msg' \in [Messages -> Status]
      BY <1>0, <2>1, <2>2 DEF TypeOK
    <3> QED BY <1>0, <2>1, <3>1 DEF TypeOK
  <2>4. NoStands' /\ CapCounted'
    BY <1>0, <2>1, CountsKept DEF NoStands, CapCounted
  <2>5. \A k \in Messages : msg'[k] = msg[k] \/ msg'[k] \notin Unsettled
    BY <1>0, <2>1, <2>2 DEF TypeOK
  <2> QED BY <2>1, <2>3, <2>4, <2>5, StillGate
<1>3. ASSUME NEW m \in Messages, Age(m) PROVE GateInv'
  <2>1. /\ recent' = recent \ {m}
        /\ UNCHANGED <<msg, hold, channelNamed, review, call, claimed, consent, window, quiet, nights,
                       received, after, gateFaults>>
    BY <1>3 DEF Age, callVars, customerVars
  <2>2. TypeOK'
    BY <1>0, <2>1 DEF TypeOK
  <2>3. CapCounted'
    <3> DEFINE b == CallsOf(InFlightCalls)  k == Cardinality(recent \cap Capped)  k1 == Cardinality(recent' \cap Capped)
    <3>1. k \in Nat /\ k1 \in Nat /\ k1 <= k
      <4>1. recent \cap Capped \subseteq Messages /\ recent' \cap Capped \subseteq recent \cap Capped
        BY <1>0, <2>1 DEF TypeOK
      <4>2. IsFiniteSet(recent \cap Capped)
        BY <4>1, GateConstants, FS_Subset
      <4> QED BY <4>1, <4>2, FS_Subset, FS_CardinalityType
    <3>2. b \in Nat /\ Cardinality(Procs) \in Nat /\ DailyCap \in Nat
      BY CallCounts, GateConstants
    <3>3. k + b < DailyCap + Cardinality(Procs)
      BY <1>0 DEF CapCounted
    <3> HIDE DEF b, k, k1
    <3>4. k1 + b < DailyCap + Cardinality(Procs)
      BY <3>1, <3>2, <3>3
    <3> QED BY <2>1, <3>4, CountsKept DEF b, k1, CapCounted
  <2>4. NoStands'
    BY <1>0, <2>1, CountsKept DEF NoStands
  <2> QED BY <2>1, <2>2, <2>3, <2>4, StillGate
<1>4. ASSUME NEW m \in Messages, NEW x \in {"GRANTED", "REVOKED"}, SayConsent(Purpose(m), x)
      PROVE  GateInv'
  <2> DEFINE o == Purpose(m)
  <2>1. /\ consent' = [consent EXCEPT ![o] = x] /\ o \in {"SERVICE", "MARKETING"}
        /\ after' = IF o = "SERVICE" THEN 0 ELSE after
        /\ UNCHANGED <<msg, hold, channelNamed, recent, review, call, claimed, window, quiet, nights,
                       received, gateFaults>>
    BY <1>4 DEF SayConsent, Purpose, messageVars, callVars
  <2> HIDE DEF o
  <2>2. TypeOK'
    BY <1>0, <2>1 DEF TypeOK
  <2>3. NoStands'
    <3>1. CallsOf(Unwanted) \in Nat /\ CallsOf(Unwanted) <= Cardinality(Procs) /\ Cardinality(Procs) \in Nat
      BY CallCounts
    <3>2. CASE o = "SERVICE"
      <4>1. 0 + CallsOf(Unwanted) <= Cardinality(Procs)
        BY <3>1
      <4> QED BY <2>1, <3>2, <4>1, CountsKept DEF NoStands
    <3>3. CASE o # "SERVICE"
      <4>1. consent'["SERVICE"] = consent["SERVICE"] /\ after' = after
        BY <1>0, <2>1, <3>3 DEF TypeOK
      <4> QED BY <1>0, <2>1, <4>1, CountsKept DEF NoStands
    <3> QED BY <3>2, <3>3
  <2>4. CapCounted'
    BY <1>0, <2>1, CountsKept DEF CapCounted
  <2> QED BY <2>1, <2>2, <2>3, <2>4, StillGate
<1>5. ASSUME MoveWindow \/ Nightfall PROVE GateInv'
  <2>1. UNCHANGED <<msg, hold, channelNamed, recent, review, call, claimed, consent, received, after, gateFaults>>
        /\ window' \in BOOLEAN /\ quiet' \in BOOLEAN /\ nights' \in Nat
    <3>1. window \in BOOLEAN /\ quiet \in BOOLEAN /\ nights \in Nat
      BY <1>0 DEF TypeOK
    <3>2. CASE MoveWindow
      BY <3>1, <3>2 DEF MoveWindow, messageVars, callVars
    <3>3. CASE Nightfall
      BY <3>1, <3>3 DEF Nightfall, messageVars, callVars
    <3> QED BY <1>5, <3>2, <3>3
  <2>2. TypeOK'
    BY <1>0, <2>1 DEF TypeOK
  <2>3. NoStands' /\ CapCounted'
    BY <1>0, <2>1, CountsKept DEF NoStands, CapCounted
  <2> QED BY <2>1, <2>2, <2>3, StillGate
<1>6. ASSUME Morning PROVE GateInv'
  <2>1. /\ hold' = [m \in Messages |-> IF hold[m] = "later" THEN "due" ELSE hold[m]] /\ quiet' = FALSE
        /\ UNCHANGED <<msg, channelNamed, recent, review, call, claimed, consent, window, nights, received,
                       after, gateFaults>>
    BY <1>6 DEF Morning, callVars
  <2>2. TypeOK'
    BY <1>0, <2>1 DEF TypeOK
  <2>3. NoStands' /\ CapCounted'
    BY <1>0, <2>1, CountsKept DEF NoStands, CapCounted
  <2>4. \A k \in Messages : hold'[k] = "no" <=> hold[k] = "no"
    BY <2>1
  <2> QED BY <2>1, <2>2, <2>3, <2>4, StillGate
<1> QED BY <1>1, <1>2, <1>3, <1>4, <1>5, <1>6

LEMMA GateStep == GateInv /\ [Next]_vars => GateInv'
<1> SUFFICES ASSUME GateInv, [Next]_vars PROVE GateInv'
  OBVIOUS
<1>1. CASE UNCHANGED vars
  <2>0. TypeOK /\ DraftsApproved /\ NoStands /\ CapCounted /\ InHands
    BY DEF GateInv
  <2>1. UNCHANGED <<msg, hold, channelNamed, recent, review, call, claimed, consent, window, quiet, nights,
                    received, after, gateFaults>>
    BY <1>1 DEF vars, messageVars, callVars, customerVars
  <2>2. TypeOK'
    BY <2>0, <2>1 DEF TypeOK
  <2>3. NoStands' /\ CapCounted'
    BY <2>0, <2>1, CountsKept DEF NoStands, CapCounted
  <2> QED BY <2>1, <2>2, <2>3, StillGate
<1>2. ASSUME NEW p \in Procs, NEW m \in Messages, Send(p, m) \/ OpenCandidate(p, m) PROVE GateInv'
  BY <1>2, SendGate, OpenGate
<1>3. ASSUME NEW p \in Procs, CallStep(p) PROVE GateInv'
  BY <1>3, ChannelGate, RecordGate, ReviewGate, ApprovedGate DEF CallStep
<1>4. ASSUME NEW p \in Procs, NEW m \in Messages, Release(p, m) PROVE GateInv'
  BY <1>4, DrainGate
<1>5. ASSUME NEW p \in Procs, Crash(p) PROVE GateInv'
  BY <1>5, CrashGate
<1>6. CASE \/ \E p \in Procs : ClaimHeld(p)
           \/ \E m \in Messages, x \in {"SENT", "DELIVERED", "READ", "FAILED"} : Receipt(m, x)
           \/ \E m \in Messages : Age(m)
           \/ \E m \in Messages, x \in {"GRANTED", "REVOKED"} : SayConsent(Purpose(m), x)
           \/ MoveWindow \/ Nightfall \/ Morning
  BY <1>6, WorldGate
<1> QED BY <1>1, <1>2, <1>3, <1>4, <1>5, <1>6 DEF Next, DrainStep

LEMMA GateKept == Spec => []GateInv
<1>1. Init => GateInv
  BY GateInit
<1>2. GateInv /\ [Next]_vars => GateInv'
  BY GateStep
<1> QED BY <1>1, <1>2, PTL DEF Spec

\* What the advisor, the customer and the shop's limits have decided (decide, release,
\* approve, reject, ConsentService.record): a draft is only received once an advisor
\* has approved it, no more arrives after a stop than there are calls, and the daily
\* cap is overshot by less than the calls, whatever their number.
THEOREM DecisionsAlwaysKept == Spec => []DecisionsAreKept
<1>1. ASSUME GateInv PROVE DecisionsAreKept
  <2>0. TypeOK /\ DraftsApproved /\ NoStands /\ CapCounted
    BY <1>1 DEF GateInv
  <2>1. OnlyApprovedDrafts
    BY <2>0, GateConstants DEF DraftsApproved, DraftRows, OnlyApprovedDrafts
  <2>2. OptOutStopsTheRest
    <3>1. {p \in Sending : call[p].msg \notin Marketing \cup Acks} = CallsIn(Unwanted)
      <4>1. \A p \in Procs : call[p] \in CallType
        BY <2>0 DEF TypeOK, CallType
      <4> QED BY <4>1, CallClasses DEF Sending, CallsIn
    <3> QED BY <2>0, <3>1 DEF NoStands, CallsOf, OptOutStopsTheRest
  <2>3. CapOvershootsByCalls
    <3>1. IsFiniteSet(recent \cap Capped)
      <4>1. recent \cap Capped \subseteq Messages
        BY <2>0 DEF TypeOK
      <4> QED BY <4>1, GateConstants, FS_Subset
    <3>2. /\ Cardinality(recent \cap Capped) \in Nat /\ CallsOf(InFlightCalls) \in Nat
          /\ Cardinality(Procs) \in Nat /\ DailyCap \in Nat
      BY <3>1, CallCounts, GateConstants, FS_CardinalityType
    <3>3. Cardinality(recent \cap Capped) + CallsOf(InFlightCalls) < DailyCap + Cardinality(Procs)
      BY <2>0 DEF CapCounted
    <3> QED BY <3>2, <3>3 DEF CapOvershootsByCalls
  <2> QED BY <2>0, <2>1, <2>2, <2>3 DEF DecisionsAreKept
<1> QED BY <1>1, GateKept, PTL

LEMMA OnceInit == Init => OnceInv
<1> SUFFICES ASSUME Init PROVE OnceInv
  OBVIOUS
<1>1. \A p \in Procs : call[p].phase = "idle" /\ claimed[p] = {}
  BY DEF Init, NoCall
<1>2. OneCall /\ CallRows /\ BatchRows /\ ReadRows /\ NamedRows
  BY <1>1 DEF Init, OneCall, CallRows, BatchRows, ReadRows, NamedRows, OnRow, Working
<1>3. DeliveriesCounted
  BY DEF Init, DeliveriesCounted, Delivery
<1> QED BY <1>2, <1>3 DEF OnceInv

\* A call's turn on a row that is nobody else's.
LEMMA TurnOnce ==
  ASSUME GateInv, OnceInv, NEW p \in Procs, NEW c \in CallType, Turns(p, c), NEW m \in Messages,
         \A k \in Messages \ {m} : /\ msg'[k] = msg[k] /\ hold'[k] = hold[k] /\ review'[k] = review[k]
                                   /\ received'[k] = received[k],
         \A q \in Procs : claimed'[q] \subseteq claimed[q],
         channelNamed' \subseteq channelNamed \cup {m},
         gateFaults' = gateFaults \/ gateFaults' = gateFaults + 1,
         \A q \in Procs \ {p} : ~OnRow(q, m),
         call[p].phase \in Working => call[p].msg = m,
         c.phase \in Working => c.msg = m /\ CallRow(p, m)',
         \A q \in Procs : m \in claimed'[q] => BatchRow(q, m)',
         ReadRow(m) => ReadRow(m)',
         c.phase = "approved" => msg'[m] = "PENDING_APPROVAL",
         c.phase # "read",
         msg'[m] \in Unsettled => m \notin channelNamed',
         received'[m] <= 1 + gateFaults',
         msg'[m] \in Unsettled /\ c.phase \notin {"accepted", "refused"} => received'[m] <= gateFaults'
  PROVE  OnceInv'
<1>0. TypeOK /\ OneCall /\ CallRows /\ BatchRows /\ ReadRows /\ NamedRows /\ DeliveriesCounted
  BY DEF GateInv, OnceInv
<1>1. /\ call \in [Procs -> CallType] /\ call' \in [Procs -> CallType]
      /\ \A q \in Procs : \A k : OnRow(q, k)' <=> IF q = p THEN c.msg = k /\ c.phase \in Working ELSE OnRow(q, k)
      /\ \A q \in Procs : call'[q] = IF q = p THEN c ELSE call[q]
  BY <1>0, TurnMoves
<1>2. OneCall'
  BY <1>0, <1>1 DEF OneCall
<1>3. ASSUME NEW q \in Procs, NEW k \in Messages, OnRow(q, k)' PROVE CallRow(q, k)'
  <2>1. CASE q = p
    BY <1>1, <1>3, <2>1
  <2>2. CASE q # p
    <3>1. OnRow(q, k) /\ k # m
      BY <1>1, <1>3, <2>2
    <3>2. CallRow(q, k)
      BY <1>0, <3>1 DEF CallRows
    <3> QED BY <3>1, <3>2 DEF CallRow
  <2> QED BY <2>1, <2>2
<1>4. ASSUME NEW q \in Procs, NEW k \in claimed'[q] PROVE BatchRow(q, k)'
  <2>1. CASE k = m
    BY <2>1
  <2>2. CASE k # m
    <3>1. k \in Messages /\ BatchRow(q, k)
      BY <1>0 DEF TypeOK, BatchRows
    <3> QED BY <2>2, <3>1 DEF BatchRow
  <2> QED BY <2>1, <2>2
<1>5. ASSUME NEW q \in Procs, call'[q].phase \in {"read", "approved"}
      PROVE  /\ call'[q].phase = "read" =>
                  msg'[call'[q].msg] = "PENDING_APPROVAL" \/ review'[call'[q].msg] # "none"
             /\ call'[q].phase = "approved" => msg'[call'[q].msg] = "PENDING_APPROVAL"
  <2>1. CASE q = p
    BY <1>1, <1>5, <2>1 DEF Working
  <2>2. CASE q # p
    <3>1. call'[q] = call[q] /\ call[q].msg \in Messages
      BY <1>1, <1>5, <2>2, CallClasses
    <3>2. /\ call[q].phase = "read" => ReadRow(call[q].msg)
          /\ call[q].phase = "approved" => msg[call[q].msg] = "PENDING_APPROVAL"
      BY <1>0 DEF ReadRows
    <3>3. CASE call[q].msg = m
      <4>1. call[q].phase # "approved"
        BY <2>2, <3>3 DEF OnRow, Working
      <4>2. ReadRow(m)'
        BY <1>5, <3>1, <3>2, <3>3, <4>1
      <4>3. msg'[m] = "PENDING_APPROVAL" \/ review'[m] # "none"
        BY <4>2 DEF ReadRow
      <4> QED BY <3>1, <3>3, <4>1, <4>3
    <3>4. CASE call[q].msg # m
      BY <3>1, <3>2, <3>4 DEF ReadRow
    <3> QED BY <3>3, <3>4
  <2> QED BY <2>1, <2>2
<1>6. ReadRows'
  BY <1>5 DEF ReadRows, ReadRow
<1>7. NamedRows'
  BY <1>0 DEF NamedRows
<1>8. ASSUME NEW k \in Messages PROVE Delivery(k)'
  <2>1. CASE k = m
    <3>1. MayLeave(k)' => msg'[m] \in Unsettled /\ c.phase \notin {"accepted", "refused"}
      <4>1. c.phase \in {"accepted", "refused"} => AnsweredCall(p, m)'
        BY <1>1 DEF AnsweredCall, Working
      <4> QED BY <2>1, <4>1 DEF MayLeave
    <3> QED BY <2>1, <3>1 DEF Delivery
  <2>2. CASE k # m
    <3>1. MayLeave(k)' => MayLeave(k)
      <4>1. ASSUME NEW q \in Procs, AnsweredCall(q, k) PROVE AnsweredCall(q, k)'
        <5>1. q # p
          BY <2>2, <4>1 DEF AnsweredCall, Working
        <5> QED BY <1>1, <4>1, <5>1 DEF AnsweredCall
      <4> QED BY <2>2, <4>1 DEF MayLeave
    <3>2. received[k] \in Nat /\ gateFaults \in Nat /\ received'[k] = received[k]
      BY <1>0, <2>2 DEF TypeOK
    <3>3. Delivery(k)
      BY <1>0 DEF DeliveriesCounted
    <3>4. received'[k] <= 1 + gateFaults'
      BY <3>2, <3>3 DEF Delivery
    <3>5. MayLeave(k) => received'[k] <= gateFaults'
      BY <3>2, <3>3 DEF Delivery
    <3> QED BY <3>1, <3>4, <3>5 DEF Delivery
  <2> QED BY <2>1, <2>2
<1> QED BY <1>2, <1>3, <1>4, <1>6, <1>7, <1>8 DEF OnceInv, CallRows, BatchRows, DeliveriesCounted

\* The rows' own moves, and the looks that change no row.
LEMMA StillOnce ==
  ASSUME GateInv, OnceInv, UNCHANGED <<review, received, channelNamed>>,
         gateFaults' = gateFaults \/ gateFaults' = gateFaults + 1,
         call' \in [Procs -> CallType],
         \A q \in Procs : /\ call'[q] = call[q] \/ ~(call'[q].phase \in Working \/ call[q].phase \in Working)
                          /\ call'[q].phase = "read" /\ call'[q] # call[q] => ReadRow(call'[q].msg),
         \A k \in Messages : \/ msg'[k] = msg[k] \/ (k \in channelNamed /\ msg'[k] \notin Unsettled),
         \A k \in Messages : \/ hold'[k] = hold[k] \/ (hold[k] = "later" /\ hold'[k] = "due"),
         \A q \in Procs : \A k \in claimed'[q] :
           \/ k \in claimed[q]
           \/ k \in Messages /\ BatchRow(q, k) /\ \A r \in Procs : ~OnRow(r, k)
  PROVE  OnceInv'
<1>0. TypeOK /\ OneCall /\ CallRows /\ BatchRows /\ ReadRows /\ NamedRows /\ DeliveriesCounted
  BY DEF GateInv, OnceInv
<1>1. \A q \in Procs : \A k : /\ OnRow(q, k)' <=> OnRow(q, k)
                              /\ AnsweredCall(q, k)' <=> AnsweredCall(q, k)
  BY DEF OnRow, AnsweredCall, Working
<1>2. OneCall'
  BY <1>0, <1>1 DEF OneCall
<1>3. ASSUME NEW q \in Procs, NEW k \in Messages, OnRow(q, k)' PROVE CallRow(q, k)'
  <2>1. CallRow(q, k) /\ OnRow(q, k)
    BY <1>0, <1>1, <1>3 DEF CallRows
  <2>2. msg'[k] = msg[k]
    BY <1>0, <2>1 DEF CallRow, NamedRows, Unsettled
  <2>3. \A r \in Procs : k \notin claimed'[r]
    BY <2>1 DEF CallRow
  <2>4. msg[k] = "QUEUED" => hold'[k] = hold[k]
    BY <2>1 DEF CallRow
  <2> QED BY <2>1, <2>2, <2>3, <2>4 DEF CallRow
<1>4. ASSUME NEW q \in Procs, NEW k \in claimed'[q] PROVE BatchRow(q, k)'
  <2>1. BatchRow(q, k) /\ k \in Messages
    BY <1>0 DEF BatchRows, TypeOK
  <2>2. msg'[k] = msg[k] /\ hold'[k] = hold[k]
    BY <1>0, <2>1 DEF BatchRow, NamedRows, Unsettled
  <2> QED BY <2>1, <2>2 DEF BatchRow
<1>5. ASSUME NEW q \in Procs, call'[q].phase \in {"read", "approved"}
      PROVE  /\ call'[q].phase = "read" =>
                  msg'[call'[q].msg] = "PENDING_APPROVAL" \/ review'[call'[q].msg] # "none"
             /\ call'[q].phase = "approved" => msg'[call'[q].msg] = "PENDING_APPROVAL"
  <2>1. call'[q].msg \in Messages
    BY <1>5, CallClasses
  <2>2. /\ call'[q].phase = "read" => ReadRow(call'[q].msg)
        /\ call'[q].phase = "approved" => msg[call'[q].msg] = "PENDING_APPROVAL"
    BY <1>0 DEF ReadRows, Working
  <2>3. msg[call'[q].msg] = "PENDING_APPROVAL" => msg'[call'[q].msg] = "PENDING_APPROVAL"
    BY <1>0, <2>1 DEF NamedRows, Unsettled
  <2> QED BY <2>1, <2>2, <2>3 DEF ReadRow
<1>6. ReadRows'
  BY <1>5 DEF ReadRows, ReadRow
<1>7. NamedRows'
  BY <1>0 DEF NamedRows
<1>8. ASSUME NEW k \in Messages PROVE Delivery(k)'
  <2>1. MayLeave(k)' => MayLeave(k)
    BY <1>0, <1>1 DEF MayLeave, NamedRows
  <2>2. Delivery(k)
    BY <1>0 DEF DeliveriesCounted
  <2>3. received[k] \in Nat /\ gateFaults \in Nat /\ received'[k] = received[k]
    BY <1>0 DEF TypeOK
  <2>4. received'[k] <= 1 + gateFaults' /\ (MayLeave(k) => received'[k] <= gateFaults')
    BY <2>2, <2>3 DEF Delivery
  <2> QED BY <2>1, <2>4 DEF Delivery
<1> QED BY <1>2, <1>3, <1>4, <1>6, <1>7, <1>8 DEF OnceInv, CallRows, BatchRows, DeliveriesCounted

\* A message nobody has begun to send, and one a call has to itself.
LEMMA OwnRow ==
  ASSUME GateInv, OnceInv, NEW p \in Procs, NEW m \in Messages
  PROVE  /\ OnRow(p, m) => /\ \A q \in Procs \ {p} : ~OnRow(q, m)
                           /\ \A q \in Procs : m \notin claimed[q]
                           /\ msg[m] \in Unsettled /\ m \notin channelNamed
                           /\ msg[m] = "PENDING_APPROVAL" => review[m] # "none"
         /\ m \in claimed[p] => /\ \A q \in Procs : ~OnRow(q, m)
                                /\ BatchRow(p, m) /\ m \notin channelNamed
         /\ msg[m] = "none" => \A q \in Procs : ~OnRow(q, m) /\ m \notin claimed[q]
         /\ msg[m] = "PENDING_APPROVAL" /\ review[m] = "none" =>
              \A q \in Procs : ~OnRow(q, m) /\ m \notin claimed[q]
<1>0. TypeOK /\ OneCall /\ CallRows /\ BatchRows /\ NamedRows
  BY DEF GateInv, OnceInv
<1>1. ASSUME NEW q \in Procs, OnRow(q, m) PROVE CallRow(q, m) /\ m \notin channelNamed
  <2>1. CallRow(q, m)
    BY <1>0, <1>1 DEF CallRows
  <2> QED BY <1>0, <2>1 DEF CallRow, NamedRows, Unsettled
<1>2. ASSUME NEW q \in Procs, m \in claimed[q] PROVE BatchRow(q, m) /\ m \notin channelNamed
  <2>1. BatchRow(q, m)
    BY <1>0, <1>2 DEF BatchRows
  <2> QED BY <1>0, <2>1 DEF BatchRow, NamedRows, Unsettled
<1>3. OnRow(p, m) => \A q \in Procs \ {p} : ~OnRow(q, m)
  BY <1>0 DEF OneCall
<1> QED BY <1>1, <1>2, <1>3 DEF CallRow, BatchRow, Unsettled

\* A message that may leave has been received no more often than there were faults.
LEMMA LeavesOnce ==
  ASSUME GateInv, OnceInv, NEW m \in Messages, msg[m] \in Unsettled,
         \A q \in Procs : ~AnsweredCall(q, m)
  PROVE  received[m] <= gateFaults /\ received[m] \in Nat /\ gateFaults \in Nat
BY DEF GateInv, TypeOK, OnceInv, DeliveriesCounted, Delivery, MayLeave

LEMMA AnsweredWorks ==
  ASSUME NEW q, NEW m, AnsweredCall(q, m)
  PROVE  OnRow(q, m)
BY DEF AnsweredCall, OnRow, Working

LEMMA SendOnce == ASSUME GateInv, OnceInv, NEW p \in Procs, NEW m \in Messages, Send(p, m) PROVE OnceInv'
<1>0. TypeOK
  BY DEF GateInv
<1>1. PICK x \in {"BLOCKED", "PENDING_APPROVAL", "QUEUED"}, h \in {"later", "no"} :
        /\ msg' = [msg EXCEPT ![m] = x] /\ hold' = [hold EXCEPT ![m] = h]
        /\ \/ Turns(p, At(m, "sending")) /\ x = "QUEUED" /\ h = "no"
           \/ Turns(p, NoCall)
        /\ call[p] = NoCall /\ msg[m] = "none"
        /\ UNCHANGED <<channelNamed, review, claimed, received, gateFaults>>
  <2>1. Decide(m) \in {"block", "hitl", "defer", "send"}
    BY DEF Decide
  <2> QED BY <2>1 DEF Send, Turns, Idle
<1>2. PICK c \in CallType :
        /\ Turns(p, c)
        /\ \/ c.msg = m /\ c.phase = "sending" /\ x = "QUEUED" /\ h = "no"
           \/ c.phase = "idle"
  BY <1>1, CallKinds DEF CallPhase
<1>3. /\ \A q \in Procs : ~OnRow(q, m) /\ m \notin claimed[q] /\ ~AnsweredCall(q, m)
      /\ m \notin channelNamed
  BY <1>1, OwnRow, AnsweredWorks DEF OnceInv, NamedRows, Unsettled
<1>4. received[m] <= gateFaults /\ received[m] \in Nat /\ gateFaults \in Nat
  BY <1>1, <1>3, LeavesOnce DEF Unsettled
<1>5. /\ \A k \in Messages \ {m} : msg'[k] = msg[k] /\ hold'[k] = hold[k]
      /\ msg'[m] = x /\ hold'[m] = h
  BY <1>0, <1>1 DEF TypeOK
<1>6. c.phase \in Working => c.msg = m /\ CallRow(p, m)'
  BY <1>1, <1>2, <1>3, <1>5 DEF Working, CallRow
<1>7. ~ReadRow(m)
  BY <1>1 DEF ReadRow, GateInv, DraftsApproved, PendingRows
<1>8. call[p].phase \notin Working
  BY <1>1 DEF NoCall, Working
<1> QED BY <1>1, <1>2, <1>3, <1>4, <1>5, <1>6, <1>7, <1>8, TurnOnce

LEMMA OpenOnce == ASSUME GateInv, OnceInv, NEW p \in Procs, NEW m \in Messages, OpenCandidate(p, m) PROVE OnceInv'
<1>0. TypeOK
  BY DEF GateInv
<1>1. /\ Turns(p, At(m, "read")) /\ call[p] = NoCall /\ msg[m] = "PENDING_APPROVAL"
      /\ UNCHANGED <<msg, hold, channelNamed, review, claimed, received, gateFaults>>
  BY DEF OpenCandidate, Turns, Idle, messageVars
<1>2. /\ call' \in [Procs -> CallType]
      /\ \A q \in Procs : call'[q] = IF q = p THEN At(m, "read") ELSE call[q]
  BY <1>0, <1>1, CallKinds, TurnMoves DEF CallPhase
<1>3. At(m, "read").phase = "read" /\ At(m, "read").msg = m /\ NoCall.phase = "idle" /\ ReadRow(m)
  BY <1>1 DEF At, NoCall, ReadRow
<1>4. \A q \in Procs : /\ call'[q] = call[q] \/ ~(call'[q].phase \in Working \/ call[q].phase \in Working)
                       /\ call'[q].phase = "read" /\ call'[q] # call[q] => ReadRow(call'[q].msg)
  BY <1>1, <1>2, <1>3 DEF Working
<1> QED BY <1>1, <1>2, <1>4, StillOnce

LEMMA ChannelOnce == ASSUME GateInv, OnceInv, NEW p \in Procs, CallChannel(p) PROVE OnceInv'
<1>0. TypeOK
  BY DEF GateInv
<1>a. call[p].phase = "sending" /\ call[p] \in CallType
  BY <1>0 DEF CallChannel, TypeOK, CallType
<1>b. PICK m \in Messages : call[p].msg = m
  BY <1>a, CallClasses
<1>1. PICK x \in {"accepted", "refused"} :
        /\ call' = [call EXCEPT ![p].phase = x]
        /\ Deliver(m) \/ UNCHANGED <<received, after>>
        /\ call[p].phase = "sending"
        /\ UNCHANGED <<msg, hold, channelNamed, review, claimed, gateFaults>>
  BY <1>b DEF CallChannel, messageVars
<1> DEFINE c == At(m, x)
<1>2. Turns(p, c) /\ m \in Messages /\ c \in CallType /\ c.msg = m /\ c.phase = x
  <2>1. x \in CallPhase /\ call[p].phase # "idle"
    BY <1>1 DEF CallPhase
  <2>2. Turns(p, c) /\ m \in Messages
    BY <1>0, <1>b, <1>1, <2>1, PhaseTurns
  <2> QED BY <2>1, <2>2, CallKinds
<1>3. OnRow(p, m)
  BY <1>b, <1>1 DEF OnRow, Working
<1> HIDE DEF c
<1>4. /\ \A q \in Procs \ {p} : ~OnRow(q, m)
      /\ \A q \in Procs : m \notin claimed[q]
      /\ msg[m] \in Unsettled /\ m \notin channelNamed
  BY <1>2, <1>3, OwnRow
<1>5. CallRow(p, m)
  BY <1>2, <1>3 DEF OnceInv, CallRows
<1>6. \A q \in Procs : ~AnsweredCall(q, m)
  <2>1. ~AnsweredCall(p, m)
    BY <1>1 DEF AnsweredCall
  <2> QED BY <1>4, <2>1, AnsweredWorks
<1>7. received[m] <= gateFaults /\ received[m] \in Nat /\ gateFaults \in Nat
  BY <1>2, <1>4, <1>6, LeavesOnce
<1>8. received' = received \/ received' = [received EXCEPT ![m] = received[m] + 1]
  BY <1>1 DEF Deliver
<1>9. /\ \A k \in Messages \ {m} : received'[k] = received[k]
      /\ received'[m] <= 1 + gateFaults
  BY <1>0, <1>2, <1>7, <1>8 DEF TypeOK
<1>10. CallRow(p, m)'
  BY <1>1, <1>5 DEF CallRow
<1>11. call[p].msg = m /\ (ReadRow(m) => ReadRow(m)')
  BY <1>1, <1>b DEF ReadRow
<1> QED BY <1>1, <1>2, <1>4, <1>9, <1>10, <1>11, TurnOnce

LEMMA RecordOnce ==
  ASSUME GateInv, OnceInv, NEW p \in Procs, RecordSent(p) \/ RecordFailed(p)
  PROVE  OnceInv'
<1>0. TypeOK
  BY DEF GateInv
<1>a. call[p].phase \in {"accepted", "refused"} /\ call[p] \in CallType
  BY <1>0 DEF RecordSent, RecordFailed, TypeOK, CallType
<1>b. PICK m \in Messages : call[p].msg = m
  BY <1>a, CallClasses
<1>1. PICK x \in {"SENT", "FAILED"} :
        /\ msg' = [msg EXCEPT ![m] = x] /\ Turns(p, NoCall)
        /\ call[p].phase \in {"accepted", "refused"}
        /\ channelNamed' \subseteq channelNamed \cup {m}
        /\ gateFaults' = gateFaults \/ gateFaults' = gateFaults + 1
        /\ UNCHANGED <<hold, review, claimed, received>>
  BY <1>b DEF RecordSent, RecordFailed, Turns
<1>2. NoCall \in CallType /\ NoCall.phase = "idle"
  BY CallKinds
<1>3. OnRow(p, m)
  BY <1>1, <1>b DEF OnRow, Working
<1>4. /\ \A q \in Procs \ {p} : ~OnRow(q, m)
      /\ \A q \in Procs : m \notin claimed[q]
      /\ msg[m] = "PENDING_APPROVAL" => review[m] # "none"
  BY <1>2, <1>3, OwnRow
<1>5. received'[m] <= 1 + gateFaults'
  <2>1. received[m] <= 1 + gateFaults /\ received[m] \in Nat /\ gateFaults \in Nat
    BY <1>0, <1>2 DEF TypeOK, OnceInv, DeliveriesCounted, Delivery
  <2> QED BY <1>1, <2>1
<1>6. /\ \A k \in Messages \ {m} : msg'[k] = msg[k]
      /\ msg'[m] = x
  BY <1>0, <1>1, <1>2 DEF TypeOK
<1>7. ReadRow(m) => ReadRow(m)'
  BY <1>1, <1>4 DEF ReadRow
<1>8. call[p].msg = m /\ msg'[m] \notin Unsettled
  BY <1>6, <1>b DEF Unsettled
<1> QED BY <1>1, <1>2, <1>4, <1>5, <1>6, <1>7, <1>8, TurnOnce DEF Working

\* An advisor's decision: only the first has a row that is nobody's.
LEMMA ReviewOnce ==
  ASSUME GateInv, OnceInv, NEW p \in Procs, Approve(p) \/ Reject(p)
  PROVE  OnceInv'
<1>0. TypeOK /\ ReadRows
  BY DEF GateInv, OnceInv
<1>a. call[p].phase = "read" /\ call[p] \in CallType
  BY <1>0 DEF Approve, Reject, TypeOK, CallType
<1>b. PICK m \in Messages : call[p].msg = m
  BY <1>a, CallClasses
<1>1. /\ UNCHANGED <<hold, channelNamed, claimed, received, gateFaults>>
      /\ \/ /\ review' = [review EXCEPT ![m] = "approved"] /\ UNCHANGED msg
            /\ call' = [call EXCEPT ![p].phase = "approved"] /\ review[m] = "none"
         \/ UNCHANGED <<review, msg>> /\ Turns(p, NoCall)
         \/ /\ review' = [review EXCEPT ![m] = "rejected"] /\ msg' = [msg EXCEPT ![m] = "BLOCKED"]
            /\ Turns(p, NoCall) /\ review[m] = "none"
  BY <1>b DEF Approve, Reject, Undecided, Turns, messageVars
<1>2. NoCall \in CallType /\ NoCall.phase = "idle"
  BY CallKinds
<1>3. ReadRow(m) /\ call[p].phase \notin Working
  BY <1>0, <1>a, <1>b DEF ReadRows, Working
<1>4. ASSUME review[m] = "none"
      PROVE  /\ msg[m] = "PENDING_APPROVAL" /\ m \notin channelNamed
             /\ \A q \in Procs : ~OnRow(q, m) /\ m \notin claimed[q]
             /\ received[m] <= gateFaults /\ received[m] \in Nat /\ gateFaults \in Nat
  <2>1. msg[m] = "PENDING_APPROVAL"
    BY <1>3, <1>4 DEF ReadRow
  <2>2. \A q \in Procs : ~OnRow(q, m) /\ m \notin claimed[q]
    BY <1>4, <2>1, OwnRow
  <2>3. received[m] <= gateFaults /\ received[m] \in Nat /\ gateFaults \in Nat
    BY <2>1, <2>2, AnsweredWorks, LeavesOnce DEF Unsettled
  <2> QED BY <2>1, <2>2, <2>3 DEF OnceInv, NamedRows, Unsettled
<1>5. CASE /\ review' = [review EXCEPT ![m] = "approved"] /\ UNCHANGED msg
           /\ call' = [call EXCEPT ![p].phase = "approved"] /\ review[m] = "none"
  <2> DEFINE c == At(m, "approved")
  <2>1. Turns(p, c) /\ c \in CallType /\ c.msg = m /\ c.phase = "approved"
    <3>1. "approved" \in CallPhase /\ call[p].phase # "idle"
      BY <1>a DEF CallPhase
    <3>2. Turns(p, c)
      BY <1>0, <1>b, <1>5, <3>1, PhaseTurns
    <3> QED BY <3>1, <3>2, CallKinds
  <2> HIDE DEF c
  <2>2. review'[m] = "approved" /\ \A k \in Messages \ {m} : review'[k] = review[k]
    BY <1>0, <1>5 DEF TypeOK
  <2>3. CallRow(p, m)' /\ ReadRow(m)'
    BY <1>1, <1>4, <1>5, <2>2 DEF CallRow, ReadRow
  <2>4. received'[m] <= 1 + gateFaults' /\ received'[m] <= gateFaults'
    BY <1>1, <1>4, <1>5
  <2> QED BY <1>1, <1>3, <1>4, <1>5, <2>1, <2>2, <2>3, <2>4, TurnOnce
<1>6. CASE UNCHANGED <<review, msg>> /\ Turns(p, NoCall)
  <2>1. /\ call' \in [Procs -> CallType]
        /\ \A q \in Procs : call'[q] = IF q = p THEN NoCall ELSE call[q]
    BY <1>0, <1>2, <1>6, TurnMoves
  <2>2. \A q \in Procs : /\ call'[q] = call[q] \/ ~(call'[q].phase \in Working \/ call[q].phase \in Working)
                         /\ call'[q].phase = "read" /\ call'[q] # call[q] => ReadRow(call'[q].msg)
    BY <1>2, <1>3, <2>1 DEF Working
  <2> QED BY <1>1, <1>6, <2>1, <2>2, StillOnce
<1>7. CASE /\ review' = [review EXCEPT ![m] = "rejected"] /\ msg' = [msg EXCEPT ![m] = "BLOCKED"]
           /\ Turns(p, NoCall) /\ review[m] = "none"
  <2>1. /\ review'[m] = "rejected" /\ \A k \in Messages \ {m} : review'[k] = review[k]
        /\ msg'[m] = "BLOCKED" /\ \A k \in Messages \ {m} : msg'[k] = msg[k]
    BY <1>0, <1>7 DEF TypeOK
  <2>2. ReadRow(m)' /\ msg'[m] \notin Unsettled
    BY <2>1 DEF ReadRow, Unsettled
  <2>3. received'[m] <= 1 + gateFaults'
    BY <1>1, <1>4, <1>7
  <2>4. \A q \in Procs : m \notin claimed'[q]
    BY <1>1, <1>4, <1>7
  <2> QED BY <1>1, <1>2, <1>3, <1>4, <1>7, <2>1, <2>2, <2>3, <2>4, TurnOnce DEF Working
<1> QED BY <1>1, <1>5, <1>6, <1>7

\* A release of a row that is the releasing call's alone.
LEMMA ReleaseOnce ==
  ASSUME GateInv, OnceInv, NEW p \in Procs, NEW m \in Messages, ReleaseFrom(p, m),
         call[p] = NoCall \/ (call[p].phase = "approved" /\ call[p].msg = m),
         \A q \in Procs \ {p} : ~OnRow(q, m),
         msg[m] \in {"QUEUED", "PENDING_APPROVAL"},
         msg[m] = "PENDING_APPROVAL" => review[m] = "approved",
         msg[m] = "QUEUED" => hold[m] = "due" /\ p \in Drainers,
         \A q \in Procs : claimed'[q] \subseteq claimed[q] /\ m \notin claimed'[q],
         UNCHANGED <<channelNamed, review, received, gateFaults>>
  PROVE  OnceInv'
<1>0. TypeOK /\ NamedRows
  BY DEF GateInv, OnceInv
<1>1. PICK x \in {"FAILED", "QUEUED", "kept"} :
        /\ msg' = [msg EXCEPT ![m] = IF x = "kept" THEN msg[m] ELSE x]
        /\ hold' = [hold EXCEPT ![m] = IF x = "QUEUED" THEN "later" ELSE hold[m]]
        /\ IF x = "kept" THEN Turns(p, At(m, "sending")) ELSE Turns(p, NoCall)
  <2>1. msg = [msg EXCEPT ![m] = msg[m]] /\ hold = [hold EXCEPT ![m] = hold[m]]
    BY <1>0 DEF TypeOK
  <2> QED BY <2>1, ReleaseKinds
<1> DEFINE c == IF x = "kept" THEN At(m, "sending") ELSE NoCall
<1>2. /\ Turns(p, c) /\ c \in CallType
      /\ x = "kept" => c.msg = m /\ c.phase = "sending"
      /\ x # "kept" => c.phase = "idle"
  BY <1>1, CallKinds DEF CallPhase
<1> HIDE DEF c
<1>3. /\ \A k \in Messages \ {m} : msg'[k] = msg[k] /\ hold'[k] = hold[k]
      /\ msg'[m] = IF x = "kept" THEN msg[m] ELSE x
      /\ hold'[m] = IF x = "QUEUED" THEN "later" ELSE hold[m]
  BY <1>0, <1>1 DEF TypeOK
<1>4. \A q \in Procs : ~AnsweredCall(q, m)
  <2>1. ~AnsweredCall(p, m)
    BY DEF AnsweredCall, NoCall
  <2> QED BY <2>1, AnsweredWorks
<1>5. received[m] <= gateFaults /\ received[m] \in Nat /\ gateFaults \in Nat /\ m \notin channelNamed
  BY <1>0, <1>4, LeavesOnce DEF Unsettled, NamedRows
<1>6. received'[m] <= 1 + gateFaults' /\ received'[m] <= gateFaults'
  BY <1>5
<1>7. c.phase \in Working => c.msg = m /\ CallRow(p, m)'
  BY <1>2, <1>3 DEF CallRow, Working
<1>8. ReadRow(m) => ReadRow(m)'
  BY <1>3 DEF ReadRow
<1>9. call[p].phase \in Working => call[p].msg = m
  BY DEF NoCall, Working
<1> QED BY <1>2, <1>3, <1>5, <1>6, <1>7, <1>8, <1>9, TurnOnce

LEMMA ApprovedOnce == ASSUME GateInv, OnceInv, NEW p \in Procs, ReleaseApproved(p) PROVE OnceInv'
<1>0. TypeOK /\ ReadRows /\ CallRows
  BY DEF GateInv, OnceInv
<1>a. call[p].phase = "approved" /\ call[p] \in CallType
  BY <1>0 DEF ReleaseApproved, TypeOK, CallType
<1>b. PICK m \in Messages : call[p].msg = m
  BY <1>a, CallClasses
<1>1. /\ UNCHANGED <<channelNamed, review, claimed, received, gateFaults>>
      /\ (Turns(p, NoCall) /\ UNCHANGED <<msg, hold>>) \/ ReleaseFrom(p, m)
  BY <1>b DEF ReleaseApproved, Turns
<1>2. OnRow(p, m) /\ msg[m] = "PENDING_APPROVAL"
  BY <1>0, <1>a, <1>b DEF OnRow, Working, ReadRows
<1>3. CallRow(p, m)
  BY <1>0, <1>2 DEF CallRows
<1>4. (\A q \in Procs \ {p} : ~OnRow(q, m)) /\ m \notin channelNamed
  BY <1>2, OwnRow
<1>5. CASE Turns(p, NoCall) /\ UNCHANGED <<msg, hold>>
  <2>1. NoCall \in CallType /\ NoCall.phase = "idle"
    BY CallKinds
  <2>2. \A q \in Procs : ~AnsweredCall(q, m)
    <3>1. ~AnsweredCall(p, m)
      BY <1>a DEF AnsweredCall
    <3> QED BY <1>4, <3>1, AnsweredWorks
  <2>3. received[m] <= gateFaults /\ received[m] \in Nat /\ gateFaults \in Nat
    BY <1>2, <2>2, LeavesOnce DEF Unsettled
  <2>4. received'[m] <= 1 + gateFaults' /\ received'[m] <= gateFaults'
    BY <1>1, <2>3
  <2>5. ReadRow(m)' /\ \A q \in Procs : m \notin claimed'[q]
    BY <1>1, <1>2, <1>3, <1>5 DEF ReadRow, CallRow
  <2> QED BY <1>1, <1>b, <1>4, <1>5, <2>1, <2>4, <2>5, TurnOnce DEF Working
<1>6. CASE ReleaseFrom(p, m)
  <2>1. \A q \in Procs : claimed'[q] \subseteq claimed[q] /\ m \notin claimed'[q]
    BY <1>1, <1>3 DEF CallRow
  <2>2. review[m] = "approved"
    BY <1>2, <1>3 DEF CallRow
  <2> QED BY <1>a, <1>b, <1>1, <1>2, <1>4, <1>6, <2>1, <2>2, ReleaseOnce
<1> QED BY <1>1, <1>5, <1>6

LEMMA DrainOnce ==
  ASSUME OneDrain, GateInv, OnceInv, NEW p \in Procs, NEW m \in Messages, Release(p, m)
  PROVE  OnceInv'
<1>0. TypeOK /\ BatchRows
  BY DEF GateInv, OnceInv
<1>1. /\ m \in claimed[p] /\ call[p] = NoCall
      /\ claimed' = [claimed EXCEPT ![p] = claimed[p] \ {m}]
      /\ UNCHANGED <<channelNamed, review, received, gateFaults>>
      /\ UNCHANGED <<msg, hold, call>> \/ ReleaseFrom(p, m)
  BY DEF Release
<1>2. BatchRow(p, m) /\ \A q \in Procs : ~OnRow(q, m)
  BY <1>1, OwnRow
<1>3. \A q \in Procs : claimed'[q] \subseteq claimed[q]
  BY <1>0, <1>1 DEF TypeOK
<1>4. \A q \in Procs : m \notin claimed'[q]
  <2>1. ASSUME NEW q \in Procs, m \in claimed[q] PROVE q = p
    <3>1. BatchRow(q, m)
      BY <1>0, <2>1 DEF BatchRows
    <3> QED BY <1>2, <3>1 DEF BatchRow, OneDrain
  <2> QED BY <1>0, <1>1, <1>3, <2>1 DEF TypeOK
<1>5. CASE UNCHANGED <<msg, hold, call>>
  <2>1. call' \in [Procs -> CallType]
    BY <1>0, <1>5 DEF TypeOK, CallType
  <2>2. \A q \in Procs : \A k \in claimed'[q] : k \in claimed[q]
    BY <1>3
  <2> QED BY <1>1, <1>5, <2>1, <2>2, StillOnce
<1>6. CASE ReleaseFrom(p, m)
  BY <1>1, <1>2, <1>3, <1>4, <1>6, ReleaseOnce DEF BatchRow
<1> QED BY <1>1, <1>5, <1>6

\* A death pays for what its call may have delivered.
LEMMA CrashOnce == ASSUME GateInv, OnceInv, NEW p \in Procs, Crash(p) PROVE OnceInv'
<1>0. TypeOK
  BY DEF GateInv
<1>1. /\ Turns(p, NoCall) /\ gateFaults' = gateFaults + 1 /\ claimed' = [claimed EXCEPT ![p] = {}]
      /\ UNCHANGED <<msg, hold, channelNamed, review, received>>
  BY DEF Crash, Turns, messageVars
<1>2. NoCall \in CallType /\ NoCall.phase = "idle"
  BY CallKinds
<1>3. \A q \in Procs : claimed'[q] \subseteq claimed[q]
  BY <1>0, <1>1 DEF TypeOK
<1>4. CASE call[p].phase \in Working
  <2>1. call[p] \in CallType /\ call[p].phase # "idle"
    BY <1>0, <1>4 DEF TypeOK, CallType, Working
  <2>2. PICK m \in Messages : call[p].msg = m
    BY <2>1, CallClasses
  <2>3. OnRow(p, m)
    BY <1>4, <2>2 DEF OnRow
  <2>4. /\ \A q \in Procs \ {p} : ~OnRow(q, m)
        /\ \A q \in Procs : m \notin claimed'[q]
        /\ m \notin channelNamed'
    BY <1>1, <1>3, <2>3, OwnRow
  <2>5. received'[m] <= 1 + gateFaults' /\ received'[m] <= gateFaults'
    <3>1. received[m] \in Nat /\ gateFaults \in Nat /\ received[m] <= 1 + gateFaults
      BY <1>0 DEF TypeOK, OnceInv, DeliveriesCounted, Delivery
    <3> QED BY <1>1, <3>1
  <2>6. ReadRow(m) => ReadRow(m)'
    BY <1>1 DEF ReadRow
  <2> QED BY <1>1, <1>2, <1>3, <2>2, <2>4, <2>5, <2>6, TurnOnce DEF Working
<1>5. CASE call[p].phase \notin Working
  <2>1. /\ call' \in [Procs -> CallType]
        /\ \A q \in Procs : call'[q] = IF q = p THEN NoCall ELSE call[q]
    BY <1>0, <1>1, <1>2, TurnMoves
  <2>2. \A q \in Procs : /\ call'[q] = call[q] \/ ~(call'[q].phase \in Working \/ call[q].phase \in Working)
                         /\ call'[q].phase = "read" /\ call'[q] # call[q] => ReadRow(call'[q].msg)
    BY <1>2, <1>5, <2>1 DEF Working
  <2>3. \A q \in Procs : \A k \in claimed'[q] : k \in claimed[q]
    BY <1>3
  <2> QED BY <1>1, <2>1, <2>2, <2>3, StillOnce
<1> QED BY <1>4, <1>5

\* What a receipt may make of a status.
LEMMA ReceiptForward ==
  ASSUME NEW s, NEW x \in {"SENT", "DELIVERED", "READ", "FAILED"}
  PROVE  /\ LaterStatus(s, x) = s \/ LaterStatus(s, x) \in Status \ Unsettled
         /\ Rank(LaterStatus(s, x)) >= Rank(s)
<1>1. LaterStatus(s, x) = s \/ (LaterStatus(s, x) = x /\ Rank(x) > Rank(s))
  BY DEF LaterStatus
<1>2. Rank(s) \in Nat /\ Rank(x) \in Nat
  BY DEF Rank
<1>3. Rank(LaterStatus(s, x)) >= Rank(s)
  BY <1>1, <1>2
<1> QED BY <1>1, <1>3 DEF Status, Unsettled

LEMMA WorldOnce ==
  ASSUME OneDrain, GateInv, OnceInv,
         \/ \E p \in Procs : ClaimHeld(p)
         \/ \E m \in Messages, x \in {"SENT", "DELIVERED", "READ", "FAILED"} : Receipt(m, x)
         \/ \E m \in Messages : Age(m)
         \/ \E m \in Messages, x \in {"GRANTED", "REVOKED"} : SayConsent(Purpose(m), x)
         \/ MoveWindow \/ Nightfall \/ Morning
  PROVE  OnceInv'
<1>0. TypeOK /\ CallRows /\ NamedRows /\ call \in [Procs -> CallType]
  BY DEF GateInv, OnceInv, TypeOK, CallType
<1>1. ASSUME NEW p \in Procs, ClaimHeld(p) PROVE OnceInv'
  <2> DEFINE due == {m \in Messages : msg[m] = "QUEUED" /\ hold[m] = "due"}
  <2>1. /\ claimed' = [claimed EXCEPT ![p] = due] /\ p \in Drainers /\ call[p] = NoCall
        /\ UNCHANGED <<msg, hold, channelNamed, review, call, received, gateFaults>>
    BY <1>1 DEF ClaimHeld, Idle, messageVars
  <2>2. ASSUME NEW q \in Procs, NEW k \in claimed'[q], k \notin claimed[q]
        PROVE  k \in Messages /\ BatchRow(q, k) /\ \A r \in Procs : ~OnRow(r, k)
    <3>1. q = p /\ k \in due
      BY <1>0, <2>1, <2>2 DEF TypeOK
    <3>2. ASSUME NEW r \in Procs, OnRow(r, k) PROVE FALSE
      <4>1. CallRow(r, k)
        BY <1>0, <3>1, <3>2 DEF CallRows
      <4>2. r = p
        BY <2>1, <3>1, <4>1 DEF CallRow, OneDrain
      <4> QED BY <2>1, <3>2, <4>2 DEF OnRow, NoCall, Working
    <3> QED BY <2>1, <3>1, <3>2 DEF BatchRow
  <2> QED BY <1>0, <2>1, <2>2, StillOnce
<1>2. ASSUME NEW m \in Messages, NEW x \in {"SENT", "DELIVERED", "READ", "FAILED"}, Receipt(m, x)
      PROVE  OnceInv'
  <2>1. /\ msg' = [msg EXCEPT ![m] = LaterStatus(msg[m], x)] /\ m \in channelNamed
        /\ UNCHANGED <<hold, channelNamed, review, call, claimed, received, gateFaults>>
    BY <1>2 DEF Receipt, callVars
  <2>2. \A k \in Messages : msg'[k] = msg[k] \/ (k \in channelNamed /\ msg'[k] \notin Unsettled)
    BY <1>0, <2>1, ReceiptForward DEF TypeOK
  <2> QED BY <1>0, <2>1, <2>2, StillOnce
<1>3. ASSUME \/ \E m \in Messages : Age(m)
             \/ \E m \in Messages, x \in {"GRANTED", "REVOKED"} : SayConsent(Purpose(m), x)
             \/ MoveWindow \/ Nightfall
      PROVE  OnceInv'
  <2>1. UNCHANGED <<msg, hold, channelNamed, review, call, claimed, received, gateFaults>>
    BY <1>3 DEF Age, SayConsent, MoveWindow, Nightfall, messageVars, callVars
  <2> QED BY <1>0, <2>1, StillOnce
<1>4. ASSUME Morning PROVE OnceInv'
  <2>1. /\ hold' = [m \in Messages |-> IF hold[m] = "later" THEN "due" ELSE hold[m]]
        /\ UNCHANGED <<msg, channelNamed, review, call, claimed, received, gateFaults>>
    BY <1>4 DEF Morning, callVars
  <2>2. \A k \in Messages : hold'[k] = hold[k] \/ (hold[k] = "later" /\ hold'[k] = "due")
    BY <2>1
  <2> QED BY <1>0, <2>1, <2>2, StillOnce
<1> QED BY <1>1, <1>2, <1>3, <1>4

LEMMA OnceStep == OneDrain /\ GateInv /\ OnceInv /\ [Next]_vars => OnceInv'
<1> SUFFICES ASSUME OneDrain, GateInv, OnceInv, [Next]_vars PROVE OnceInv'
  OBVIOUS
<1>1. CASE UNCHANGED vars
  <2>1. UNCHANGED <<msg, hold, channelNamed, review, call, claimed, received, gateFaults>>
    BY <1>1 DEF vars, messageVars, callVars
  <2>2. call' \in [Procs -> CallType]
    BY <2>1 DEF GateInv, TypeOK, CallType
  <2> QED BY <2>1, <2>2, StillOnce
<1>2. ASSUME NEW p \in Procs, NEW m \in Messages, Send(p, m) \/ OpenCandidate(p, m) PROVE OnceInv'
  BY <1>2, SendOnce, OpenOnce
<1>3. ASSUME NEW p \in Procs, CallStep(p) PROVE OnceInv'
  BY <1>3, ChannelOnce, RecordOnce, ReviewOnce, ApprovedOnce DEF CallStep
<1>4. ASSUME NEW p \in Procs, NEW m \in Messages, Release(p, m) PROVE OnceInv'
  BY <1>4, DrainOnce
<1>5. ASSUME NEW p \in Procs, Crash(p) PROVE OnceInv'
  BY <1>5, CrashOnce
<1>6. CASE \/ \E p \in Procs : ClaimHeld(p)
           \/ \E m \in Messages, x \in {"SENT", "DELIVERED", "READ", "FAILED"} : Receipt(m, x)
           \/ \E m \in Messages : Age(m)
           \/ \E m \in Messages, x \in {"GRANTED", "REVOKED"} : SayConsent(Purpose(m), x)
           \/ MoveWindow \/ Nightfall \/ Morning
  BY <1>6, WorldOnce
<1> QED BY <1>1, <1>2, <1>3, <1>4, <1>5, <1>6 DEF Next, DrainStep

LEMMA OnceKept == ASSUME OneDrain PROVE Spec => [](GateInv /\ OnceInv)
<1>1. Init => GateInv /\ OnceInv
  BY GateInit, OnceInit
<1>2. GateInv /\ OnceInv /\ [Next]_vars => (GateInv /\ OnceInv)'
  BY GateStep, OnceStep
<1> QED BY <1>1, <1>2, PTL DEF Spec

\* With one drain a message reaches the customer once, plus once for every death or
\* lost record of an answer (release, claimDueScheduled, decide), and one that waits
\* for nothing is in somebody's hands: for any number of calls, advisors and messages.
THEOREM MessagesAlwaysKept == ASSUME OneDrain PROVE Spec => []MessagesAreKept
<1>1. ASSUME GateInv, OnceInv PROVE MessagesAreKept
  <2>1. ReceivedOncePerFault
    BY <1>1 DEF OnceInv, DeliveriesCounted, Delivery, ReceivedOncePerFault
  <2>2. NothingDisappears
    BY <1>1 DEF GateInv, InHands, OnRow, NothingDisappears
  <2> QED BY <2>1, <2>2 DEF MessagesAreKept
<1> QED BY <1>1, OnceKept, PTL

\* A receipt, or anything else that writes a row, never takes a message back from
\* what the customer has done with it (updateDeliveryState, markSent, markFailed).
THEOREM ReceiptsAlwaysForward == ASSUME OneDrain PROVE Spec => ReceiptsMoveForward
<1> DEFINE Forward == \A m \in Messages : msg[m] \in {"DELIVERED", "READ"} => Rank(msg'[m]) >= Rank(msg[m])
<1>1. ASSUME GateInv, OnceInv, [Next]_vars PROVE Forward
  <2>0. TypeOK /\ BatchRows /\ ReadRows
    BY <1>1 DEF GateInv, OnceInv
  <2>1. SUFFICES ASSUME NEW m \in Messages, msg[m] \in {"DELIVERED", "READ"}
                 PROVE  msg'[m] = msg[m] \/ Rank(msg'[m]) >= Rank(msg[m])
    BY DEF Rank
  <2>2. \A p \in Procs : ~OnRow(p, m) /\ m \notin claimed[p]
    BY <1>1, <2>1, OwnRow DEF Unsettled, BatchRow
  <2>3. ASSUME NEW p \in Procs, NEW k \in Messages, Send(p, k) \/ OpenCandidate(p, k) PROVE msg'[m] = msg[m]
    <3>1. CASE Send(p, k)
      BY <2>0, <2>1, <3>1 DEF Send, TypeOK
    <3>2. CASE OpenCandidate(p, k)
      BY <3>2 DEF OpenCandidate, messageVars
    <3> QED BY <2>3, <3>1, <3>2
  <2>4. ASSUME NEW p \in Procs, CallStep(p) PROVE msg'[m] = msg[m]
    <3>1. CASE CallChannel(p) \/ Approve(p)
      BY <3>1 DEF CallChannel, Approve, messageVars
    <3>2. CASE RecordSent(p) \/ RecordFailed(p)
      <4>1. call[p].msg # m
        BY <2>2, <3>2 DEF RecordSent, RecordFailed, OnRow, Working
      <4> QED BY <2>0, <3>2, <4>1 DEF RecordSent, RecordFailed, TypeOK
    <3>3. CASE Reject(p)
      <4>1. call[p].msg = m => ~Undecided(m)
        BY <2>0, <2>1, <3>3 DEF Reject, ReadRows, ReadRow, Undecided
      <4> QED BY <2>0, <3>3, <4>1 DEF Reject, TypeOK
    <3>4. CASE ReleaseApproved(p)
      <4>1. call[p].msg # m
        BY <2>2, <3>4 DEF ReleaseApproved, OnRow, Working
      <4> QED BY <2>0, <3>4, <4>1 DEF ReleaseApproved, ReleaseFrom, TypeOK
    <3> QED BY <2>4, <3>1, <3>2, <3>3, <3>4 DEF CallStep
  <2>5. ASSUME NEW p \in Procs, NEW k \in Messages, Release(p, k) PROVE msg'[m] = msg[m]
    <3>1. k # m
      BY <2>2, <2>5 DEF Release
    <3> QED BY <2>0, <2>5, <3>1 DEF Release, ReleaseFrom, TypeOK
  <2>6. ASSUME NEW k \in Messages, NEW x \in {"SENT", "DELIVERED", "READ", "FAILED"}, Receipt(k, x)
        PROVE  msg'[m] = msg[m] \/ Rank(msg'[m]) >= Rank(msg[m])
    <3>1. msg' = [msg EXCEPT ![k] = LaterStatus(msg[k], x)]
      BY <2>6 DEF Receipt
    <3>2. msg'[m] = IF k = m THEN LaterStatus(msg[m], x) ELSE msg[m]
      BY <2>0, <3>1 DEF TypeOK
    <3> QED BY <3>2, ReceiptForward
  <2>7. CASE \/ \E p \in Procs : ClaimHeld(p) \/ Crash(p)
             \/ \E k \in Messages : Age(k)
             \/ \E k \in Messages, x \in {"GRANTED", "REVOKED"} : SayConsent(Purpose(k), x)
             \/ MoveWindow \/ Nightfall \/ Morning \/ UNCHANGED vars
    BY <2>7 DEF ClaimHeld, Crash, Age, SayConsent, MoveWindow, Nightfall, Morning, messageVars, vars
  <2> QED BY <1>1, <2>3, <2>4, <2>5, <2>6, <2>7 DEF Next, DrainStep
<1>2. GateInv /\ OnceInv /\ [Next]_vars => [Forward]_vars
  BY <1>1
<1> QED BY <1>2, OnceKept, PTL DEF Spec, ReceiptsMoveForward
-----------------------------------------------------------------------------
HIDE AgentConstants

(***************************************************************************)
(* Inbound.  A message is routed at most once because its row outlives the *)
(* delivery that wrote it; what that delivery still owes and what it has   *)
(* begun make up the follow-ups, and both were derived from the link the   *)
(* thread has had since it was opened.                                     *)
(***************************************************************************)

HookAt == {"idle", "routing", "writing", "owing"}
Duties == {"ACKNOWLEDGE_OPT_OUT", "ACKNOWLEDGE_OPT_IN", "HUMAN_HANDOFF_REQUESTED", "IDENTIFY_UNKNOWN_NUMBER",
           "INTERACTIVE_REPLY", "CONVERSATION", "revoked", "named"}

InboundTypes ==
  /\ says \in [Texts -> Says] /\ known \in BOOLEAN
  /\ thread \in [open : BOOLEAN, linked : BOOLEAN, unread : Nat, override : BOOLEAN]
  /\ rows \in [Texts -> {0, 1}] /\ register \in [Texts -> {"none", "GRANTED", "REVOKED"}]
  /\ hook \in [Hooks -> [at : HookAt, text : Texts \cup {0}, opening : BOOLEAN, linked : BOOLEAN,
                         owed : Seq(Duties)]]
  /\ acted \in [Texts -> Seq(Duties)] /\ answered \subseteq Texts /\ acked \subseteq Texts
  /\ hookFaults \in Nat

\* What has been begun and what is owed, between them the follow-ups: the second
\* half of a reply or of a hand-off comes in front of the rest.
Underway(f, a, o) ==
  \/ a = <<>> /\ o = f
  \/ a = f /\ o = <<>>
  \/ a = f /\ f = <<"INTERACTIVE_REPLY">> /\ o = <<"revoked">>
  \/ a = f /\ f = <<"HUMAN_HANDOFF_REQUESTED">> /\ o = <<"named">>
  \/ /\ f = <<"HUMAN_HANDOFF_REQUESTED", "IDENTIFY_UNKNOWN_NUMBER">>
     /\ a = <<"HUMAN_HANDOFF_REQUESTED">>
     /\ \/ o = <<"IDENTIFY_UNKNOWN_NUMBER">> \/ o = <<"named", "IDENTIFY_UNKNOWN_NUMBER">>

\* What has been begun of the follow-ups, whether anybody still owes the rest.
Begun(f, a) ==
  \/ a = <<>> \/ a = f
  \/ /\ f = <<"HUMAN_HANDOFF_REQUESTED", "IDENTIFY_UNKNOWN_NUMBER">>
     /\ a = <<"HUMAN_HANDOFF_REQUESTED">>

HookHolds(h) ==
  /\ hook[h].at = "idle" <=> hook[h] = NoHook
  /\ hook[h].at # "idle" => hook[h].text \in Texts
  /\ hook[h].at = "writing" /\ ~hook[h].opening => thread.open /\ (hook[h].linked <=> thread.linked)
  /\ hook[h].at = "owing" =>
       /\ rows[hook[h].text] = 1 /\ (hook[h].linked <=> thread.linked)
       /\ Underway(FollowUps(says[hook[h].text], thread.linked), acted[hook[h].text], hook[h].owed)
       /\ hook[h].owed = <<"revoked">> => register[hook[h].text] = "REVOKED"
       /\ hook[h].owed # <<>> /\ Head(hook[h].owed) = "named" => thread.override

TextHolds(m) ==
  /\ rows[m] = 0 => acted[m] = <<>> /\ m \notin acked
  /\ rows[m] = 1 => /\ thread.open /\ Begun(FollowUps(says[m], thread.linked), acted[m])
                    /\ says[m] = "OPT_OUT" /\ thread.linked => register[m] = "REVOKED"
  /\ m \in acked /\ thread.linked => register[m] = "REVOKED"

OneOwes == \A h, g \in Hooks :
  hook[h].at = "owing" /\ hook[g].at = "owing" /\ hook[h].text = hook[g].text => h = g

Kept == {m \in Texts : rows[m] = 1}
LostTexts == {m \in answered : rows[m] = 0}
Openers == {h \in Hooks : hook[h].at = "writing" /\ hook[h].opening}

ThreadHolds ==
  /\ InboundTypes /\ OneOwes /\ PromiseIsKept
  /\ \A h \in Hooks : HookHolds(h)
  /\ \A m \in Texts : TextHolds(m)
  /\ thread.unread = Cardinality(Kept)

\* A message is lost to a fault, or beside the one that opened the thread: only
\* who had found no thread can still lose one, and one of those did not.
LossesHold ==
  IF thread.open THEN Cardinality(LostTexts) + Cardinality(Openers) < Cardinality(Hooks) + hookFaults
  ELSE Cardinality(LostTexts) <= hookFaults

InboundInv == ThreadHolds /\ LossesHold
-----------------------------------------------------------------------------
\* Tuples of at most two, as the follow-ups are.
LEMMA ShortTuples ==
  ASSUME NEW a, NEW b
  PROVE  /\ Head(<<a>>) = a /\ Tail(<<a>>) = <<>> /\ Head(<<a, b>>) = a /\ Tail(<<a, b>>) = <<b>>
         /\ <<a>> \o <<>> = <<a>> /\ <<a>> \o <<b>> = <<a, b>>
         /\ <<>> \o <<a>> = <<a>> /\ Append(<<>>, a) = <<a>> /\ Append(<<a>>, b) = <<a, b>>
         /\ <<a>> # <<>> /\ <<a, b>> # <<>> /\ \A c : <<a, b>> # <<c>>
<1>1. /\ Head(<<a>>) = a /\ Tail(<<a>>) = <<>> /\ Head(<<a, b>>) = a /\ Tail(<<a, b>>) = <<b>>
      /\ <<>> \o <<a>> = <<a>>
  OBVIOUS
<1>2. /\ <<a>> \in Seq({a, b}) /\ <<b>> \in Seq({a, b}) /\ <<a, b>> \in Seq({a, b})
      /\ Len(<<a>>) = 1 /\ Len(<<b>>) = 1 /\ Len(<<a, b>>) = 2
  OBVIOUS
<1>3. <<a>> \o <<>> = <<a>> BY <1>2, ConcatEmptySeq
<1>4. <<a>> \o <<b>> = <<a, b>>
  <2> DEFINE s == <<a>> \o <<b>>
  <2>1. /\ s \in Seq({a, b}) /\ Len(s) = 2
        /\ \A i \in 1 .. 2 : s[i] = IF i <= 1 THEN <<a>>[i] ELSE <<b>>[i - 1]
    BY <1>2, ConcatProperties
  <2>2. \A i \in 1 .. 2 : s[i] = <<a, b>>[i] BY <2>1
  <2> HIDE DEF s
  <2>3. s = <<a, b>> BY <1>2, <2>1, <2>2, SeqEqual
  <2> QED BY <2>3 DEF s
<1>5. Append(<<>>, a) = <<>> \o <<a>> BY AppendIsConcat, EmptySeq
<1>6. Append(<<a>>, b) = <<a>> \o <<b>> BY <1>2, AppendIsConcat
<1>7. <<a>> # <<>> /\ <<a, b>> # <<>> OBVIOUS
<1>8. ASSUME NEW c PROVE <<a, b>> # <<c>> OBVIOUS
<1> QED BY <1>1, <1>3, <1>4, <1>5, <1>6, <1>7, <1>8

LEMMA FollowUpsAre ==
  ASSUME NEW said, NEW l
  PROVE  LET f == FollowUps(said, l) IN
         /\ said = "OPT_OUT" => f = <<"ACKNOWLEDGE_OPT_OUT">>
         /\ said # "OPT_OUT" =>
              \/ f = <<"ACKNOWLEDGE_OPT_IN">> \/ f = <<"IDENTIFY_UNKNOWN_NUMBER">>
              \/ f = <<"CONVERSATION">> \/ f = <<"INTERACTIVE_REPLY">>
              \/ f = <<"HUMAN_HANDOFF_REQUESTED">>
              \/ f = <<"HUMAN_HANDOFF_REQUESTED", "IDENTIFY_UNKNOWN_NUMBER">>
<1>1. /\ <<>> \o <<"IDENTIFY_UNKNOWN_NUMBER">> = <<"IDENTIFY_UNKNOWN_NUMBER">>
      /\ <<>> \o <<"INTERACTIVE_REPLY">> = <<"INTERACTIVE_REPLY">>
      /\ <<>> \o <<"CONVERSATION">> = <<"CONVERSATION">>
      /\ <<"HUMAN_HANDOFF_REQUESTED">> \o <<>> = <<"HUMAN_HANDOFF_REQUESTED">>
      /\ <<"HUMAN_HANDOFF_REQUESTED">> \o <<"IDENTIFY_UNKNOWN_NUMBER">>
           = <<"HUMAN_HANDOFF_REQUESTED", "IDENTIFY_UNKNOWN_NUMBER">>
  BY ShortTuples
<1> QED BY <1>1, Zenon DEF FollowUps

LEMMA FollowUpsAreShort ==
  ASSUME NEW said, NEW l
  PROVE  LET f == FollowUps(said, l) IN
         /\ f \in Seq(Duties) /\ f # <<"revoked">>
         /\ f # <<>> => Head(f) # "named"
<1> DEFINE Plain(f) == f \in Seq(Duties) /\ f # <<"revoked">> /\ Head(f) # "named"
<1>1. ASSUME NEW k \in Duties, k # "revoked", k # "named" PROVE Plain(<<k>>)
  <2>1. <<k>> \in Seq(Duties) /\ Head(<<k>>) = k OBVIOUS
  <2>2. <<k>> # <<"revoked">> BY <1>1
  <2> QED BY <1>1, <2>1, <2>2
<1>2. Plain(<<"HUMAN_HANDOFF_REQUESTED", "IDENTIFY_UNKNOWN_NUMBER">>)
  <2>1. Head(<<"HUMAN_HANDOFF_REQUESTED", "IDENTIFY_UNKNOWN_NUMBER">>) = "HUMAN_HANDOFF_REQUESTED"
    OBVIOUS
  <2>2. <<"HUMAN_HANDOFF_REQUESTED", "IDENTIFY_UNKNOWN_NUMBER">> # <<"revoked">> BY ShortTuples
  <2>3. <<"HUMAN_HANDOFF_REQUESTED", "IDENTIFY_UNKNOWN_NUMBER">> \in Seq(Duties)
    BY DEF Duties
  <2> QED BY <2>1, <2>2, <2>3
<1>3. /\ Plain(<<"ACKNOWLEDGE_OPT_OUT">>) /\ Plain(<<"ACKNOWLEDGE_OPT_IN">>)
      /\ Plain(<<"IDENTIFY_UNKNOWN_NUMBER">>) /\ Plain(<<"CONVERSATION">>)
      /\ Plain(<<"INTERACTIVE_REPLY">>) /\ Plain(<<"HUMAN_HANDOFF_REQUESTED">>)
  BY <1>1 DEF Duties
<1> HIDE DEF Plain
<1>4. Plain(FollowUps(said, l))
  <2> DEFINE f == FollowUps(said, l)
  <2>1. \/ f = <<"ACKNOWLEDGE_OPT_OUT">> \/ f = <<"ACKNOWLEDGE_OPT_IN">> \/ f = <<"IDENTIFY_UNKNOWN_NUMBER">>
        \/ f = <<"CONVERSATION">> \/ f = <<"INTERACTIVE_REPLY">>
        \/ f = <<"HUMAN_HANDOFF_REQUESTED">>
        \/ f = <<"HUMAN_HANDOFF_REQUESTED", "IDENTIFY_UNKNOWN_NUMBER">>
    BY FollowUpsAre, Zenon
  <2> HIDE DEF f
  <2>2. Plain(f) BY <1>2, <1>3, <2>1, Zenon
  <2> QED BY <2>2 DEF f
<1> QED BY <1>4 DEF Plain

LEMMA BegunIsPrefix ==
  ASSUME NEW said, NEW l, NEW a, Begun(FollowUps(said, l), a) PROVE IsPrefix(a, FollowUps(said, l))
<1> DEFINE f == FollowUps(said, l)
<1>1. f \in Seq(Duties) /\ Len(f) \in Nat BY FollowUpsAreShort, LenProperties
<1> HIDE DEF f
<1>2. IsPrefix(<<>>, f) BY <1>1, EmptySeq, SubSeqEmpty DEF IsPrefix
<1>3. IsPrefix(f, f)
  <2>1. Len(f) <= Len(f) BY <1>1
  <2> QED BY <2>1, Zenon DEF IsPrefix
<1>4. ASSUME NEW hh, NEW iu, hh = <<"HUMAN_HANDOFF_REQUESTED">>, iu = <<"IDENTIFY_UNKNOWN_NUMBER">>
      PROVE  IsPrefix(hh, hh \o iu) /\ hh \o iu = <<"HUMAN_HANDOFF_REQUESTED", "IDENTIFY_UNKNOWN_NUMBER">>
  <2>1. /\ hh \in Seq(Duties) /\ iu \in Seq(Duties) /\ Len(hh) = 1 /\ Len(iu) = 1
    BY <1>4 DEF Duties
  <2>5. hh \o iu = <<"HUMAN_HANDOFF_REQUESTED", "IDENTIFY_UNKNOWN_NUMBER">> BY <1>4, ShortTuples
  <2>6. SubSeq(hh \o iu, 1, 1) = SubSeq(hh, 1, 1) BY <2>1, SubSeqOfConcat1
  <2>2. Len(hh \o iu) = Len(hh) + Len(iu) BY <2>1, ConcatProperties
  <2>3. Len(hh) <= Len(hh \o iu) BY <2>1, <2>2
  <2>4. SubSeq(hh \o iu, 1, Len(hh)) = SubSeq(hh, 1, Len(hh)) BY <2>1, <2>6
  <2> QED BY <2>3, <2>4, <2>5, Zenon DEF IsPrefix
<1>5. IsPrefix(<<"HUMAN_HANDOFF_REQUESTED">>, <<"HUMAN_HANDOFF_REQUESTED", "IDENTIFY_UNKNOWN_NUMBER">>)
  BY <1>4, Zenon
<1> QED BY <1>2, <1>3, <1>5, Zenon DEF Begun, f

\* What is underway has begun.
LEMMA UnderwayHasBegun == ASSUME NEW f, NEW a, NEW o, Underway(f, a, o) PROVE Begun(f, a)
BY DEF Underway, Begun

LEMMA InboundIsStrong == ThreadHolds /\ LossesHold => InboundIsSound
<1> SUFFICES ASSUME ThreadHolds, LossesHold PROVE InboundIsSound
  OBVIOUS
<1> USE DEF ThreadHolds
<1>1. RoutedOnce
  <2>1. ASSUME NEW m \in Texts
        PROVE  /\ rows[m] <= 1
               /\ IsPrefix(acted[m], IF rows[m] = 0 THEN <<>> ELSE FollowUps(says[m], thread.linked))
    <3>1. CASE rows[m] = 0
      <4>1. acted[m] = <<>> BY <3>1 DEF TextHolds
      <4> QED BY <4>1, <3>1 DEF IsPrefix
    <3>2. CASE rows[m] = 1
      BY <3>2, BegunIsPrefix DEF TextHolds
    <3> QED BY <3>1, <3>2 DEF InboundTypes
  <2>2. Kept = {m \in Texts : rows[m] = 1} BY DEF Kept
  <2> QED BY <2>1, <2>2, Zenon DEF RoutedOnce
<1>2. AckIsTrue BY DEF AckIsTrue, TextHolds, InboundTypes
<1>3. LossesAreBounded
  <2>1. IsFiniteSet(LostTexts) /\ IsFiniteSet(Openers)
    BY InboundAssumption, FS_Subset DEF LostTexts, Openers, InboundTypes
  <2>2. Cardinality(LostTexts) \in Nat /\ Cardinality(Openers) \in Nat /\ Cardinality(Hooks) \in Nat \ {0}
    BY <2>1, InboundAssumption, FS_CardinalityType, FS_EmptySet
  <2>3. Cardinality(LostTexts) < Cardinality(Hooks) + hookFaults
    BY <2>2 DEF LossesHold, InboundTypes
  <2> QED BY <2>3 DEF LossesAreBounded, LostTexts
<1> QED BY <1>1, <1>2, <1>3 DEF InboundIsSound
-----------------------------------------------------------------------------
\* A delivery that comes to owe nothing, or has not got that far, changes nothing
\* of what the thread holds.
LEMMA HookMoves ==
  ASSUME ThreadHolds, NEW h \in Hooks,
         NEW k \in [at : HookAt, text : Texts \cup {0}, opening : BOOLEAN, linked : BOOLEAN,
                    owed : Seq(Duties)],
         Hooked(h, k), k.at # "owing", k.at = "idle" <=> k = NoHook, k.at # "idle" => k.text \in Texts,
         k.at = "writing" /\ ~k.opening => thread.open /\ (k.linked <=> thread.linked),
         answered' \subseteq Texts, known' \in BOOLEAN, hookFaults' \in Nat,
         UNCHANGED <<says, thread, rows, register, repliesVars>>
  PROVE  ThreadHolds'
<1> USE DEF ThreadHolds
<1>1. UNCHANGED <<says, thread, rows, register, acted, acked, handed>> BY DEF repliesVars
<1>2. hook'[h] = k /\ \A g \in Hooks \ {h} : hook'[g] = hook[g]
  BY DEF Hooked, InboundTypes
<1>3. InboundTypes' BY <1>1 DEF InboundTypes, Hooked
<1>4. OneOwes' BY <1>2 DEF OneOwes
<1>6. ASSUME NEW g \in Hooks PROVE HookHolds(g)'
  <2>1. CASE g = h BY <2>1, <1>2, <1>1 DEF HookHolds
  <2>2. CASE g # h
    <3>1. HookHolds(g) /\ hook'[g] = hook[g] BY <2>2, <1>2
    <3> QED BY <3>1, <1>1 DEF HookHolds
  <2> QED BY <2>1, <2>2
<1>7. ASSUME NEW m \in Texts PROVE TextHolds(m)' BY <1>1 DEF TextHolds
<1>8. PromiseIsKept' BY <1>1 DEF PromiseIsKept
<1>9. thread'.unread = Cardinality(Kept)' BY <1>1 DEF Kept
<1> QED BY <1>3, <1>4, <1>6, <1>7, <1>8, <1>9

\* What a follow-up does: its own delivery, which owes o then, and its own message.
FollowUpDone(h, m, o) ==
  /\ hook[h].at = "owing" /\ m = hook[h].text /\ Hooked(h, [hook[h] EXCEPT !.owed = o])
  /\ UNCHANGED <<says, known, rows, answered, hookFaults>>
  /\ thread' \in [open : BOOLEAN, linked : BOOLEAN, unread : Nat, override : BOOLEAN]
  /\ thread'.open = thread.open /\ thread'.linked = thread.linked /\ thread'.unread = thread.unread
  /\ thread.override => thread'.override
  /\ register' \in [Texts -> {"none", "GRANTED", "REVOKED"}]
  /\ \A n \in Texts : register'[n] = register[n] \/ register'[n] = "REVOKED"
  /\ acted' \in [Texts -> Seq(Duties)] /\ \A n \in Texts \ {m} : acted'[n] = acted[n]
  /\ acked' \subseteq acked \cup {m} /\ (m \in acked' /\ thread.linked => register'[m] = "REVOKED")
  /\ handed' # {} => thread'.override
  /\ Underway(FollowUps(says[m], thread.linked), acted'[m], o)
  /\ o = <<"revoked">> => register'[m] = "REVOKED"
  /\ o # <<>> /\ Head(o) = "named" => thread'.override

LEMMA FollowUpKeeps ==
  ASSUME ThreadHolds, NEW h \in Hooks, NEW m \in Texts, NEW o \in Seq(Duties), FollowUpDone(h, m, o)
  PROVE  ThreadHolds'
<1> USE DEF FollowUpDone
<1>0. PromiseIsKept' BY DEF PromiseIsKept
<1> USE DEF ThreadHolds
<1>1. /\ thread'.open = thread.open /\ thread'.linked = thread.linked /\ thread'.unread = thread.unread
      /\ thread' \in [open : BOOLEAN, linked : BOOLEAN, unread : Nat, override : BOOLEAN]
  BY DEF InboundTypes
<1>2. /\ hook'[h].at = "owing" /\ hook'[h].text = m /\ hook'[h].owed = o
      /\ hook'[h].linked = hook[h].linked /\ hook'[h].opening = hook[h].opening
      /\ \A g \in Hooks \ {h} : hook'[g] = hook[g]
      /\ hook' \in [Hooks -> [at : HookAt, text : Texts \cup {0}, opening : BOOLEAN, linked : BOOLEAN,
                         owed : Seq(Duties)]]
  <2>1. PICK k : k = [hook[h] EXCEPT !.owed = o] OBVIOUS
  <2>2. /\ k \in [at : HookAt, text : Texts \cup {0}, opening : BOOLEAN, linked : BOOLEAN, owed : Seq(Duties)]
        /\ k.at = "owing" /\ k.text = m /\ k.owed = o /\ k.linked = hook[h].linked /\ k.opening = hook[h].opening
    <3>1. hook[h] \in [at : HookAt, text : Texts \cup {0}, opening : BOOLEAN, linked : BOOLEAN, owed : Seq(Duties)]
          /\ hook[h].at = "owing" /\ hook[h].text = m
      BY DEF InboundTypes
    <3> HIDE DEF FollowUpDone, ThreadHolds
    <3> QED BY <2>1, <3>1
  <2>3. hook' = [hook EXCEPT ![h] = k] BY <2>1 DEF Hooked
  <2>4. hook \in [Hooks -> [at : HookAt, text : Texts \cup {0}, opening : BOOLEAN, linked : BOOLEAN,
                           owed : Seq(Duties)]]
    BY DEF InboundTypes
  <2> HIDE DEF FollowUpDone
  <2> QED BY <2>2, <2>3, <2>4
<1>3. InboundTypes' BY <1>1, <1>2 DEF InboundTypes
<1>4. OneOwes'
  <2>1. OneOwes /\ hook[h].at = "owing" /\ hook[h].text = m OBVIOUS
  <2> HIDE DEF FollowUpDone, ThreadHolds
  <2>2. \A g \in Hooks : hook'[g].at = hook[g].at /\ hook'[g].text = hook[g].text BY <1>2, <2>1
  <2> QED BY <2>1, <2>2 DEF OneOwes
<1>6. ASSUME NEW g \in Hooks PROVE HookHolds(g)'
  <2>1. CASE g = h
    <3>1. hook'[h] # NoHook /\ hook'[h].at # "idle" /\ hook'[h].at # "writing" /\ rows'[m] = 1
          /\ (hook'[h].linked <=> thread'.linked)
      BY <1>1, <1>2 DEF HookHolds, NoHook
    <3>2. Underway(FollowUps(says'[m], thread'.linked), acted'[m], o) BY <1>1
    <3> QED BY <2>1, <1>2, <3>1, <3>2 DEF HookHolds
  <2>2. CASE g # h
    <3>1. HookHolds(g) /\ hook'[g] = hook[g] BY <2>2, <1>2
    <3>2. CASE hook[g].at = "owing"
      <4>1. hook[g].text \in Texts \ {m} BY <3>1, <3>2, <2>2 DEF HookHolds, OneOwes
      <4>2. acted'[hook[g].text] = acted[hook[g].text] BY <4>1
      <4>3. hook[g].owed = <<"revoked">> => register'[hook[g].text] = "REVOKED"
        BY <3>1, <3>2, <4>1 DEF HookHolds
      <4> QED BY <3>1, <3>2, <4>2, <4>3, <1>1 DEF HookHolds
    <3>3. CASE hook[g].at # "owing" BY <3>1, <3>3, <1>1 DEF HookHolds
    <3> QED BY <3>2, <3>3
  <2> QED BY <2>1, <2>2
<1>7. ASSUME NEW n \in Texts PROVE TextHolds(n)'
  <2>1. TextHolds(n) OBVIOUS
  <2>3. rows[n] = 1 /\ says[n] = "OPT_OUT" /\ thread.linked => register'[n] = "REVOKED"
    BY <2>1 DEF TextHolds
  <2>4. CASE n = m
    <3>1. rows[m] = 1 BY DEF HookHolds
    <3>2. Begun(FollowUps(says[m], thread.linked), acted'[m]) BY UnderwayHasBegun
    <3> QED BY <2>1, <2>3, <2>4, <3>1, <3>2, <1>1 DEF TextHolds
  <2>5. CASE n # m
    <3>1. acted'[n] = acted[n] /\ (n \in acked' => n \in acked) BY <2>5
    <3>2. n \in acked' /\ thread.linked => register'[n] = "REVOKED" BY <3>1, <2>1 DEF TextHolds
    <3> QED BY <2>1, <2>3, <3>1, <3>2, <1>1 DEF TextHolds
  <2> QED BY <2>4, <2>5
<1>8. thread'.unread = Cardinality(Kept)' BY <1>1 DEF Kept
<1> QED BY <1>0, <1>3, <1>4, <1>6, <1>7, <1>8

\* A follow-up loses no message.
LEMMA FollowUpLoses ==
  ASSUME LossesHold, NEW h \in Hooks, NEW o, hook \in [Hooks -> [at : HookAt, text : Texts \cup {0},
           opening : BOOLEAN, linked : BOOLEAN, owed : Seq(Duties)]],
         Hooked(h, [hook[h] EXCEPT !.owed = o]), UNCHANGED <<rows, answered, hookFaults>>,
         thread'.open = thread.open
  PROVE  LossesHold'
<1>1. \A g \in Hooks : hook'[g].at = hook[g].at /\ hook'[g].opening = hook[g].opening
  BY DEF Hooked
<1>2. Openers' = Openers BY <1>1 DEF Openers
<1>3. LostTexts' = LostTexts BY DEF LostTexts
<1> QED BY <1>2, <1>3 DEF LossesHold
-----------------------------------------------------------------------------
\* What is owed next, and what is left when it has been seen to.
LEMMA NextOwed ==
  ASSUME NEW said, NEW l, NEW a, NEW o, Underway(FollowUps(said, l), a, o), o # <<>>
  PROVE  LET f == FollowUps(said, l) IN
         /\ Tail(o) = <<>> \/ Tail(o) = <<"IDENTIFY_UNKNOWN_NUMBER">>
         /\ Head(o) = "revoked" => Underway(f, a, Tail(o)) /\ o = <<"revoked">>
         /\ Head(o) = "named" => Underway(f, a, Tail(o))
         /\ Head(o) = "ACKNOWLEDGE_OPT_OUT" => said = "OPT_OUT"
         /\ Head(o) \notin {"revoked", "named"} => Underway(f, Append(a, Head(o)), Tail(o))
         /\ Head(o) = "INTERACTIVE_REPLY" => Underway(f, Append(a, Head(o)), <<"revoked">> \o Tail(o))
         /\ Head(o) = "HUMAN_HANDOFF_REQUESTED" =>
              Underway(f, Append(a, Head(o)), <<"named">> \o Tail(o))
<1> DEFINE f == FollowUps(said, l)
           HH == "HUMAN_HANDOFF_REQUESTED"
           IU == "IDENTIFY_UNKNOWN_NUMBER"
<1>1. CASE \E k : f = <<k>>
  <2>1. PICK k : f = <<k>> BY <1>1
  <2>2. k \in {"ACKNOWLEDGE_OPT_OUT", "ACKNOWLEDGE_OPT_IN", IU, "CONVERSATION", "INTERACTIVE_REPLY", HH}
        /\ (k = "ACKNOWLEDGE_OPT_OUT" => said = "OPT_OUT")
    BY <2>1, FollowUpsAre
  <2> HIDE DEF f
  <2>3. \/ a = <<>> /\ o = <<k>>
        \/ a = <<k>> /\ k = "INTERACTIVE_REPLY" /\ o = <<"revoked">>
        \/ a = <<k>> /\ k = HH /\ o = <<"named">>
    BY <2>1 DEF Underway, f
  <2>t. Tail(<<k>>) = <<>> /\ Tail(<<"revoked">>) = <<>> /\ Tail(<<"named">>) = <<>>
        /\ Head(<<k>>) = k /\ Head(<<"revoked">>) = "revoked" /\ Head(<<"named">>) = "named"
        /\ Append(<<>>, k) = <<k>>
    BY ShortTuples
  <2>4. Tail(o) = <<>> BY <2>3, <2>t, Zenon
  <2>5. CASE a = <<>> /\ o = <<k>>
    <3>1. Head(o) = k /\ Append(a, k) = <<k>> BY <2>5, <2>t, Zenon
    <3>2. Underway(f, <<k>>, <<>>) BY <2>1 DEF Underway
    <3>3. k = "INTERACTIVE_REPLY" => Underway(f, <<k>>, <<"revoked">>) BY <2>1 DEF Underway
    <3>4. k = HH => Underway(f, <<k>>, <<"named">>) BY <2>1 DEF Underway
    <3>5. <<"revoked">> \o <<>> = <<"revoked">> /\ <<"named">> \o <<>> = <<"named">> BY ShortTuples
    <3> QED BY <2>2, <2>4, <3>1, <3>2, <3>3, <3>4, <3>5 DEF f
  <2>6. CASE a = <<k>> /\ k = "INTERACTIVE_REPLY" /\ o = <<"revoked">>
    <3>1. Head(o) = "revoked" /\ Underway(f, a, <<>>) BY <2>6, <2>1, <2>t, Zenon DEF Underway
    <3> QED BY <2>4, <2>6, <3>1 DEF f
  <2>7. CASE a = <<k>> /\ k = HH /\ o = <<"named">>
    <3>1. Head(o) = "named" /\ Underway(f, a, <<>>) BY <2>7, <2>1, <2>t, Zenon DEF Underway
    <3> QED BY <2>4, <2>7, <3>1 DEF f
  <2> QED BY <2>3, <2>5, <2>6, <2>7
<1>2. CASE f = <<HH, IU>>
  <2> HIDE DEF f
  <2>1. \A c : f # <<c>> BY <1>2
  <2>2. \/ a = <<>> /\ o = <<HH, IU>>
        \/ a = <<HH>> /\ o = <<IU>>
        \/ a = <<HH>> /\ o = <<"named", IU>>
    BY <1>2, <2>1 DEF Underway, f
  <2>t. /\ Head(<<HH, IU>>) = HH /\ Tail(<<HH, IU>>) = <<IU>> /\ Append(<<>>, HH) = <<HH>>
        /\ <<"named">> \o <<IU>> = <<"named", IU>> /\ Head(<<IU>>) = IU /\ Tail(<<IU>>) = <<>>
        /\ Append(<<HH>>, IU) = <<HH, IU>>
        /\ Head(<<"named", IU>>) = "named" /\ Tail(<<"named", IU>>) = <<IU>>
    BY ShortTuples
  <2>3. CASE a = <<>> /\ o = <<HH, IU>>
    <3>1. Head(o) = HH /\ Tail(o) = <<IU>> /\ Append(a, HH) = <<HH>> /\ <<"named">> \o <<IU>> = <<"named", IU>>
      BY <2>3, <2>t, Zenon
    <3>2. Underway(f, <<HH>>, <<IU>>) /\ Underway(f, <<HH>>, <<"named", IU>>) BY <1>2 DEF Underway
    <3> QED BY <3>1, <3>2 DEF f
  <2>4. CASE a = <<HH>> /\ o = <<IU>>
    <3>1. Head(o) = IU /\ Tail(o) = <<>> /\ Append(a, IU) = <<HH, IU>> BY <2>4, <2>t, Zenon
    <3>2. Underway(f, <<HH, IU>>, <<>>) BY <1>2 DEF Underway
    <3> QED BY <3>1, <3>2 DEF f
  <2>5. CASE a = <<HH>> /\ o = <<"named", IU>>
    <3>1. Head(o) = "named" /\ Tail(o) = <<IU>> BY <2>5, <2>t, Zenon
    <3>2. Underway(f, <<HH>>, <<IU>>) BY <1>2 DEF Underway
    <3> QED BY <2>5, <3>1, <3>2 DEF f
  <2> QED BY <2>2, <2>3, <2>4, <2>5
<1> QED BY <1>1, <1>2, FollowUpsAre
-----------------------------------------------------------------------------
\* One follow-up of the delivery h: what it owes afterwards is o.
LEMMA FollowUpStep ==
  ASSUME ThreadHolds, LossesHold, NEW h \in Hooks,
         \/ AcknowledgeOptOut(h) \/ ApplyConsentDecision(h) \/ ConfirmRevoked(h)
         \/ HandOff(h) \/ NamePerson(h) \/ PassOn(h)
  PROVE  ThreadHolds' /\ LossesHold'
<1> USE DEF ThreadHolds
<1> DEFINE m == hook[h].text
           f == FollowUps(says[m], thread.linked)
           owed == hook[h].owed
<1>1. hook[h].at = "owing" /\ owed # <<>> /\ owed \in Seq(Duties)
  BY DEF AcknowledgeOptOut, ApplyConsentDecision, ConfirmRevoked, HandOff, NamePerson, PassOn,
         OwedNext, InboundTypes
<1>2. m \in Texts /\ Underway(f, acted[m], owed) /\ acted[m] \in Seq(Duties) /\ rows[m] = 1
      /\ (owed = <<"revoked">> => register[m] = "REVOKED")
      /\ (Head(owed) = "named" => thread.override)
      /\ (hook[h].linked <=> thread.linked)
  BY <1>1 DEF HookHolds, InboundTypes
<1> DEFINE rest == Tail(owed)
           more == Append(acted[m], Head(owed))
<1>3. /\ rest = <<>> \/ rest = <<"IDENTIFY_UNKNOWN_NUMBER">>
      /\ Head(owed) = "revoked" => Underway(f, acted[m], rest) /\ owed = <<"revoked">>
      /\ Head(owed) = "named" => Underway(f, acted[m], rest)
      /\ Head(owed) = "ACKNOWLEDGE_OPT_OUT" => says[m] = "OPT_OUT"
      /\ Head(owed) \notin {"revoked", "named"} => Underway(f, more, rest)
      /\ Head(owed) = "INTERACTIVE_REPLY" => Underway(f, more, <<"revoked">> \o rest)
      /\ Head(owed) = "HUMAN_HANDOFF_REQUESTED" => Underway(f, more, <<"named">> \o rest)
  BY <1>1, <1>2, NextOwed
<1>4. /\ rest # <<"revoked">> /\ (rest # <<>> => Head(rest) # "named")
      /\ <<"revoked">> \o rest \in {<<"revoked">>, <<"revoked", "IDENTIFY_UNKNOWN_NUMBER">>}
      /\ <<"named">> \o rest \in {<<"named">>, <<"named", "IDENTIFY_UNKNOWN_NUMBER">>}
  <2>1. /\ <<"revoked">> \o <<>> = <<"revoked">> /\ <<"named">> \o <<>> = <<"named">>
        /\ <<"revoked">> \o <<"IDENTIFY_UNKNOWN_NUMBER">> = <<"revoked", "IDENTIFY_UNKNOWN_NUMBER">>
        /\ <<"named">> \o <<"IDENTIFY_UNKNOWN_NUMBER">> = <<"named", "IDENTIFY_UNKNOWN_NUMBER">>
    BY ShortTuples
  <2>2. <<>> # <<"revoked">> /\ <<"IDENTIFY_UNKNOWN_NUMBER">> # <<"revoked">>
        /\ Head(<<"IDENTIFY_UNKNOWN_NUMBER">>) # "named"
    OBVIOUS
  <2> HIDE DEF rest
  <2> QED BY <1>3, <2>1, <2>2, Zenon
<1>5. /\ rest \in Seq(Duties) /\ more \in Seq(Duties)
      /\ <<"revoked">> \o rest \in Seq(Duties) /\ <<"named">> \o rest \in Seq(Duties)
  <2>1. Head(owed) \in Duties /\ rest \in Seq(Duties) BY <1>1, HeadTailProperties
  <2>2. more \in Seq(Duties) BY <1>2, <2>1, AppendProperties
  <2>3. <<"revoked">> \in Seq(Duties) /\ <<"named">> \in Seq(Duties) BY DEF Duties
  <2> HIDE DEF rest, more
  <2> QED BY <2>1, <2>2, <2>3, ConcatProperties
<1>6. Head(<<"revoked">> \o rest) # "named" /\ <<"named">> \o rest # <<"revoked">>
  <2>1. Head(<<"revoked">>) # "named" /\ Head(<<"revoked", "IDENTIFY_UNKNOWN_NUMBER">>) # "named"
        /\ <<"named">> # <<"revoked">> /\ <<"named", "IDENTIFY_UNKNOWN_NUMBER">> # <<"revoked">>
    OBVIOUS
  <2> HIDE DEF rest
  <2> QED BY <1>4, <2>1
<1>7. says[m] = "OPT_OUT" /\ thread.linked => register[m] = "REVOKED" BY <1>2 DEF TextHolds
<1>t. /\ thread \in [open : BOOLEAN, linked : BOOLEAN, unread : Nat, override : BOOLEAN]
      /\ register \in [Texts -> {"none", "GRANTED", "REVOKED"}] /\ acted \in [Texts -> Seq(Duties)]
      /\ hook \in [Hooks -> [at : HookAt, text : Texts \cup {0}, opening : BOOLEAN, linked : BOOLEAN,
                             owed : Seq(Duties)]]
  BY DEF InboundTypes
<1> HIDE DEF rest, more, m, f, owed
<1>9. \/ more \in Seq(Duties) /\ Begins(h) => acted' \in [Texts -> Seq(Duties)] /\ acted'[m] = more
                                              /\ \A n \in Texts \ {m} : acted'[n] = acted[n]
  BY <1>2, <1>t DEF Begins, more, m, owed
<1>a. CASE AcknowledgeOptOut(h)
  <2>1. Hooked(h, [hook[h] EXCEPT !.owed = rest]) /\ Begins(h) /\ acked' = acked \cup {m}
        /\ UNCHANGED <<says, known, thread, rows, register, answered, handed, hookFaults>>
        /\ Head(owed) = "ACKNOWLEDGE_OPT_OUT"
    BY <1>a DEF AcknowledgeOptOut, Attends, OwedNext, threadVars, rest, m, owed
  <2>2. handed' # {} => thread.override BY <2>1 DEF PromiseIsKept
  <2>3. ThreadHolds'
    <3>1. FollowUpDone(h, m, rest)
      BY <2>1, <2>2, <1>1, <1>2, <1>3, <1>4, <1>5, <1>7, <1>9, <1>t DEF FollowUpDone, m, f
    <3> QED BY <3>1, <1>2, <1>5, FollowUpKeeps
  <2> QED BY <2>1, <2>3, <1>t, FollowUpLoses
<1>b. CASE ApplyConsentDecision(h)
  <2>1. Hooked(h, [hook[h] EXCEPT !.owed = <<"revoked">> \o rest]) /\ Begins(h)
        /\ register' = [register EXCEPT ![m] = "REVOKED"]
        /\ UNCHANGED <<says, known, thread, rows, answered, acked, handed, hookFaults>>
        /\ Head(owed) = "INTERACTIVE_REPLY"
    BY <1>b DEF ApplyConsentDecision, ThenReplies, OwedNext, threadVars, rest, m, owed
  <2>2. handed' # {} => thread.override BY <2>1 DEF PromiseIsKept
  <2>3. /\ register' \in [Texts -> {"none", "GRANTED", "REVOKED"}] /\ register'[m] = "REVOKED"
        /\ \A n \in Texts : register'[n] = register[n] \/ register'[n] = "REVOKED"
    BY <2>1, <1>2, <1>t
  <2>4. ThreadHolds'
    <3>1. FollowUpDone(h, m, <<"revoked">> \o rest)
      BY <2>1, <2>2, <2>3, <1>1, <1>2, <1>3, <1>5, <1>6, <1>9, <1>t DEF FollowUpDone, m, f
    <3> QED BY <3>1, <1>2, <1>5, FollowUpKeeps
  <2> QED BY <2>1, <2>4, <1>t, FollowUpLoses
<1>c. CASE ConfirmRevoked(h)
  <2>1. Hooked(h, [hook[h] EXCEPT !.owed = rest]) /\ acked' = acked \cup {m}
        /\ UNCHANGED <<says, known, thread, rows, register, answered, acted, handed, hookFaults>>
        /\ Head(owed) = "revoked"
    BY <1>c DEF ConfirmRevoked, Attends, OwedNext, threadVars, rest, m, owed
  <2>2. handed' # {} => thread.override BY <2>1 DEF PromiseIsKept
  <2>3. ThreadHolds'
    <3>1. FollowUpDone(h, m, rest)
      BY <2>1, <2>2, <1>1, <1>2, <1>3, <1>4, <1>5, <1>t DEF FollowUpDone, m, f
    <3> QED BY <3>1, <1>2, <1>5, FollowUpKeeps
  <2> QED BY <2>1, <2>3, <1>t, FollowUpLoses
<1>d. CASE HandOff(h)
  <2>1. /\ \/ Hooked(h, [hook[h] EXCEPT !.owed = rest])
           \/ Hooked(h, [hook[h] EXCEPT !.owed = <<"named">> \o rest])
        /\ Begins(h) /\ thread' = [thread EXCEPT !.override = TRUE]
        /\ UNCHANGED <<says, known, rows, register, answered, acked, handed, hookFaults>>
        /\ Head(owed) = "HUMAN_HANDOFF_REQUESTED"
    BY <1>d DEF HandOff, ThenReplies, Attends, OwedNext, rest, m, owed
  <2>2. /\ thread'.override /\ thread'.open = thread.open /\ thread'.linked = thread.linked
        /\ thread'.unread = thread.unread
        /\ thread' \in [open : BOOLEAN, linked : BOOLEAN, unread : Nat, override : BOOLEAN]
    BY <2>1, <1>t
  <2>4. m \in acked /\ thread.linked => register[m] = "REVOKED" BY <1>2 DEF TextHolds
  <2>5. CASE Hooked(h, [hook[h] EXCEPT !.owed = rest])
    <3>1. ThreadHolds'
      <4>1. FollowUpDone(h, m, rest)
        BY <2>1, <2>2, <2>4, <2>5, <1>1, <1>2, <1>3, <1>4, <1>5, <1>9, <1>t DEF FollowUpDone, m, f
      <4> QED BY <4>1, <1>2, <1>5, FollowUpKeeps
    <3> QED BY <2>1, <2>2, <2>5, <3>1, <1>t, FollowUpLoses
  <2>6. CASE Hooked(h, [hook[h] EXCEPT !.owed = <<"named">> \o rest])
    <3>1. ThreadHolds'
      <4>1. FollowUpDone(h, m, <<"named">> \o rest)
        BY <2>1, <2>2, <2>4, <2>6, <1>1, <1>2, <1>3, <1>5, <1>6, <1>9, <1>t DEF FollowUpDone, m, f
      <4> QED BY <4>1, <1>2, <1>5, FollowUpKeeps
    <3> QED BY <2>1, <2>2, <2>6, <3>1, <1>t, FollowUpLoses
  <2> QED BY <2>1, <2>5, <2>6
<1>e. CASE NamePerson(h)
  <2>1. Hooked(h, [hook[h] EXCEPT !.owed = rest])
        /\ UNCHANGED <<says, known, thread, rows, register, answered, acted, acked, hookFaults>>
        /\ Head(owed) = "named"
    BY <1>e DEF NamePerson, Attends, OwedNext, threadVars, rest, m, owed
  <2>2. handed' # {} => thread.override BY <2>1, <1>2
  <2>3. m \in acked /\ thread.linked => register[m] = "REVOKED" BY <1>2 DEF TextHolds
  <2>4. ThreadHolds'
    <3>1. FollowUpDone(h, m, rest)
      BY <2>1, <2>2, <2>3, <1>1, <1>2, <1>3, <1>4, <1>5, <1>t DEF FollowUpDone, m, f
    <3> QED BY <3>1, <1>2, <1>5, FollowUpKeeps
  <2> QED BY <2>1, <2>4, <1>t, FollowUpLoses
<1>f. CASE PassOn(h)
  <2>1. Hooked(h, [hook[h] EXCEPT !.owed = rest]) /\ Begins(h)
        /\ UNCHANGED <<says, known, thread, rows, register, answered, acked, handed, hookFaults>>
        /\ Head(owed) \notin {"revoked", "named"}
    BY <1>f DEF PassOn, Attends, OwedNext, threadVars, rest, m, owed
  <2>2. handed' # {} => thread.override BY <2>1 DEF PromiseIsKept
  <2>3. m \in acked /\ thread.linked => register[m] = "REVOKED" BY <1>2 DEF TextHolds
  <2>4. ThreadHolds'
    <3>1. FollowUpDone(h, m, rest)
      BY <2>1, <2>2, <2>3, <1>1, <1>2, <1>3, <1>4, <1>5, <1>9, <1>t DEF FollowUpDone, m, f
    <3> QED BY <3>1, <1>2, <1>5, FollowUpKeeps
  <2> QED BY <2>1, <2>4, <1>t, FollowUpLoses
<1> QED BY <1>a, <1>b, <1>c, <1>d, <1>e, <1>f
-----------------------------------------------------------------------------
\* The two counts under a delivery that is answered, one message or none more lost.
LEMMA HookCounts ==
  ASSUME ThreadHolds, LossesHold, NEW h \in Hooks, NEW k,
         Hooked(h, k), UNCHANGED <<thread, rows>>, hookFaults' \in Nat, hookFaults <= hookFaults',
         answered' = answered \/ answered' = answered \cup {hook[h].text}, hook[h].text \in Texts,
         k.at # "writing" \/ ~thread.open \/ ~k.opening,
         \/ answered' = answered
         \/ rows[hook[h].text] # 0
         \/ hookFaults < hookFaults'
         \/ k.at # "writing" /\ thread.open /\ hook[h].at = "writing" /\ hook[h].opening
  PROVE  LossesHold'
<1> USE DEF ThreadHolds
<1> DEFINE m == hook[h].text
<1>1. hook'[h] = k /\ \A g \in Hooks \ {h} : hook'[g] = hook[g] BY DEF Hooked, InboundTypes
<1>2. /\ IsFiniteSet(LostTexts) /\ IsFiniteSet(Openers)
      /\ Cardinality(LostTexts) \in Nat /\ Cardinality(Openers) \in Nat /\ Cardinality(Hooks) \in Nat
      /\ hookFaults \in Nat
  <2>1. LostTexts \subseteq Texts /\ Openers \subseteq Hooks BY DEF LostTexts, Openers, InboundTypes
  <2> QED BY <2>1, InboundAssumption, FS_Subset, FS_CardinalityType DEF InboundTypes
<1>3. /\ LostTexts' = LostTexts \/ LostTexts' = LostTexts \cup {m}
      /\ answered' = answered \/ rows[m] # 0 => LostTexts' = LostTexts
  BY DEF LostTexts
<1>4. Cardinality(LostTexts \cup {m}) \in Nat /\ Cardinality(LostTexts \cup {m}) <= Cardinality(LostTexts) + 1
  <2>1. Cardinality(LostTexts \cup {m}) = IF m \in LostTexts THEN Cardinality(LostTexts) ELSE Cardinality(LostTexts) + 1
    BY <1>2, FS_AddElement
  <2> QED BY <2>1, <1>2
<1>5. CASE ~thread.open
  <2>0. Cardinality(LostTexts) <= hookFaults BY <1>5 DEF LossesHold
  <2>1. CASE LostTexts' = LostTexts BY <2>0, <2>1, <1>2, <1>5 DEF LossesHold
  <2>2. CASE LostTexts' = LostTexts \cup {m} /\ hookFaults < hookFaults'
    <3>1. Cardinality(LostTexts') <= hookFaults' BY <2>0, <2>2, <1>2, <1>4
    <3> QED BY <3>1, <1>5 DEF LossesHold
  <2> QED BY <2>1, <2>2, <1>3, <1>5
<1>6. CASE thread.open
  <2>1. Openers' \in SUBSET Openers
    BY <1>1, <1>6 DEF Openers
  <2>2. Cardinality(Openers') \in Nat /\ Cardinality(Openers') <= Cardinality(Openers)
    BY <2>1, <1>2, FS_Subset, FS_CardinalityType
  <2>3. Cardinality(LostTexts) + Cardinality(Openers) < Cardinality(Hooks) + hookFaults
    BY <1>6 DEF LossesHold
  <2>4. Cardinality(LostTexts') + Cardinality(Openers') < Cardinality(Hooks) + hookFaults'
    <3>1. CASE LostTexts' = LostTexts BY <3>1, <2>2, <2>3, <1>2
    <3>2. CASE LostTexts' = LostTexts \cup {m} /\ hookFaults < hookFaults' BY <3>2, <2>2, <2>3, <1>2, <1>4
    <3>3. CASE LostTexts' = LostTexts \cup {m} /\ k.at # "writing" /\ hook[h].at = "writing" /\ hook[h].opening
      <4>1. h \in Openers /\ Openers' \subseteq Openers \ {h} BY <3>3, <2>1, <1>1 DEF Openers
      <4>2. /\ IsFiniteSet(Openers \ {h})
            /\ Cardinality(Openers \ {h}) = IF h \in Openers THEN Cardinality(Openers) - 1 ELSE Cardinality(Openers)
        BY <1>2, FS_RemoveElement
      <4>3. Cardinality(Openers') <= Cardinality(Openers \ {h}) BY <4>1, <4>2, FS_Subset
      <4> QED BY <3>3, <4>1, <4>2, <4>3, <2>2, <2>3, <1>2, <1>4
    <3> QED BY <3>1, <3>2, <3>3, <1>3
  <2> QED BY <2>4, <1>6 DEF LossesHold
<1> QED BY <1>5, <1>6

LEMMA NoHookIsOne ==
  /\ NoHook \in [at : HookAt, text : Texts \cup {0}, opening : BOOLEAN, linked : BOOLEAN, owed : Seq(Duties)]
  /\ NoHook.at = "idle"
BY DEF NoHook, HookAt

\* A delivery is answered, or dies.
LEMMA HookEnds ==
  ASSUME ThreadHolds, LossesHold, NEW h \in Hooks,
         \/ ReadThread(h) /\ rows[hook[h].text] > 0
         \/ RouteRefused(h) \/ AnswerHook(h) \/ HookFails(h)
  PROVE  ThreadHolds' /\ LossesHold'
<1> USE DEF ThreadHolds
<1>1. hook[h].at # "idle" BY DEF ReadThread, RouteRefused, AnswerHook, HookFails, HookHolds
<1>2. hook[h].text \in Texts /\ rows[hook[h].text] \in {0, 1} BY <1>1 DEF HookHolds, InboundTypes
<1>3. /\ Hooked(h, NoHook) /\ UNCHANGED <<says, thread, rows, register, repliesVars>>
      /\ known' = known /\ (answered' = answered \/ answered' = answered \cup {hook[h].text})
      /\ hookFaults' = hookFaults \/ hookFaults' = hookFaults + 1
  BY <1>2 DEF ReadThread, RouteRefused, AnswerHook, HookFails, Answers, threadVars
<1>4. \/ rows[hook[h].text] # 0
      \/ hookFaults' = hookFaults + 1
      \/ thread.open /\ hook[h].at = "writing" /\ hook[h].opening
  <2>1. CASE RouteRefused(h) BY <2>1, <1>2 DEF RouteRefused, Conflicts
  <2>2. CASE AnswerHook(h) BY <2>2 DEF AnswerHook, HookHolds
  <2>3. CASE HookFails(h) BY <2>3 DEF HookFails
  <2>4. CASE ReadThread(h) /\ rows[hook[h].text] > 0 BY <2>4
  <2> QED BY <2>1, <2>2, <2>3, <2>4
<1>5. hookFaults' \in Nat /\ hookFaults <= hookFaults' /\ answered' \subseteq Texts /\ known' \in BOOLEAN
      /\ (hookFaults' = hookFaults + 1 => hookFaults < hookFaults')
  BY <1>2, <1>3 DEF InboundTypes
<1>6. ThreadHolds' BY <1>3, <1>5, NoHookIsOne, HookMoves
<1>7. UNCHANGED <<thread, rows>> BY <1>3
<1> QED BY <1>2, <1>3, <1>4, <1>5, <1>6, <1>7, NoHookIsOne, HookCounts

\* A delivery comes in, or has read.
LEMMA HookGoesOn ==
  ASSUME ThreadHolds, LossesHold, NEW h \in Hooks,
         \/ ReadThread(h) /\ ~(rows[hook[h].text] > 0)
         \/ \E m \in Texts : DeliverText(h, m)
  PROVE  ThreadHolds' /\ LossesHold'
<1> USE DEF ThreadHolds
<1> DEFINE Rec == [at : HookAt, text : Texts \cup {0}, opening : BOOLEAN, linked : BOOLEAN,
                   owed : Seq(Duties)]
<1>1. CASE ReadThread(h) /\ ~(rows[hook[h].text] > 0)
  <2>1. PICK k : k = [hook[h] EXCEPT !.at = "writing", !.opening = ~thread.open,
                        !.linked = IF thread.open THEN thread.linked ELSE known]
    OBVIOUS
  <2>2. hook[h].text \in Texts BY <1>1 DEF ReadThread, HookHolds
  <2>3. /\ k \in Rec /\ k.at = "writing" /\ k.text = hook[h].text /\ (k.opening <=> ~thread.open)
        /\ thread.open => (k.linked <=> thread.linked)
    BY <2>1 DEF InboundTypes, HookAt
  <2>4. k # NoHook BY <2>3 DEF NoHook
  <2>5. /\ Hooked(h, k) /\ answered' = answered
        /\ UNCHANGED <<says, known, thread, rows, register, repliesVars, hookFaults>>
    BY <1>1, <2>1 DEF ReadThread
  <2>6. known' \in BOOLEAN /\ hookFaults' \in Nat /\ hookFaults <= hookFaults' /\ answered' \subseteq Texts
    BY <2>5 DEF InboundTypes
  <2>7. ThreadHolds' BY <2>2, <2>3, <2>4, <2>5, <2>6, HookMoves
  <2>8. LossesHold' BY <2>2, <2>3, <2>5, <2>6, HookCounts
  <2> QED BY <2>7, <2>8
<1>2. ASSUME NEW m \in Texts, DeliverText(h, m) PROVE ThreadHolds' /\ LossesHold'
  <2>1. PICK k : k = [NoHook EXCEPT !.at = "routing", !.text = m] OBVIOUS
  <2>2. k \in Rec /\ k.at = "routing" /\ k.text = m
    <3>1. "routing" \in HookAt /\ m \in Texts \cup {0} BY DEF HookAt
    <3> QED BY <2>1, <3>1, NoHookIsOne
  <2>3. k # NoHook BY <2>2 DEF NoHook
  <2>4. /\ Hooked(h, k) /\ answered' = answered /\ hook[h] = NoHook
        /\ UNCHANGED <<says, known, thread, rows, register, repliesVars>>
        /\ hookFaults' = hookFaults \/ hookFaults' = hookFaults + 1
    BY <1>2, <2>1 DEF DeliverText, threadVars
  <2>5. known' \in BOOLEAN /\ hookFaults' \in Nat /\ hookFaults <= hookFaults' /\ answered' \subseteq Texts
    BY <2>4 DEF InboundTypes
  <2>6. ThreadHolds' BY <2>2, <2>3, <2>4, <2>5, HookMoves
  <2>7. LossesHold'
    <3>1. \A g \in Hooks : g # h => hook'[g] = hook[g] BY <2>4 DEF Hooked, InboundTypes
    <3>2. hook'[h].at # "writing" /\ hook[h].at # "writing"
      BY <2>2, <2>4, NoHookIsOne DEF Hooked, InboundTypes
    <3>3. Openers' = Openers BY <3>1, <3>2 DEF Openers
    <3>4. LostTexts' = LostTexts BY <2>4 DEF LostTexts
    <3>5. Cardinality(LostTexts) \in Nat /\ Cardinality(Openers) \in Nat /\ Cardinality(Hooks) \in Nat
      <4>1. LostTexts \subseteq Texts /\ Openers \subseteq Hooks BY DEF LostTexts, Openers, InboundTypes
      <4> QED BY <4>1, InboundAssumption, FS_Subset, FS_CardinalityType
    <3>6. thread' = thread /\ hookFaults \in Nat BY <2>4 DEF InboundTypes
    <3> QED BY <2>4, <2>5, <3>3, <3>4, <3>5, <3>6 DEF LossesHold
  <2> QED BY <2>6, <2>7
<1> QED BY <1>1, <1>2

\* The router's writes: the first row of the message, on the thread it was read for.
LEMMA RouteStep ==
  ASSUME ThreadHolds, LossesHold, NEW h \in Hooks, Route(h) PROVE ThreadHolds' /\ LossesHold'
<1> USE DEF ThreadHolds
<1> DEFINE m == hook[h].text
           l == hook[h].linked
           f == FollowUps(says[m], l)
<1>1. /\ hook[h].at = "writing" /\ m \in Texts /\ l \in BOOLEAN /\ rows[m] = 0
      /\ hook[h].opening <=> ~thread.open
      /\ thread.open => (thread.linked <=> l)
      /\ hook[h] # NoHook
  BY DEF Route, Conflicts, HookHolds, InboundTypes
<1>2. PICK t : t = [thread EXCEPT !.open = TRUE, !.linked = l, !.unread = thread.unread + 1] OBVIOUS
<1>3. /\ t \in [open : BOOLEAN, linked : BOOLEAN, unread : Nat, override : BOOLEAN]
      /\ t.open /\ (t.linked <=> l) /\ t.unread = thread.unread + 1 /\ (t.override <=> thread.override)
  <2>1. /\ thread \in [open : BOOLEAN, linked : BOOLEAN, unread : Nat, override : BOOLEAN]
        /\ l \in BOOLEAN
    BY <1>1 DEF InboundTypes
  <2>2. PICK n \in Nat : n = thread.unread + 1 BY <2>1
  <2>3. t = [thread EXCEPT !.open = TRUE, !.linked = l, !.unread = n] BY <1>2, <2>2
  <2> HIDE DEF l
  <2> QED BY <2>1, <2>2, <2>3
<1>4. f \in Seq(Duties) /\ f # <<"revoked">> /\ (f # <<>> => Head(f) # "named")
  BY FollowUpsAreShort
<1>5. PICK k : k = [hook[h] EXCEPT !.at = "owing", !.owed = f] OBVIOUS
<1>6. /\ k \in [at : HookAt, text : Texts \cup {0}, opening : BOOLEAN, linked : BOOLEAN, owed : Seq(Duties)]
      /\ k.at = "owing" /\ k.text = m /\ (k.linked <=> l) /\ k.owed = f /\ k # NoHook
  <2> HIDE DEF f
  <2> QED BY <1>1, <1>4, <1>5 DEF InboundTypes, HookAt, NoHook
<1>7. /\ thread' = t /\ rows' = [rows EXCEPT ![m] = 1] /\ Hooked(h, k)
      /\ UNCHANGED <<says, known, answered, acted, acked, handed, hookFaults>>
  BY <1>1, <1>2, <1>5 DEF Route, repliesVars
<1>8. /\ register' \in [Texts -> {"none", "GRANTED", "REVOKED"}]
      /\ \A n \in Texts \ {m} : register'[n] = register[n]
      /\ l /\ says[m] = "OPT_OUT" => register'[m] = "REVOKED"
  BY <1>1 DEF Route, InboundTypes
<1> HIDE DEF m, l
<1>9. /\ hook'[h] = k /\ \A g \in Hooks \ {h} : hook'[g] = hook[g]
      /\ rows'[m] = 1 /\ \A n \in Texts \ {m} : rows'[n] = rows[n]
  BY <1>1, <1>7 DEF Hooked, InboundTypes
<1>a. InboundTypes' BY <1>1, <1>3, <1>6, <1>7, <1>8 DEF InboundTypes, Hooked
\* Who owes already was routed before.
<1>c. ASSUME NEW g \in Hooks, hook[g].at = "owing" PROVE hook[g].text \in Texts \ {m} /\ g # h
  BY <1>c, <1>1 DEF HookHolds, m
<1>d. OneOwes' BY <1>6, <1>9, <1>c DEF OneOwes
<1>e. thread.open \/ \A n \in Texts : rows[n] = 0 BY DEF TextHolds, InboundTypes
<1>f. ASSUME NEW n \in Texts PROVE TextHolds(n)'
  <2>1. CASE n = m
    <3>1. acted[m] = <<>> /\ m \notin acked BY <1>1 DEF TextHolds
    <3> QED BY <2>1, <3>1, <1>3, <1>7, <1>8, <1>9 DEF TextHolds, Begun
  <2>2. CASE n # m
    <3>1. rows'[n] = rows[n] /\ register'[n] = register[n] /\ TextHolds(n) BY <2>2, <1>8, <1>9
    <3>2. CASE thread.open
      <4>1. (thread'.linked <=> thread.linked) /\ thread'.open BY <3>2, <1>1, <1>3, <1>7 DEF l
      <4>2. thread'.linked = thread.linked
        BY <4>1, <1>3, <1>7 DEF InboundTypes
      <4> QED BY <3>1, <4>1, <4>2, <1>7 DEF TextHolds
    <3>3. CASE ~thread.open BY <3>1, <3>3, <1>e, <1>7 DEF TextHolds
    <3> QED BY <3>2, <3>3
  <2> QED BY <2>1, <2>2
<1>g. ASSUME NEW g \in Hooks PROVE HookHolds(g)'
  <2>1. CASE g = h
    <3>1. acted'[m] = <<>> BY <1>1, <1>7 DEF TextHolds
    <3>2. thread'.linked = l BY <1>1, <1>3, <1>7 DEF InboundTypes, l
    <3>3. FollowUps(says'[m], thread'.linked) = f BY <3>2, <1>7 DEF m, l
    <3>4. Underway(f, acted'[m], f) BY <3>1 DEF Underway
    <3> HIDE DEF f
    <3>5. /\ hook'[h].at = "owing" /\ hook'[h] # NoHook /\ hook'[h].text = m /\ hook'[h].owed = f
          /\ hook'[h].linked <=> thread'.linked
      BY <3>2, <1>6, <1>9
    <3>6. Underway(FollowUps(says'[hook'[h].text], thread'.linked), acted'[hook'[h].text], hook'[h].owed)
      BY <3>3, <3>4, <3>5
    <3>7. rows'[hook'[h].text] = 1 /\ hook'[h].text \in Texts BY <3>5, <1>1, <1>9 DEF m
    <3>8. /\ hook'[h].owed # <<"revoked">>
          /\ hook'[h].owed # <<>> => Head(hook'[h].owed) # "named"
      BY <3>5, <1>4
    <3> QED BY <2>1, <3>5, <3>6, <3>7, <3>8 DEF HookHolds
  <2>2. CASE g # h
    <3>1. hook'[g] = hook[g] /\ HookHolds(g) BY <2>2, <1>9
    <3>2. CASE hook[g].at = "owing"
      <4>1. hook[g].text \in Texts \ {m} BY <3>2, <1>c
      <4>2. rows'[hook[g].text] = 1 /\ rows[hook[g].text] = 1 /\ register'[hook[g].text] = register[hook[g].text]
        BY <3>1, <3>2, <4>1, <1>8, <1>9 DEF HookHolds
      <4>3. thread.open BY <4>1, <4>2, <1>e
      <4>4. thread'.linked = thread.linked BY <4>3, <1>1, <1>3, <1>7 DEF InboundTypes, l
      <4> QED BY <3>1, <3>2, <4>2, <4>4, <1>3, <1>7 DEF HookHolds
    <3>3. CASE hook[g].at # "owing"
      BY <3>1, <3>3, <1>1, <1>3, <1>7 DEF HookHolds, l
    <3> QED BY <3>2, <3>3
  <2> QED BY <2>1, <2>2
<1>h. PromiseIsKept' BY <1>3, <1>7 DEF PromiseIsKept
<1>i. thread'.unread = Cardinality(Kept)'
  <2>1. Kept' = Kept \cup {m} /\ m \notin Kept BY <1>1, <1>9 DEF Kept, m
  <2>2. IsFiniteSet(Kept) BY InboundAssumption, FS_Subset DEF Kept
  <2>3. Cardinality(Kept \cup {m}) = IF m \in Kept THEN Cardinality(Kept) ELSE Cardinality(Kept) + 1
    BY <2>2, FS_AddElement
  <2> QED BY <2>1, <2>3, <1>3, <1>7
<1>j. LossesHold'
  <2>1. /\ IsFiniteSet(LostTexts) /\ IsFiniteSet(Openers)
        /\ Cardinality(Hooks) \in Nat /\ IsFiniteSet(Hooks) /\ hookFaults \in Nat
    <3>1. LostTexts \subseteq Texts /\ Openers \subseteq Hooks BY DEF LostTexts, Openers, InboundTypes
    <3> QED BY <3>1, InboundAssumption, FS_Subset, FS_CardinalityType DEF InboundTypes
  <2>2. Cardinality(LostTexts) \in Nat /\ Cardinality(Openers) \in Nat BY <2>1, FS_CardinalityType
  <2>3. LostTexts' \in SUBSET LostTexts BY <1>7, <1>9, <1>1 DEF LostTexts, InboundTypes
  <2>4. Cardinality(LostTexts') \in Nat /\ Cardinality(LostTexts') <= Cardinality(LostTexts)
    BY <2>1, <2>3, FS_Subset, FS_CardinalityType
  <2>5. Openers' \in SUBSET Openers /\ Openers' \in SUBSET (Hooks \ {h})
    BY <1>6, <1>9 DEF Openers
  <2>6. Cardinality(Openers') \in Nat /\ Cardinality(Openers') <= Cardinality(Openers)
    BY <2>1, <2>5, FS_Subset, FS_CardinalityType
  <2>7. Cardinality(Openers') < Cardinality(Hooks)
    <3>1. IsFiniteSet(Hooks \ {h})
          /\ Cardinality(Hooks \ {h}) = IF h \in Hooks THEN Cardinality(Hooks) - 1 ELSE Cardinality(Hooks)
      BY <2>1, FS_RemoveElement
    <3>2. Cardinality(Openers') <= Cardinality(Hooks \ {h}) BY <2>5, <3>1, FS_Subset
    <3> QED BY <3>1, <3>2, <2>1, <2>6
  <2>8. Cardinality(LostTexts') + Cardinality(Openers') < Cardinality(Hooks) + hookFaults
    <3>1. CASE thread.open BY <3>1, <2>1, <2>2, <2>4, <2>6 DEF LossesHold
    <3>2. CASE ~thread.open BY <3>2, <2>1, <2>2, <2>4, <2>6, <2>7 DEF LossesHold
    <3> QED BY <3>1, <3>2
  <2> QED BY <2>8, <1>3, <1>7 DEF LossesHold
<1> QED BY <1>a, <1>d, <1>f, <1>g, <1>h, <1>i, <1>j

LEMMA InboundStep == ThreadHolds /\ LossesHold /\ [InboundNext]_inboundVars => ThreadHolds' /\ LossesHold'
<1> SUFFICES ASSUME ThreadHolds, LossesHold, [InboundNext]_inboundVars PROVE ThreadHolds' /\ LossesHold'
  OBVIOUS
<1>1. ASSUME NEW h \in Hooks, HookStep(h) \/ HookFails(h) \/ \E m \in Texts : DeliverText(h, m)
      PROVE  ThreadHolds' /\ LossesHold'
  <2>1. CASE ReadThread(h) \/ \E m \in Texts : DeliverText(h, m) BY <2>1, HookEnds, HookGoesOn
  <2>2. CASE RouteRefused(h) \/ AnswerHook(h) \/ HookFails(h) BY <2>2, HookEnds
  <2>3. CASE Route(h) BY <2>3, RouteStep
  <2>4. CASE AcknowledgeOptOut(h) \/ ApplyConsentDecision(h) \/ ConfirmRevoked(h)
             \/ HandOff(h) \/ NamePerson(h) \/ PassOn(h)
    BY <2>4, FollowUpStep
  <2> QED BY <1>1, <2>1, <2>2, <2>3, <2>4 DEF HookStep
<1>2. CASE BecomesCustomer \/ UNCHANGED inboundVars
  <2>1. known' \in BOOLEAN
        /\ UNCHANGED <<says, thread, rows, register, hook, answered, acted, acked, handed, hookFaults>>
    BY <1>2 DEF BecomesCustomer, inboundVars, threadVars, repliesVars, ThreadHolds, InboundTypes
  <2>3. InboundTypes' BY <2>1 DEF ThreadHolds, InboundTypes
  <2>4. OneOwes' /\ PromiseIsKept' /\ thread'.unread = Cardinality(Kept)'
    BY <2>1 DEF ThreadHolds, OneOwes, PromiseIsKept, Kept
  <2>5. \A h \in Hooks : HookHolds(h)' BY <2>1 DEF ThreadHolds, HookHolds
  <2>6. \A m \in Texts : TextHolds(m)' BY <2>1 DEF ThreadHolds, TextHolds
  <2>7. LossesHold' BY <2>1 DEF LossesHold, LostTexts, Openers
  <2> QED BY <2>3, <2>4, <2>5, <2>6, <2>7 DEF ThreadHolds
<1> QED BY <1>1, <1>2 DEF InboundNext

LEMMA InboundInitHolds == InboundInit => ThreadHolds /\ LossesHold
<1> SUFFICES ASSUME InboundInit PROVE ThreadHolds /\ LossesHold
  OBVIOUS
<1> USE DEF InboundInit
<1>1. InboundTypes BY NoHookIsOne DEF InboundTypes
<1>2. OneOwes /\ PromiseIsKept BY NoHookIsOne DEF OneOwes, PromiseIsKept
<1>3. \A h \in Hooks : HookHolds(h) BY NoHookIsOne DEF HookHolds
<1>4. \A m \in Texts : TextHolds(m) BY DEF TextHolds
<1>5. Kept = {} /\ LostTexts = {} BY DEF Kept, LostTexts
<1>6. thread.unread = Cardinality(Kept) BY <1>5, FS_EmptySet
<1>7. LossesHold
  <2>1. Cardinality(LostTexts) <= hookFaults BY <1>5, FS_EmptySet
  <2> QED BY <2>1 DEF LossesHold
<1> QED BY <1>1, <1>2, <1>3, <1>4, <1>6, <1>7 DEF ThreadHolds

\* Inbound's soundness for any messages, any deliveries at a time and any number
\* of faults: a message is stored, counted and followed up once, an answer that
\* says so has its revocation, and what is lost is bounded.
THEOREM InboundAlwaysSound == InboundSpec => []InboundIsSound
<1>1. InboundInit => ThreadHolds /\ LossesHold BY InboundInitHolds
<1>2. (ThreadHolds /\ LossesHold) /\ [InboundNext]_inboundVars => (ThreadHolds /\ LossesHold)'
  BY InboundStep
<1>3. ThreadHolds /\ LossesHold => InboundIsSound BY InboundIsStrong
<1> QED BY <1>1, <1>2, <1>3, PTL DEF InboundSpec
=============================================================================
