---------------------------- MODULE ApprovalChase ---------------------------
(***************************************************************************)
(* The escalation ladder that chases an open approval                      *)
(* (EscalationLadderEngine, the approval-ladder handler and the rung queue)*)
(* beside the decision that ends the chase.                                *)
(*                                                                         *)
(* A rung is a row and a delayed job whose id is the row's.  The row is    *)
(* the authority, but its claim is released before the rung acts, and the  *)
(* decision is read in one transaction and acted upon after it.            *)
(***************************************************************************)
EXTENDS Approval

CONSTANTS
  LastRung,      \* rungs 1 .. LastRung are laid; rung 0 was the request itself
  MessageRungs,  \* the rungs that message the customer; the others raise a task
  Workers,       \* slots of the escalation worker
  MaxFaults,     \* bound on stalled jobs, failed rungs and broken-off handlers
  MaxDeferrals   \* bound on rungs put off for quiet hours or a recent message

VARIABLES
  laying,    \* laying[r]: the approval.requested handler's next rung and step
  row,       \* row[t]: escalations.status of rung t = <<request, number>>
  job,       \* job[t]: the rung's delayed job
  slot,      \* slot[w]: the fireRung call [rung, step, owns]
  takenOver, \* conversations.human_override_at
  nudged,    \* rungs whose message was handed to the customer's thread
  task,      \* task[t]: the advisor task a rung raises, one by its dedupe key
  late,      \* rungs that acted after the decision
  faults, deferrals

chaseVars == <<laying, row, job, slot, takenOver, nudged, task, late, faults, deferrals>>
allVars == <<approvalVars, chaseVars>>

ASSUME ChaseAssumption ==
  /\ LastRung \in Nat \ {0} /\ MessageRungs \subseteq 1 .. LastRung
  /\ MaxFaults \in Nat /\ MaxDeferrals \in Nat /\ IsFiniteSet(Workers)

Rungs == Requests \X (1 .. LastRung)
NoRung == <<"none", 0>>
Free == [rung |-> NoRung, step |-> "idle", owns |-> FALSE]
IsMessage(t) == t[2] \in MessageRungs
-----------------------------------------------------------------------------
ChaseInit ==
  /\ ApprovalInit
  /\ laying = [r \in Requests |-> [rung |-> 1, step |-> "insert"]]
  /\ row = [t \in Rungs |-> "none"]
  /\ job = [t \in Rungs |-> "none"]
  /\ slot = [w \in Workers |-> Free]
  /\ takenOver = FALSE
  /\ nudged = {}
  /\ task = [t \in Rungs |-> "none"]
  /\ late = {}
  /\ faults = 0 /\ deferrals = 0

(* The approval.requested handler: one rung after another. *)

\* Past the last rung the handler is done and its event acknowledged.
After(n) == [rung |-> n + 1, step |-> IF n = LastRung THEN "done" ELSE "insert"]

\* The unique index refuses a rung laid before, which is then not enqueued.
LayRow(r) ==
  LET n == laying[r].rung IN
  /\ request[r] # Unmade /\ laying[r].step = "insert"
  /\ IF row[<<r, n>>] = "none"
     THEN /\ row' = [row EXCEPT ![<<r, n>>] = "SCHEDULED"]
          /\ laying' = [laying EXCEPT ![r].step = "enqueue"]
     ELSE /\ laying' = [laying EXCEPT ![r] = After(n)]
          /\ UNCHANGED row
  /\ UNCHANGED <<approvalVars, job, slot, takenOver, nudged, task, late, faults, deferrals>>

LayJob(r) ==
  LET t == <<r, laying[r].rung>> IN
  /\ laying[r].step = "enqueue"
  /\ job' = [job EXCEPT ![t] = IF job[t] = "none" THEN "delayed" ELSE job[t]]
  /\ laying' = [laying EXCEPT ![r] = After(laying[r].rung)]
  /\ UNCHANGED <<approvalVars, row, slot, takenOver, nudged, task, late, faults, deferrals>>

\* Mutant: an event whose handler died is acknowledged.
Acknowledged(r) == [laying[r] EXCEPT !.step = "done"]

\* A broken-off handler is delivered again and starts over.
StartOver(r) == [rung |-> 1, step |-> "insert"]

LayingBreaks(r) ==
  /\ request[r] # Unmade /\ laying[r].step # "done" /\ faults < MaxFaults
  /\ laying' = [laying EXCEPT ![r] = StartOver(r)]
  /\ faults' = faults + 1
  /\ UNCHANGED <<approvalVars, row, job, slot, takenOver, nudged, task, late, deferrals>>

(* fireRung. *)

At(w, step) == slot[w].step = step
To(w, step) == slot' = [slot EXCEPT ![w].step = step]

\* A delayed job is due; when is left open.
TakeJob(w, t) ==
  /\ slot[w] = Free /\ job[t] = "delayed"
  /\ job' = [job EXCEPT ![t] = "active"]
  /\ slot' = [slot EXCEPT ![w] = [rung |-> t, step |-> "claim", owns |-> TRUE]]
  /\ UNCHANGED <<approvalVars, laying, row, takenOver, nudged, task, late, faults, deferrals>>

\* claim locks the row for the length of its own transaction and writes nothing.
ClaimRung(w) ==
  /\ At(w, "claim")
  /\ To(w, IF row[slot[w].rung] = "SCHEDULED" THEN "read" ELSE "finish")
  /\ UNCHANGED <<approvalVars, laying, row, job, takenOver, nudged, task, late, faults, deferrals>>

\* Mutant: the claim is trusted, the decision is not read again.
StopsReadingDecision(r) == takenOver

\* execute's own reading: decided or taken over, the rung is skipped.
Stops(r) == Decided(r) \/ takenOver

ReadSubject(w) ==
  /\ At(w, "read")
  /\ To(w, IF Stops(slot[w].rung[1]) THEN "skip" ELSE "act")
  /\ UNCHANGED <<approvalVars, laying, row, job, takenOver, nudged, task, late, faults, deferrals>>

\* Quiet hours hold any rung, the minimum interval a message.  deferRung drops
\* the old job and adds one with the same id.  An active job is locked and stays,
\* and the queue answers a known id without adding anything.
Defer(w) ==
  LET t == slot[w].rung IN
  /\ At(w, "act") /\ deferrals < MaxDeferrals
  /\ job' = [job EXCEPT ![t] = IF job[t] = "active" THEN "active" ELSE "delayed"]
  /\ deferrals' = deferrals + 1
  /\ To(w, "reschedule")
  /\ UNCHANGED <<approvalVars, laying, row, takenOver, nudged, task, late, faults>>

\* The upsert meets its own row and makes it SCHEDULED whatever it was.
Reschedule(w) ==
  /\ At(w, "reschedule")
  /\ row' = [row EXCEPT ![slot[w].rung] = "SCHEDULED"]
  /\ To(w, "finish")
  /\ UNCHANGED <<approvalVars, laying, job, takenOver, nudged, task, late, faults, deferrals>>

MarkLate(t) == late' = IF Decided(t[1]) THEN late \cup {t} ELSE late

\* gate.send: sent or held for an advisor, put off by the gate, or refused.
SendReminder(w) ==
  LET t == slot[w].rung IN
  /\ At(w, "act") /\ IsMessage(t)
  /\ \/ nudged' = nudged \cup {t} /\ MarkLate(t) /\ To(w, "executed")
     \/ nudged' = nudged \cup {t} /\ MarkLate(t) /\ To(w, "finish")
     \/ UNCHANGED <<nudged, late>> /\ To(w, "executed")
  /\ UNCHANGED <<approvalVars, laying, row, job, takenOver, task, faults, deferrals>>

\* createTask: a task the rung has raised before is used again, as it is.
RaiseTask(w) ==
  LET t == slot[w].rung IN
  /\ At(w, "act") /\ ~IsMessage(t)
  /\ task' = [task EXCEPT ![t] = IF task[t] = "none" THEN "OPEN" ELSE task[t]]
  /\ MarkLate(t)
  /\ To(w, "executed")
  /\ UNCHANGED <<approvalVars, laying, row, job, takenOver, nudged, faults, deferrals>>

\* A call rung that rings, or is refused for want of consent, raises no task.
PlaceCall(w) ==
  /\ At(w, "act") /\ ~IsMessage(slot[w].rung)
  /\ MarkLate(slot[w].rung)
  /\ To(w, "executed")
  /\ UNCHANGED <<approvalVars, laying, row, job, takenOver, nudged, task, faults, deferrals>>

\* markExecuted and markSkipped ask for no status.
MarkRung(w) ==
  /\ \/ At(w, "executed") /\ row' = [row EXCEPT ![slot[w].rung] = "EXECUTED"]
     \/ At(w, "skip") /\ row' = [row EXCEPT ![slot[w].rung] = "SKIPPED"]
  /\ To(w, "finish")
  /\ UNCHANGED <<approvalVars, laying, job, takenOver, nudged, task, late, faults, deferrals>>

\* The job is kept, completed, for a day; a slot that lost it says nothing.
Finish(w) ==
  /\ At(w, "finish")
  /\ job' = IF slot[w].owns THEN [job EXCEPT ![slot[w].rung] = "completed"] ELSE job
  /\ slot' = [slot EXCEPT ![w] = Free]
  /\ UNCHANGED <<approvalVars, laying, row, takenOver, nudged, task, late, faults, deferrals>>

\* The job's lock runs out, the slot dead or alive: it goes back to the queue
\* or, stalled once too often, fails.
Stall(w, dies) ==
  /\ slot[w].owns /\ faults < MaxFaults
  /\ \E s \in {"delayed", "failed"} : job' = [job EXCEPT ![slot[w].rung] = s]
  /\ slot' = [slot EXCEPT ![w] = IF dies THEN Free ELSE [slot[w] EXCEPT !.owns = FALSE]]
  /\ faults' = faults + 1
  /\ UNCHANGED <<approvalVars, laying, row, takenOver, nudged, task, late, deferrals>>

\* fireRung throws: one attempt, so the job fails and the row stays as it is.
RungFails(w) ==
  /\ slot[w] # Free /\ faults < MaxFaults
  /\ job' = IF slot[w].owns THEN [job EXCEPT ![slot[w].rung] = "failed"] ELSE job
  /\ slot' = [slot EXCEPT ![w] = Free]
  /\ faults' = faults + 1
  /\ UNCHANGED <<approvalVars, laying, row, takenOver, nudged, task, late, deferrals>>

(* The end of the chase. *)

\* One statement cancels the rows; removing the jobs is best effort.
CancelRungs(r) ==
  LET gone == {t \in Rungs : t[1] = r /\ row[t] = "SCHEDULED"} IN
  /\ row' = [t \in Rungs |-> IF t \in gone THEN "CANCELLED" ELSE row[t]]
  /\ \E removed \in SUBSET {t \in gone : job[t] = "delayed"} :
       job' = [t \in Rungs |-> IF t \in removed THEN "none" ELSE job[t]]

DecisionCancels(c) ==
  /\ CancelLadder(c) /\ CancelRungs(deciding[c].request)
  /\ UNCHANGED <<laying, slot, takenOver, nudged, task, late, faults, deferrals>>

\* cancelForApproval closes every open task of the request.
AfterDecision(r, t) == IF t[1] = r /\ task[t] = "OPEN" THEN "CANCELLED" ELSE task[t]

DecisionClearsTasks(c) ==
  /\ ClearTasks(c)
  /\ task' = [t \in Rungs |-> AfterDecision(deciding[c].request, t)]
  /\ UNCHANGED <<laying, row, job, slot, takenOver, nudged, late, faults, deferrals>>

\* The approval.decided handler cancels the ladder again, and not the tasks.
DecidedHandled(r) ==
  /\ HandleDecided(r) /\ CancelRungs(r)
  /\ UNCHANGED <<laying, slot, takenOver, nudged, task, late, faults, deferrals>>

\* A person writes on the thread; nothing takes that back.
TakeOver ==
  /\ ~takenOver /\ takenOver' = TRUE
  /\ UNCHANGED <<approvalVars, laying, row, job, slot, nudged, task, late, faults, deferrals>>

Laying(r) == LayRow(r) \/ LayJob(r)

Firing(w) ==
  \/ ClaimRung(w) \/ ReadSubject(w) \/ Defer(w) \/ Reschedule(w)
  \/ SendReminder(w) \/ RaiseTask(w) \/ PlaceCall(w) \/ MarkRung(w) \/ Finish(w)

ChaseNext ==
  \/ DecisionStep /\ UNCHANGED chaseVars
  \/ \E r \in Requests : Laying(r) \/ LayingBreaks(r) \/ DecidedHandled(r)
  \/ \E w \in Workers, t \in Rungs : TakeJob(w, t)
  \/ \E w \in Workers : Firing(w) \/ RungFails(w) \/ \E dies \in BOOLEAN : Stall(w, dies)
  \/ \E c \in Callers : DecisionCancels(c) \/ DecisionClearsTasks(c)
  \/ TakeOver

\* The outbox delivers approval.requested until its handler ends, and the queue
\* runs what is due; customers and staff owe nothing.
ChaseSpec ==
  /\ ChaseInit /\ [][ChaseNext]_allVars
  /\ \A r \in Requests : WF_allVars(Laying(r))
  /\ \A w \in Workers : WF_allVars(Firing(w))
-----------------------------------------------------------------------------
(* Properties. *)

ChaseTypeOK ==
  /\ ApprovalTypeOK
  /\ laying \in [Requests -> [rung : 1 .. LastRung + 1, step : {"insert", "enqueue", "done"}]]
  /\ row \in [Rungs -> {"none", "SCHEDULED", "EXECUTED", "SKIPPED", "CANCELLED"}]
  /\ job \in [Rungs -> {"none", "delayed", "active", "completed", "failed"}]
  /\ slot \in [Workers -> [rung : Rungs \cup {NoRung}, owns : BOOLEAN,
                 step : {"idle", "claim", "read", "act", "reschedule", "executed", "skip", "finish"}]]
  /\ takenOver \in BOOLEAN
  /\ nudged \subseteq Rungs
  /\ task \in [Rungs -> {"none", "OPEN", "CANCELLED"}]
  /\ late \subseteq Rungs
  /\ faults \in 0 .. MaxFaults /\ deferrals \in 0 .. MaxDeferrals

\* A customer who has decided does not get the next reminder: after the decision
\* only the calls that had already read the request may still act, one each.
DecisionStopsTheChase ==
  \A r \in Requests :
    Decided(r) => Cardinality({t \in late : t[1] = r})
                    + Cardinality({w \in Workers : At(w, "act") /\ slot[w].rung[1] = r})
                  <= Cardinality(Workers)

\* A decision that has been announced leaves no call to make on the advisor's
\* list, but for a rung that was acting while the decision was taken.
AnnouncedLeavesNoTask ==
  \A t \in Rungs : announced[t[1]] # "no" /\ task[t] = "OPEN" => t \in late

\* Once announced, a decision is in the items and the card and off everybody's list.
AnnouncedIsDone == ChaseTypeOK /\ AnnouncedIsApplied /\ AnnouncedLeavesNoTask

\* A request is chased: however often its handler breaks off, every rung of the
\* ladder gets its row.
EveryRungIsLaid ==
  \A t \in Rungs : (request[t[1]] # Unmade) ~> (row[t] # "none")
=============================================================================
