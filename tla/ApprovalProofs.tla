--------------------------- MODULE ApprovalProofs ---------------------------
(***************************************************************************)
(* Proofs about ApprovalChase and the decision it is built on, for any     *)
(* requests, items, callers, rungs and bounds: the chase does what the     *)
(* decision's own specification allows, and so what is announced of a      *)
(* decision is true, a decided request keeps its decision, and the         *)
(* decision stops the chase.  Then the telephone calls of that chase       *)
(* (VoiceCall), for any calls, slots, caps, turns and exceptions.          *)
(***************************************************************************)
EXTENDS ApprovalChase, VoiceCall, FiniteSetTheorems, TLAPS

\* One call at most applies a request, which is decided and not yet announced.
OneCaller ==
  \A c \in Callers : deciding[c].request \in Requests =>
    /\ Decided(deciding[c].request) /\ announced[deciding[c].request] = "no"
    /\ \A d \in Callers : deciding[d].request = deciding[c].request => d = c

\* What a call has done so far stays done.
Progress ==
  \A c \in Callers : deciding[c].request \in Requests =>
    /\ \A i \in request[deciding[c].request].items \ deciding[c].left :
         item[i] = Outcome(deciding[c].request, i)
    /\ deciding[c].step \in {"cancel", "tasks", "emit"} =>
         /\ deciding[c].left = {}
         /\ request[deciding[c].request].approved # {} => cardState # "AWAITING_APPROVAL"

AnnouncedWasDecided == \A r \in Requests : announced[r] # "no" => Decided(r)

\* A call is idle exactly when it has no request.
CallShape == \A c \in Callers : deciding[c] = Idle \/ deciding[c].request \in Requests

AInv ==
  /\ ApprovalTypeOK /\ CallShape /\ OneCaller /\ Progress
  /\ AnnouncedWasDecided /\ AnnouncedIsApplied
-----------------------------------------------------------------------------
LEMMA AInit == ApprovalInit => AInv
<1> SUFFICES ASSUME ApprovalInit PROVE AInv
  OBVIOUS
<1>1. ApprovalTypeOK
  BY DEF ApprovalInit, ApprovalTypeOK, Unmade, Idle
<1>2. CallShape /\ OneCaller /\ Progress
  BY NoneIsNoRequest DEF ApprovalInit, CallShape, OneCaller, Progress, Idle
<1>3. AnnouncedWasDecided /\ AnnouncedIsApplied
  BY DEF ApprovalInit, AnnouncedWasDecided, AnnouncedIsApplied
<1> QED BY <1>1, <1>2, <1>3 DEF AInv

LEMMA OutcomeType ==
  ASSUME NEW r, NEW i
  PROVE  Outcome(r, i) \in {"APPROVED", "DEFERRED"}
BY DEF Outcome

LEMMA CreateInv ==
  ASSUME AInv, NEW r \in Requests, NEW s \in SUBSET Items, Create(r, s)
  PROVE  AInv'
<1>1. /\ request[r].status = "none"
      /\ request' = [request EXCEPT ![r] = [status |-> "PENDING", items |-> s, approved |-> {}]]
      /\ UNCHANGED <<item, cardState, deciding, announced>>
  BY DEF Create, Unmade
<1>2. \A q \in Requests : Decided(q) => q # r /\ request'[q] = request[q]
  BY <1>1 DEF Decided, AInv, ApprovalTypeOK
<1>3. ApprovalTypeOK'
  BY <1>1 DEF AInv, ApprovalTypeOK
<1>4. CallShape' /\ OneCaller' /\ AnnouncedWasDecided'
  BY <1>1, <1>2 DEF AInv, CallShape, OneCaller, AnnouncedWasDecided, Decided
<1>5. Progress'
  BY <1>1, <1>2 DEF AInv, OneCaller, Progress, Outcome
<1>6. AnnouncedIsApplied'
  BY <1>1, <1>2 DEF AInv, AnnouncedWasDecided, AnnouncedIsApplied, Outcome
<1> QED BY <1>3, <1>4, <1>5, <1>6 DEF AInv

LEMMA RecordInv ==
  ASSUME AInv, NEW c \in Callers, NEW r \in Requests, NEW yes \in SUBSET Items, Record(c, r, yes)
  PROVE  AInv'
<1>1. /\ request[r].status = "PENDING"
      /\ request' = [request EXCEPT
                       ![r] = [status |-> "decided", items |-> request[r].items, approved |-> yes]]
      /\ deciding' = [deciding EXCEPT ![c] = [request |-> r, step |-> "items", left |-> request[r].items]]
      /\ UNCHANGED <<item, cardState, announced>>
  BY DEF Record, Answerable
<1>2. \A q \in Requests : Decided(q) => q # r /\ request'[q] = request[q]
  BY <1>1 DEF Decided, AInv, ApprovalTypeOK
<1>3. /\ request'[r].status = "decided" /\ request'[r].items = request[r].items
      /\ request[r].items \in SUBSET Items
  BY <1>1 DEF AInv, ApprovalTypeOK
<1>4. /\ deciding'[c] = [request |-> r, step |-> "items", left |-> request[r].items]
      /\ \A d \in Callers \ {c} : deciding'[d] = deciding[d]
  BY <1>1 DEF AInv, ApprovalTypeOK
<1>5. ApprovalTypeOK'
  BY <1>1, <1>3 DEF AInv, ApprovalTypeOK
<1>6. \A d \in Callers : deciding[d].request # r
  BY <1>1 DEF AInv, OneCaller, Decided
<1>7. announced[r] = "no"
  BY <1>1 DEF AInv, AnnouncedWasDecided, Decided
<1>8. CallShape' /\ AnnouncedWasDecided'
  BY <1>1, <1>2, <1>4, <1>7 DEF AInv, CallShape, AnnouncedWasDecided, Decided
<1>9. OneCaller'
  BY <1>1, <1>2, <1>3, <1>4, <1>6, <1>7 DEF AInv, OneCaller, Decided
<1>10. Progress'
  BY <1>1, <1>2, <1>3, <1>4, <1>6 DEF AInv, OneCaller, Progress, Outcome
<1>11. AnnouncedIsApplied'
  BY <1>1, <1>2, <1>7 DEF AInv, AnnouncedWasDecided, AnnouncedIsApplied, Outcome
<1> QED BY <1>5, <1>8, <1>9, <1>10, <1>11 DEF AInv

\* An item that has an outcome cannot be moved by another request.
LEMMA MoveItemInv ==
  ASSUME AInv, NEW c \in Callers, MoveItem(c)
  PROVE  AInv'
<1> DEFINE r == deciding[c].request
<1>1. r \in Requests
  BY DEF MoveItem, AInv, CallShape, Idle
<1>2. PICK i \in NextItems(c) :
        /\ item[i] = "PENDING_APPROVAL"
        /\ item' = [item EXCEPT ![i] = Outcome(r, i)]
        /\ deciding' = [deciding EXCEPT ![c].left = deciding[c].left \ {i}]
  BY DEF MoveItem, Movable
<1>3. deciding[c].step = "items" /\ UNCHANGED <<request, cardState, announced>>
  BY DEF MoveItem
<1>4. i \in Items
  BY <1>2 DEF NextItems, AInv, ApprovalTypeOK
<1>5. /\ deciding'[c].request = r /\ deciding'[c].step = "items" /\ deciding'[c].left = deciding[c].left \ {i}
      /\ \A d \in Callers \ {c} : deciding'[d] = deciding[d]
  BY <1>2, <1>3 DEF AInv, ApprovalTypeOK
<1>6. ApprovalTypeOK'
  BY <1>2, <1>3, <1>4, OutcomeType DEF AInv, ApprovalTypeOK
<1>7. CallShape' /\ OneCaller' /\ AnnouncedWasDecided'
  BY <1>1, <1>3, <1>5 DEF AInv, CallShape, OneCaller, AnnouncedWasDecided, Decided
<1>8. \A q, j : Outcome(q, j)' = Outcome(q, j)
  BY <1>3 DEF Outcome
<1>9. \A j \in Items : item[j] # "PENDING_APPROVAL" => item'[j] = item[j]
  BY <1>2, <1>4 DEF AInv, ApprovalTypeOK
<1>10. item'[i] = Outcome(r, i)
  BY <1>2, <1>4 DEF AInv, ApprovalTypeOK
<1>11. Progress'
  <2> SUFFICES ASSUME NEW d \in Callers, deciding'[d].request \in Requests
               PROVE  /\ \A j \in request[deciding'[d].request].items \ deciding'[d].left :
                           item'[j] = Outcome(deciding'[d].request, j)
                      /\ deciding'[d].step \in {"cancel", "tasks", "emit"} =>
                           /\ deciding'[d].left = {}
                           /\ request[deciding'[d].request].approved # {} => cardState # "AWAITING_APPROVAL"
    BY <1>3, <1>8 DEF Progress
  <2>1. \A j \in request[deciding'[d].request].items : j \in Items
    BY DEF AInv, ApprovalTypeOK
  <2>2. CASE d = c
    BY <1>1, <1>5, <1>9, <1>10, <2>1, <2>2, OutcomeType DEF AInv, Progress
  <2>3. CASE d # c
    BY <1>5, <1>9, <2>1, <2>3, OutcomeType DEF AInv, Progress
  <2> QED BY <2>2, <2>3
<1>12. AnnouncedIsApplied'
  <2>1. \A q \in Requests : \A j \in request[q].items : j \in Items
    BY DEF AInv, ApprovalTypeOK
  <2> QED BY <1>3, <1>8, <1>9, <2>1, OutcomeType DEF AInv, AnnouncedIsApplied
<1> QED BY <1>6, <1>7, <1>11, <1>12 DEF AInv

\* GrantCard, NothingToGrant, CancelLadder, ClearTasks: the call goes one step on.
LEMMA StepInv ==
  ASSUME AInv, NEW c \in Callers, NEW s \in {"cancel", "tasks", "emit"},
         deciding[c].step # "idle",
         deciding[c].left = {}, cardState' \in {cardState, "IN_PROGRESS"},
         request[deciding[c].request].approved # {} => cardState' # "AWAITING_APPROVAL",
         deciding' = [deciding EXCEPT ![c].step = s],
         UNCHANGED <<request, item, announced>>
  PROVE  AInv'
<1>1. /\ deciding'[c].request = deciding[c].request /\ deciding'[c].left = {} /\ deciding'[c].step = s
      /\ \A d \in Callers \ {c} : deciding'[d] = deciding[d]
  BY DEF AInv, ApprovalTypeOK
<1>2. deciding[c].request \in Requests
  BY DEF AInv, CallShape, Idle
<1>3. ApprovalTypeOK'
  BY DEF AInv, ApprovalTypeOK
<1>4. CallShape' /\ OneCaller' /\ AnnouncedWasDecided'
  BY <1>1, <1>2 DEF AInv, CallShape, OneCaller, AnnouncedWasDecided, Decided
<1>5. Progress'
  BY <1>1, <1>2 DEF AInv, Progress, Outcome, ApprovalTypeOK
<1>6. AnnouncedIsApplied'
  BY DEF AInv, AnnouncedIsApplied, Outcome, ApprovalTypeOK
<1> QED BY <1>3, <1>4, <1>5, <1>6 DEF AInv

\* Announce and Abandon: the call ends.
LEMMA EndInv ==
  ASSUME AInv, NEW c \in Callers, deciding[c] # Idle,
         deciding' = [deciding EXCEPT ![c] = Idle],
         \/ announced' = announced
         \/ /\ deciding[c].step = "emit"
            /\ announced' = [announced EXCEPT ![deciding[c].request] = "sent"],
         UNCHANGED <<request, item, cardState>>
  PROVE  AInv'
<1> DEFINE r == deciding[c].request
<1>1. r \in Requests /\ Decided(r)
  BY DEF AInv, CallShape, OneCaller
<1>2. deciding'[c] = Idle /\ \A d \in Callers \ {c} : deciding'[d] = deciding[d] /\ deciding[d].request # r
  BY <1>1 DEF AInv, ApprovalTypeOK, OneCaller
<1>3. \A q \in Requests : q # r => announced'[q] = announced[q]
  BY DEF AInv, ApprovalTypeOK
<1>4. announced'[r] # "no" => deciding[c].step = "emit"
  BY <1>1 DEF AInv, OneCaller
<1>5. ApprovalTypeOK'
  BY <1>1 DEF AInv, ApprovalTypeOK, Idle
<1>6. CallShape' /\ OneCaller' /\ Progress'
  BY <1>2, <1>3, NoneIsNoRequest DEF AInv, CallShape, OneCaller, Progress, Idle, Decided, Outcome
<1>7. AnnouncedWasDecided'
  BY <1>1, <1>3 DEF AInv, AnnouncedWasDecided, Decided
<1>8. announced'[r] # "no" =>
        /\ \A i \in request[r].items : item[i] = Outcome(r, i)
        /\ request[r].approved # {} => cardState # "AWAITING_APPROVAL"
  BY <1>1, <1>4 DEF AInv, Progress
<1>9. AnnouncedIsApplied'
  BY <1>3, <1>8 DEF AInv, AnnouncedIsApplied, Outcome
<1> QED BY <1>5, <1>6, <1>7, <1>9 DEF AInv

LEMMA HandleInv ==
  ASSUME AInv, NEW r \in Requests, HandleDecided(r)
  PROVE  AInv'
<1>1. /\ announced[r] = "sent" /\ announced' = [announced EXCEPT ![r] = "handled"]
      /\ UNCHANGED <<request, item, cardState, deciding>>
  BY DEF HandleDecided
<1>2. \A q \in Requests : announced'[q] # "no" <=> announced[q] # "no"
  BY <1>1 DEF AInv, ApprovalTypeOK
<1>3. ApprovalTypeOK'
  BY <1>1 DEF AInv, ApprovalTypeOK
<1>4. CallShape' /\ OneCaller' /\ Progress'
  BY <1>1, <1>2 DEF AInv, CallShape, OneCaller, Progress, Decided, Outcome
<1>5. AnnouncedWasDecided' /\ AnnouncedIsApplied'
  BY <1>1, <1>2 DEF AInv, AnnouncedWasDecided, AnnouncedIsApplied, Decided, Outcome
<1> QED BY <1>3, <1>4, <1>5 DEF AInv

LEMMA DecisionStepInv == ASSUME AInv, DecisionStep PROVE AInv'
<1>1. ASSUME NEW c \in Callers, GrantCard(c) \/ NothingToGrant(c) PROVE AInv'
  <2>1. deciding[c].step = "items" /\ deciding[c].left = {}
    BY <1>1 DEF GrantCard, NothingToGrant, ItemsMoved
  <2>2. /\ cardState' \in {cardState, "IN_PROGRESS"}
        /\ request[deciding[c].request].approved # {} => cardState' # "AWAITING_APPROVAL"
        /\ deciding' = [deciding EXCEPT ![c].step = "cancel"]
        /\ UNCHANGED <<request, item, announced>>
    BY <1>1 DEF GrantCard, NothingToGrant
  <2> QED BY <2>1, <2>2, StepInv
<1>2. ASSUME NEW c \in Callers, Abandon(c) \/ Announce(c) PROVE AInv'
  <2>1. deciding[c] # Idle
    BY <1>2 DEF Abandon, Announce, Idle
  <2> QED BY <1>2, <2>1, EndInv DEF Abandon, Announce
<1> QED BY <1>1, <1>2, CreateInv, RecordInv, MoveItemInv DEF DecisionStep

LEMMA AStep == AInv /\ [ApprovalNext]_approvalVars => AInv'
<1> SUFFICES ASSUME AInv, [ApprovalNext]_approvalVars PROVE AInv'
  OBVIOUS
<1>1. ASSUME NEW c \in Callers, CancelLadder(c) \/ ClearTasks(c) PROVE AInv'
  <2>1. deciding[c].step \in {"cancel", "tasks"} /\ UNCHANGED <<request, item, cardState, announced>>
    BY <1>1 DEF CancelLadder, ClearTasks
  <2>2. \E s \in {"cancel", "tasks", "emit"} : deciding' = [deciding EXCEPT ![c].step = s]
    BY <1>1 DEF CancelLadder, ClearTasks
  <2>3. deciding[c].request \in Requests
    BY <2>1 DEF AInv, CallShape, Idle
  <2>4. deciding[c].left = {} /\ (request[deciding[c].request].approved # {} => cardState # "AWAITING_APPROVAL")
    BY <2>1, <2>3 DEF AInv, Progress
  <2> QED BY <2>1, <2>2, <2>4, StepInv
<1>2. CASE UNCHANGED approvalVars
  BY <1>2 DEF approvalVars, AInv, ApprovalTypeOK, CallShape, OneCaller, Progress,
     AnnouncedWasDecided, AnnouncedIsApplied, Decided, Outcome
<1> QED BY <1>1, <1>2, DecisionStepInv, HandleInv DEF ApprovalNext

\* A step that keeps the decision's invariant keeps every decision.
LEMMA DecidedKept ==
  ASSUME AInv, [ApprovalNext]_approvalVars, NEW r \in Requests, Decided(r)
  PROVE  request'[r] = request[r]
<1>1. CASE \E q \in Requests, s \in SUBSET Items : Create(q, s)
  BY <1>1 DEF Create, Unmade, Decided, AInv, ApprovalTypeOK
<1>2. CASE \E c \in Callers, q \in Requests, s \in SUBSET Items : Record(c, q, s)
  <2>1. PICK c \in Callers, q \in Requests, s \in SUBSET Items : Record(c, q, s)
    BY <1>2
  <2>2. q # r
    BY <2>1 DEF Record, Answerable, Decided
  <2> QED BY <2>1, <2>2 DEF Record, AInv, ApprovalTypeOK
<1>3. CASE UNCHANGED request
  BY <1>3
<1> QED BY <1>1, <1>2, <1>3 DEF ApprovalNext, DecisionStep, approvalVars, MoveItem, GrantCard,
       NothingToGrant, Abandon, Announce, CancelLadder, ClearTasks, HandleDecided

THEOREM ApprovalInvariant == ApprovalSpec => []AInv
BY AInit, AStep, PTL DEF ApprovalSpec
-----------------------------------------------------------------------------
\* Whatever the ladder does, the decision takes a step of its own or none.
LEMMA ChaseStep == [ChaseNext]_allVars => [ApprovalNext]_approvalVars
<1> SUFFICES ASSUME [ChaseNext]_allVars PROVE [ApprovalNext]_approvalVars
  OBVIOUS
<1>1. CASE DecisionStep
  BY <1>1 DEF ApprovalNext
<1>2. CASE \E c \in Callers : DecisionCancels(c) \/ DecisionClearsTasks(c)
  BY <1>2 DEF ApprovalNext, DecisionCancels, DecisionClearsTasks
<1>3. CASE \E r \in Requests : DecidedHandled(r)
  BY <1>3 DEF ApprovalNext, DecidedHandled
<1>4. CASE UNCHANGED approvalVars
  BY <1>4
<1>5. CASE \E w \in Workers : Firing(w)
  BY <1>5 DEF Firing, ClaimRung, ReadSubject, Defer, Reschedule, SendReminder, RaiseTask,
     PlaceCall, MarkRung, Finish
<1>6. CASE \E w \in Workers : RungFails(w) \/ \E dies \in BOOLEAN : Stall(w, dies)
  BY <1>6 DEF RungFails, Stall
<1>7. CASE \E r \in Requests : Laying(r) \/ LayingBreaks(r)
  BY <1>7 DEF Laying, LayRow, LayJob, LayingBreaks
<1>8. CASE TakeOver \/ \E w \in Workers, t \in Rungs : TakeJob(w, t)
  BY <1>8 DEF TakeOver, TakeJob
<1> QED BY <1>1, <1>2, <1>3, <1>4, <1>5, <1>6, <1>7, <1>8 DEF ChaseNext, allVars

\* The chase is the decision's own specification with more variables.
THEOREM ChaseImplementsDecision == ChaseSpec => ApprovalSpec
<1>1. ChaseInit => ApprovalInit
  BY DEF ChaseInit
<1> QED BY <1>1, ChaseStep, PTL DEF ChaseSpec, ApprovalSpec

\* approval.decided is true when it is sent, whatever the ladder, the faults
\* and a second request about the same items do.
THEOREM AnnouncementIsTrue == ChaseSpec => []AnnouncedIsApplied
<1>1. AInv => AnnouncedIsApplied
  BY DEF AInv
<1> QED BY <1>1, ApprovalInvariant, ChaseImplementsDecision, PTL

\* The request's tasks have been cleared by the call that applied it.
Swept(r) ==
  announced[r] # "no" \/ \E c \in Callers : deciding[c].request = r /\ deciding[c].step = "emit"

TInv ==
  /\ AInv /\ task \in [Rungs -> {"none", "OPEN", "CANCELLED"}]
  /\ \A t \in Rungs : Swept(t[1]) /\ task[t] = "OPEN" => t \in late

LEMMA SweptIsDecided == ASSUME AInv, NEW r \in Requests, Swept(r) PROVE Decided(r)
BY DEF Swept, AInv, OneCaller, AnnouncedWasDecided

LEMMA RungType == ASSUME NEW t \in Rungs PROVE t[1] \in Requests
BY DEF Rungs

\* Steps that raise no task and sweep no request.
LEMMA TFrame ==
  ASSUME TInv, AInv', task' = task, late \subseteq late',
         \A r \in Requests : Swept(r)' => Swept(r)
  PROVE  TInv'
BY RungType DEF TInv

LEMMA SweptKept ==
  ASSUME TInv, UNCHANGED <<deciding, announced>>, NEW r
  PROVE  Swept(r)' <=> Swept(r)
BY DEF Swept

\* The decision's own steps: only the last one, after the sweep, announces.
LEMMA DecisionSweeps ==
  ASSUME AInv, DecisionStep, NEW r \in Requests, Swept(r)'
  PROVE  Swept(r)
<1>1. CASE \E q \in Requests, s \in SUBSET Items : Create(q, s)
  BY <1>1 DEF Create, Swept
<1>2. ASSUME NEW c \in Callers, NEW q \in Requests, NEW s \in SUBSET Items, Record(c, q, s)
      PROVE  Swept(r)
  <2>1. /\ announced' = announced /\ deciding'[c].step = "items"
        /\ \A d \in Callers \ {c} : deciding'[d] = deciding[d]
    BY <1>2 DEF Record, AInv, ApprovalTypeOK
  <2> QED BY <2>1 DEF Swept
<1>3. ASSUME NEW c \in Callers, MoveItem(c) \/ GrantCard(c) \/ NothingToGrant(c) \/ Abandon(c)
      PROVE  Swept(r)
  <2>1. /\ announced' = announced /\ deciding'[c].step # "emit"
        /\ \A d \in Callers \ {c} : deciding'[d] = deciding[d]
    BY <1>3 DEF MoveItem, GrantCard, NothingToGrant, Abandon, Idle, AInv, ApprovalTypeOK
  <2> QED BY <2>1 DEF Swept
<1>4. ASSUME NEW c \in Callers, Announce(c) PROVE Swept(r)
  <2>1. /\ deciding[c].step = "emit"
        /\ deciding'[c].step = "idle"
        /\ \A d \in Callers \ {c} : deciding'[d] = deciding[d]
        /\ announced' = [announced EXCEPT ![deciding[c].request] = "sent"]
    BY <1>4 DEF Announce, Idle, AInv, ApprovalTypeOK
  <2>2. r # deciding[c].request => announced'[r] = announced[r]
    BY <2>1 DEF AInv, ApprovalTypeOK
  <2> QED BY <2>1, <2>2 DEF Swept
<1> QED BY <1>1, <1>2, <1>3, <1>4 DEF DecisionStep

LEMMA TStep == TInv /\ [ChaseNext]_allVars => TInv'
<1> SUFFICES ASSUME TInv, [ChaseNext]_allVars PROVE TInv'
  OBVIOUS
<1>a. AInv'
  BY AStep, ChaseStep DEF TInv
<1>1. CASE DecisionStep /\ UNCHANGED chaseVars
  BY <1>a, <1>1, DecisionSweeps, TFrame DEF TInv, chaseVars
<1>2. ASSUME NEW c \in Callers, DecisionCancels(c) PROVE TInv'
  <2>1. /\ task' = task /\ late' = late /\ announced' = announced
        /\ deciding'[c].step = "tasks" /\ \A d \in Callers \ {c} : deciding'[d] = deciding[d]
    BY <1>2 DEF DecisionCancels, CancelLadder, TInv, AInv, ApprovalTypeOK
  <2> QED BY <1>a, <2>1, TFrame DEF Swept
<1>3. ASSUME NEW c \in Callers, DecisionClearsTasks(c) PROVE TInv'
  <2> DEFINE r == deciding[c].request
  <2>1. /\ task' = [t \in Rungs |-> AfterDecision(r, t)] /\ late' = late /\ announced' = announced
        /\ deciding'[c].request = r /\ \A d \in Callers \ {c} : deciding'[d] = deciding[d]
    BY <1>3 DEF DecisionClearsTasks, ClearTasks, TInv, AInv, ApprovalTypeOK
  <2>2. \A t \in Rungs : task'[t] \in {task[t], "CANCELLED"} /\ (t[1] = r => task'[t] # "OPEN")
    BY <2>1 DEF AfterDecision
  <2>3. \A q \in Requests : q # r /\ Swept(q)' => Swept(q)
    BY <2>1 DEF Swept
  <2>4. task' \in [Rungs -> {"none", "OPEN", "CANCELLED"}]
    BY <2>1, <2>2 DEF TInv
  <2> QED BY <1>a, <2>1, <2>2, <2>3, <2>4, RungType DEF TInv
<1>4. ASSUME NEW r \in Requests, DecidedHandled(r) PROVE TInv'
  <2>1. /\ task' = task /\ late' = late /\ deciding' = deciding
        /\ announced[r] = "sent" /\ \A q \in Requests \ {r} : announced'[q] = announced[q]
    BY <1>4 DEF DecidedHandled, HandleDecided, TInv, AInv, ApprovalTypeOK
  <2> QED BY <1>a, <2>1, TFrame DEF Swept
<1>5. ASSUME NEW w \in Workers, RaiseTask(w) PROVE TInv'
  <2> DEFINE t == slot[w].rung
  <2>1. /\ task' = [task EXCEPT ![t] = IF task[t] = "none" THEN "OPEN" ELSE task[t]]
        /\ late' = (IF Decided(t[1]) THEN late \cup {t} ELSE late)
        /\ UNCHANGED <<deciding, announced>>
    BY <1>5 DEF RaiseTask, MarkLate, approvalVars
  <2>2. \A u \in Rungs : u # t => task'[u] = task[u]
    BY <2>1 DEF TInv
  <2>3. \A u \in Rungs : Swept(u[1])' /\ task'[u] = "OPEN" => u \in late'
    BY <2>1, <2>2, SweptKept, SweptIsDecided, RungType DEF TInv
  <2>4. task' \in [Rungs -> {"none", "OPEN", "CANCELLED"}]
    BY <2>1 DEF TInv
  <2> QED BY <1>a, <2>3, <2>4 DEF TInv
<1>6. CASE /\ UNCHANGED <<deciding, announced, task>> /\ late \subseteq late'
  BY <1>a, <1>6, SweptKept, TFrame
<1>7. ASSUME NEW w \in Workers, Firing(w), ~RaiseTask(w) PROVE TInv'
  BY <1>6, <1>7 DEF Firing, ClaimRung, ReadSubject, Defer, Reschedule, SendReminder, MarkLate,
     PlaceCall, MarkRung, Finish, approvalVars
<1>8. CASE \E w \in Workers : RungFails(w) \/ \E dies \in BOOLEAN : Stall(w, dies)
  BY <1>6, <1>8 DEF RungFails, Stall, approvalVars
<1>9. CASE \E r \in Requests : Laying(r) \/ LayingBreaks(r)
  BY <1>6, <1>9 DEF Laying, LayRow, LayJob, LayingBreaks, approvalVars
<1>10. CASE TakeOver \/ \E w \in Workers, t \in Rungs : TakeJob(w, t)
  BY <1>6, <1>10 DEF TakeOver, TakeJob, approvalVars
<1>11. CASE UNCHANGED allVars
  BY <1>6, <1>11 DEF allVars, approvalVars, chaseVars
<1> QED BY <1>1, <1>2, <1>3, <1>4, <1>5, <1>7, <1>8, <1>9, <1>10, <1>11 DEF ChaseNext

\* Once a decision is announced, the only calls left to make on the advisor's
\* list are those of rungs that acted while it was being taken.
THEOREM NoTaskIsLeft == ChaseSpec => []AnnouncedLeavesNoTask
<1>1. ChaseInit => TInv
  <2> SUFFICES ASSUME ChaseInit PROVE TInv
    OBVIOUS
  <2>1. task = [t \in Rungs |-> "none"]
    BY DEF ChaseInit
  <2> QED BY <2>1, AInit DEF TInv, ChaseInit
<1>2. TInv => AnnouncedLeavesNoTask
  BY DEF TInv, AnnouncedLeavesNoTask, Swept
<1>3. TInv /\ [ChaseNext]_allVars => TInv'
  BY TStep
<1> QED BY <1>1, <1>2, <1>3, PTL DEF ChaseSpec

\* A second answer, or any step of the ladder, leaves a decision as it was.
THEOREM DecisionIsKept == ApprovalSpec => DecidedOnce
<1>1. AInv /\ [ApprovalNext]_approvalVars
        => [\A r \in Requests : Decided(r) => request'[r] = request[r]]_approvalVars
  BY DecidedKept
<1> QED BY <1>1, ApprovalInvariant, PTL DEF ApprovalSpec, DecidedOnce

-----------------------------------------------------------------------------
(* The ladder's types.  A slot is free or on a rung; a handler that is not    *)
(* done is on a rung.                                                         *)

OnRung(s) == s.rung \in Rungs /\ s.step # "idle"

CInv ==
  /\ AInv /\ ChaseTypeOK
  /\ \A w \in Workers : slot[w] = Free \/ OnRung(slot[w])
  /\ \A r \in Requests : laying[r].step # "done" => laying[r].rung \in 1 .. LastRung

LEMMA CInit == ChaseInit => CInv
<1> SUFFICES ASSUME ChaseInit PROVE CInv
  OBVIOUS
<1>1. AInv
  BY AInit DEF ChaseInit
<1>2. 1 \in 1 .. LastRung /\ 1 \in 1 .. LastRung + 1 /\ 0 \in 0 .. MaxFaults /\ 0 \in 0 .. MaxDeferrals
  BY ChaseAssumption
<1>3. ChaseTypeOK
  BY <1>1, <1>2 DEF ChaseInit, ChaseTypeOK, AInv, Free
<1> QED BY <1>1, <1>2, <1>3 DEF ChaseInit, CInv

\* A step of a slot's own, its rung kept: the slots stay as they must be.
LEMMA SlotMoves ==
  ASSUME CInv, NEW w \in Workers, slot[w] # Free, NEW s, To(w, s),
         s \in {"claim", "read", "act", "reschedule", "executed", "skip", "finish"}
  PROVE  /\ slot' \in [Workers -> [rung : Rungs \cup {NoRung}, owns : BOOLEAN,
                 step : {"idle", "claim", "read", "act", "reschedule", "executed", "skip", "finish"}]]
         /\ \A v \in Workers : slot'[v] = Free \/ OnRung(slot'[v])
         /\ slot[w].rung \in Rungs
BY DEF CInv, ChaseTypeOK, To, OnRung

LEMMA SlotFreed ==
  ASSUME CInv, NEW w \in Workers, slot' = [slot EXCEPT ![w] = Free]
  PROVE  /\ slot' \in [Workers -> [rung : Rungs \cup {NoRung}, owns : BOOLEAN,
                 step : {"idle", "claim", "read", "act", "reschedule", "executed", "skip", "finish"}]]
         /\ \A v \in Workers : slot'[v] = Free \/ OnRung(slot'[v])
BY DEF CInv, ChaseTypeOK, OnRung, Free

LEMMA CStep == CInv /\ [ChaseNext]_allVars => CInv'
<1> SUFFICES ASSUME CInv, [ChaseNext]_allVars PROVE CInv'
  OBVIOUS
<1>a. AInv' /\ ApprovalTypeOK'
  BY AStep, ChaseStep DEF CInv, AInv
<1>b. ASSUME UNCHANGED chaseVars PROVE CInv'
  BY <1>a, <1>b DEF CInv, ChaseTypeOK, chaseVars, OnRung
<1>1. ASSUME NEW r \in Requests, Laying(r) PROVE CInv'
  <2> DEFINE n == laying[r].rung
  <2>1. n \in 1 .. LastRung /\ <<r, n>> \in Rungs
    BY <1>1 DEF Laying, LayRow, LayJob, CInv, Rungs
  <2>2. /\ After(n) \in [rung : 1 .. LastRung + 1, step : {"insert", "enqueue", "done"}]
        /\ After(n).step # "done" => After(n).rung \in 1 .. LastRung
    BY <2>1, ChaseAssumption DEF After
  <2>3. /\ laying' \in [Requests -> [rung : 1 .. LastRung + 1, step : {"insert", "enqueue", "done"}]]
        /\ \A q \in Requests : laying'[q].step # "done" => laying'[q].rung \in 1 .. LastRung
    <3>1. \/ laying' = [laying EXCEPT ![r].step = "enqueue"]
          \/ laying' = [laying EXCEPT ![r] = After(n)]
      BY <1>1 DEF Laying, LayRow, LayJob
    <3>2. CASE laying' = [laying EXCEPT ![r].step = "enqueue"]
      BY <2>1, <3>2 DEF CInv, ChaseTypeOK
    <3>3. CASE laying' = [laying EXCEPT ![r] = After(n)]
      BY <2>2, <3>3 DEF CInv, ChaseTypeOK
    <3> QED BY <3>1, <3>2, <3>3
  <2>4. /\ row' \in [Rungs -> {"none", "SCHEDULED", "EXECUTED", "SKIPPED", "CANCELLED"}]
        /\ job' \in [Rungs -> {"none", "delayed", "active", "completed", "failed"}]
    BY <1>1, <2>1 DEF Laying, LayRow, LayJob, CInv, ChaseTypeOK
  <2>5. UNCHANGED <<slot, takenOver, nudged, task, late, faults, deferrals>>
    BY <1>1 DEF Laying, LayRow, LayJob
  <2> QED BY <1>a, <2>3, <2>4, <2>5 DEF CInv, ChaseTypeOK, OnRung
<1>2. ASSUME NEW r \in Requests, LayingBreaks(r) PROVE CInv'
  <2>1. faults' \in 0 .. MaxFaults /\ 1 \in 1 .. LastRung /\ 1 \in 1 .. LastRung + 1
    BY <1>2, ChaseAssumption DEF LayingBreaks, CInv, ChaseTypeOK
  <2> QED BY <1>2, <1>a, <2>1 DEF LayingBreaks, StartOver, CInv, ChaseTypeOK, OnRung
<1>3. ASSUME NEW w \in Workers, NEW t \in Rungs, TakeJob(w, t) PROVE CInv'
  BY <1>3, <1>a DEF TakeJob, CInv, ChaseTypeOK, OnRung
<1>4. ASSUME NEW w \in Workers, Firing(w), ~Finish(w) PROVE CInv'
  <2>1. slot[w] # Free
    BY <1>4 DEF Firing, ClaimRung, ReadSubject, Defer, Reschedule, SendReminder, RaiseTask,
       PlaceCall, MarkRung, At, Free
  <2>2. PICK s \in {"claim", "read", "act", "reschedule", "executed", "skip", "finish"} : To(w, s)
    BY <1>4 DEF Firing, ClaimRung, ReadSubject, Defer, Reschedule, SendReminder, RaiseTask,
       PlaceCall, MarkRung
  <2>3. slot[w].rung \in Rungs
    BY <2>1, <2>2, SlotMoves
  <2>4. /\ row' \in [Rungs -> {"none", "SCHEDULED", "EXECUTED", "SKIPPED", "CANCELLED"}]
        /\ job' \in [Rungs -> {"none", "delayed", "active", "completed", "failed"}]
        /\ task' \in [Rungs -> {"none", "OPEN", "CANCELLED"}]
    BY <1>4, <2>3 DEF Firing, ClaimRung, ReadSubject, Defer, Reschedule, SendReminder, RaiseTask,
       PlaceCall, MarkRung, CInv, ChaseTypeOK
  <2>5. nudged' \subseteq Rungs /\ late' \subseteq Rungs
    BY <1>4, <2>3 DEF Firing, ClaimRung, ReadSubject, Defer, Reschedule, SendReminder, RaiseTask,
       PlaceCall, MarkRung, MarkLate, CInv, ChaseTypeOK
  <2>6. deferrals' \in 0 .. MaxDeferrals
    BY <1>4, ChaseAssumption DEF Firing, ClaimRung, ReadSubject, Defer, Reschedule, SendReminder,
       RaiseTask, PlaceCall, MarkRung, CInv, ChaseTypeOK
  <2>7. UNCHANGED <<laying, takenOver, faults>>
    BY <1>4 DEF Firing, ClaimRung, ReadSubject, Defer, Reschedule, SendReminder, RaiseTask,
       PlaceCall, MarkRung
  <2> QED BY <1>a, <2>1, <2>2, <2>4, <2>5, <2>6, <2>7, SlotMoves DEF CInv, ChaseTypeOK
<1>5. ASSUME NEW w \in Workers, Finish(w) PROVE CInv'
  <2>1. /\ slot' = [slot EXCEPT ![w] = Free]
        /\ UNCHANGED <<laying, row, takenOver, nudged, task, late, faults, deferrals>>
    BY <1>5 DEF Finish
  <2>2. job' \in [Rungs -> {"none", "delayed", "active", "completed", "failed"}]
    BY <1>5 DEF Finish, CInv, ChaseTypeOK
  <2> QED BY <1>a, <2>1, <2>2, SlotFreed DEF CInv, ChaseTypeOK
<1>6. ASSUME NEW w \in Workers, RungFails(w) PROVE CInv'
  <2>1. /\ slot' = [slot EXCEPT ![w] = Free]
        /\ UNCHANGED <<laying, row, takenOver, nudged, task, late, deferrals>>
    BY <1>6 DEF RungFails
  <2>2. job' \in [Rungs -> {"none", "delayed", "active", "completed", "failed"}]
    BY <1>6 DEF RungFails, CInv, ChaseTypeOK
  <2>3. faults' \in 0 .. MaxFaults
    BY <1>6, ChaseAssumption DEF RungFails, CInv, ChaseTypeOK
  <2> QED BY <1>a, <2>1, <2>2, <2>3, SlotFreed DEF CInv, ChaseTypeOK
<1>7. ASSUME NEW w \in Workers, NEW dies \in BOOLEAN, Stall(w, dies) PROVE CInv'
  <2>1. UNCHANGED <<laying, row, takenOver, nudged, task, late, deferrals>>
    BY <1>7 DEF Stall
  <2>2. job' \in [Rungs -> {"none", "delayed", "active", "completed", "failed"}]
    BY <1>7 DEF Stall, CInv, ChaseTypeOK
  <2>3. faults' \in 0 .. MaxFaults
    BY <1>7, ChaseAssumption DEF Stall, CInv, ChaseTypeOK
  <2>4. /\ slot' \in [Workers -> [rung : Rungs \cup {NoRung}, owns : BOOLEAN,
              step : {"idle", "claim", "read", "act", "reschedule", "executed", "skip", "finish"}]]
        /\ \A v \in Workers : slot'[v] = Free \/ OnRung(slot'[v])
    <3>1. CASE dies
      BY <1>7, <3>1, SlotFreed DEF Stall
    <3>2. CASE ~dies
      <4>1. slot[w].owns /\ slot' = [slot EXCEPT ![w].owns = FALSE]
        BY <1>7, <3>2 DEF Stall
      <4>2. OnRung(slot[w])
        BY <4>1 DEF CInv, Free
      <4> QED BY <4>1, <4>2 DEF CInv, ChaseTypeOK, OnRung
    <3> QED BY <3>1, <3>2
  <2> QED BY <1>a, <2>1, <2>2, <2>3, <2>4 DEF CInv, ChaseTypeOK
<1>8. ASSUME NEW r, CancelRungs(r),
             UNCHANGED <<laying, slot, takenOver, nudged, task, late, faults, deferrals>>
      PROVE  CInv'
  <2>1. /\ row' \in [Rungs -> {"none", "SCHEDULED", "EXECUTED", "SKIPPED", "CANCELLED"}]
        /\ job' \in [Rungs -> {"none", "delayed", "active", "completed", "failed"}]
    BY <1>8 DEF CancelRungs, CInv, ChaseTypeOK
  <2> QED BY <1>8, <1>a, <2>1 DEF CInv, ChaseTypeOK, OnRung
<1>9. ASSUME NEW c \in Callers, DecisionClearsTasks(c) PROVE CInv'
  <2>1. task' \in [Rungs -> {"none", "OPEN", "CANCELLED"}]
    BY <1>9 DEF DecisionClearsTasks, AfterDecision, CInv, ChaseTypeOK
  <2> QED BY <1>9, <1>a, <2>1 DEF DecisionClearsTasks, CInv, ChaseTypeOK, OnRung
<1>10. CASE TakeOver
  BY <1>10, <1>a DEF TakeOver, CInv, ChaseTypeOK, OnRung
<1>11. CASE \E c \in Callers : DecisionCancels(c)
  BY <1>8, <1>11 DEF DecisionCancels
<1>12. CASE \E r \in Requests : DecidedHandled(r)
  BY <1>8, <1>12 DEF DecidedHandled
<1> QED BY <1>b, <1>1, <1>2, <1>3, <1>4, <1>5, <1>6, <1>7, <1>9, <1>10, <1>11, <1>12
        DEF ChaseNext, allVars

\* The ladder's rows, jobs and slots stay in their ranges, and a rung that is
\* being fired is one of the request's.
THEOREM ChaseTypes == ChaseSpec => []ChaseTypeOK
<1>1. CInv => ChaseTypeOK
  BY DEF CInv
<1> QED BY <1>1, CInit, CStep, PTL DEF ChaseSpec

\* All of it: what was announced is done, and off the advisor's list.
THEOREM AnnouncementIsDone == ChaseSpec => []AnnouncedIsDone
<1>1. ChaseTypeOK /\ AnnouncedIsApplied /\ AnnouncedLeavesNoTask => AnnouncedIsDone
  BY DEF AnnouncedIsDone
<1> QED BY <1>1, ChaseTypes, AnnouncementIsTrue, NoTaskIsLeft, PTL
-----------------------------------------------------------------------------
(* The decision stops the chase.  Every slot that is acting for a decided     *)
(* request read it before the decision; acting turns at most one such slot    *)
(* into one rung too late, and no slot comes to act for it any more.          *)

LateFor(r) == {t \in late : t[1] = r}
ActingFor(r) == {w \in Workers : At(w, "act") /\ slot[w].rung[1] = r}

\* The calls that may still act, and those that have, are no more than the slots.
Stopped(r) ==
  /\ IsFiniteSet(LateFor(r))
  /\ ~Decided(r) => LateFor(r) = {}
  /\ Decided(r) => Cardinality(LateFor(r)) + Cardinality(ActingFor(r)) <= Cardinality(Workers)

DInv == CInv /\ \A r \in Requests : Stopped(r)

\* The acting slots are some of the slots.
LEMMA ActingIsFinite ==
  ASSUME NEW S, S \subseteq Workers
  PROVE  /\ IsFiniteSet(S) /\ Cardinality(S) \in Nat /\ Cardinality(Workers) \in Nat
         /\ Cardinality(S) <= Cardinality(Workers)
BY ChaseAssumption, FS_Subset, FS_CardinalityType

\* How a step changes a decided request's share: nothing comes to act and nothing
\* is late, or one slot that was acting has acted.
Sound(r) ==
  \/ LateFor(r)' = LateFor(r) /\ ActingFor(r)' \subseteq ActingFor(r)
  \/ \E w \in ActingFor(r), t \in Rungs :
       LateFor(r)' \subseteq LateFor(r) \cup {t} /\ ActingFor(r)' = ActingFor(r) \ {w}

LEMMA SoundKeeps ==
  ASSUME NEW r \in Requests, Stopped(r), Decided(r), Decided(r)', Sound(r)
  PROVE  Stopped(r)'
<1> DEFINE L == LateFor(r)  A == ActingFor(r)
           L1 == LateFor(r)'  A1 == ActingFor(r)'
<1>1. /\ IsFiniteSet(L) /\ Cardinality(L) \in Nat /\ IsFiniteSet(A) /\ Cardinality(A) \in Nat
      /\ Cardinality(L) + Cardinality(A) <= Cardinality(Workers) /\ Cardinality(Workers) \in Nat
  BY FS_CardinalityType, ActingIsFinite DEF Stopped, ActingFor
<1>2. Sound(r) <=> \/ L1 = L /\ A1 \subseteq A
                   \/ \E w \in A, t \in Rungs : L1 \subseteq L \cup {t} /\ A1 = A \ {w}
  BY DEF Sound
<1>3. Stopped(r)' <=> /\ IsFiniteSet(L1)
                      /\ ~Decided(r)' => L1 = {}
                      /\ Decided(r)' => Cardinality(L1) + Cardinality(A1) <= Cardinality(Workers)
  BY DEF Stopped
<1> HIDE DEF L, A, L1, A1
<1>4. CASE L1 = L /\ A1 \subseteq A
  <2>1. Cardinality(A1) <= Cardinality(A) /\ Cardinality(A1) \in Nat
    BY <1>1, <1>4, FS_Subset, FS_CardinalityType
  <2> QED BY <1>1, <1>3, <1>4, <2>1
<1>5. ASSUME NEW w \in A, NEW t \in Rungs, L1 \subseteq L \cup {t}, A1 = A \ {w}
      PROVE  Stopped(r)'
  <2>1. Cardinality(A1) = Cardinality(A) - 1
    BY <1>1, <1>5, FS_RemoveElement
  <2>2. IsFiniteSet(L \cup {t}) /\ Cardinality(L \cup {t}) <= Cardinality(L) + 1
        /\ Cardinality(L \cup {t}) \in Nat
    <3>1. /\ IsFiniteSet(L \cup {t})
          /\ Cardinality(L \cup {t}) = IF t \in L THEN Cardinality(L) ELSE Cardinality(L) + 1
      BY <1>1, FS_AddElement
    <3> QED BY <1>1, <3>1
  <2>3. IsFiniteSet(L1) /\ Cardinality(L1) <= Cardinality(L \cup {t}) /\ Cardinality(L1) \in Nat
    BY <1>5, <2>2, FS_Subset, FS_CardinalityType
  <2> QED BY <1>1, <1>3, <2>1, <2>2, <2>3
<1> QED BY <1>2, <1>4, <1>5

LEMMA DInit == ChaseInit => DInv
<1> SUFFICES ASSUME ChaseInit PROVE DInv
  OBVIOUS
<1>1. \A r \in Requests : ~Decided(r) /\ LateFor(r) = {}
  BY DEF ChaseInit, ApprovalInit, Unmade, Decided, LateFor
<1> QED BY <1>1, CInit, FS_EmptySet DEF DInv, Stopped

\* What a slot does next, as far as the request's share goes.
LEMMA FiringShare ==
  ASSUME CInv, NEW w \in Workers, Firing(w), NEW r \in Requests, Decided(r)
  PROVE  Sound(r)
<1>1. CASE ReadSubject(w)
  <2>1. slot' = [slot EXCEPT ![w].step = IF Stops(slot[w].rung[1]) THEN "skip" ELSE "act"] /\ late' = late
    BY <1>1 DEF ReadSubject, To
  <2>2. slot[w].rung[1] = r => slot'[w].step = "skip"
    BY <2>1 DEF Stops, CInv, ChaseTypeOK
  <2>3. slot'[w].rung = slot[w].rung
    BY <2>1 DEF CInv, ChaseTypeOK
  <2>4. \A v \in Workers : v # w => slot'[v] = slot[v]
    BY <2>1 DEF CInv, ChaseTypeOK
  <2>5. ActingFor(r)' \subseteq ActingFor(r)
    BY <2>2, <2>3, <2>4 DEF ActingFor, At
  <2> QED BY <2>1, <2>5 DEF Sound, LateFor
<1>2. CASE SendReminder(w) \/ RaiseTask(w) \/ PlaceCall(w)
  <2> DEFINE t == slot[w].rung
  <2>1. /\ At(w, "act") /\ (late' = late \/ late' = IF Decided(t[1]) THEN late \cup {t} ELSE late)
        /\ \E s \in {"executed", "finish"} : slot' = [slot EXCEPT ![w].step = s]
    BY <1>2 DEF SendReminder, RaiseTask, PlaceCall, MarkLate, To
  <2>2. t \in Rungs
    BY <2>1 DEF CInv, OnRung, At, Free
  <2>3. /\ slot'[w].step # "act"
        /\ \A v \in Workers : v # w => slot'[v] = slot[v]
    BY <2>1 DEF CInv, ChaseTypeOK
  <2>4. ActingFor(r)' = ActingFor(r) \ {w}
    BY <2>3 DEF ActingFor, At
  <2>5. t[1] = r => w \in ActingFor(r)
    BY <2>1 DEF ActingFor
  <2>6. t[1] # r => LateFor(r)' = LateFor(r)
    BY <2>1 DEF LateFor
  <2>7. LateFor(r)' \subseteq LateFor(r) \cup {t}
    BY <2>1 DEF LateFor
  <2> HIDE DEF t
  <2> QED BY <2>2, <2>4, <2>5, <2>6, <2>7 DEF Sound
<1>3. CASE ClaimRung(w) \/ Defer(w) \/ Reschedule(w) \/ MarkRung(w) \/ Finish(w)
  <2>1. late' = late /\ \E v \in {slot'[w]} : v.step # "act"
    BY <1>3 DEF ClaimRung, Defer, Reschedule, MarkRung, Finish, To, CInv, ChaseTypeOK, Free
  <2>2. \A v \in Workers : v # w => slot'[v] = slot[v]
    BY <1>3 DEF ClaimRung, Defer, Reschedule, MarkRung, Finish, To, CInv, ChaseTypeOK
  <2>3. ActingFor(r)' \subseteq ActingFor(r)
    BY <2>1, <2>2 DEF ActingFor, At
  <2> QED BY <2>1, <2>3 DEF Sound, LateFor
<1> QED BY <1>1, <1>2, <1>3 DEF Firing

LEMMA StepShare ==
  ASSUME CInv, [ChaseNext]_allVars, NEW r \in Requests, Decided(r)
  PROVE  Sound(r)
<1>1. ASSUME UNCHANGED <<slot, late>> PROVE Sound(r)
  BY <1>1 DEF Sound, LateFor, ActingFor, At
<1>2. CASE DecisionStep /\ UNCHANGED chaseVars
  BY <1>1, <1>2 DEF chaseVars
<1>3. CASE \E q \in Requests : Laying(q) \/ LayingBreaks(q) \/ DecidedHandled(q)
  BY <1>1, <1>3 DEF Laying, LayRow, LayJob, LayingBreaks, DecidedHandled
<1>4. ASSUME NEW w \in Workers, NEW t \in Rungs, TakeJob(w, t) PROVE Sound(r)
  <2>1. late' = late /\ slot'[w].step = "claim" /\ \A v \in Workers : v # w => slot'[v] = slot[v]
    BY <1>4 DEF TakeJob, CInv, ChaseTypeOK
  <2> QED BY <2>1 DEF Sound, LateFor, ActingFor, At
<1>5. ASSUME NEW w \in Workers, RungFails(w) \/ \E dies \in BOOLEAN : Stall(w, dies) PROVE Sound(r)
  <2>1. /\ late' = late
        /\ slot'[w] = Free \/ (slot'[w].step = slot[w].step /\ slot'[w].rung = slot[w].rung)
        /\ \A v \in Workers : v # w => slot'[v] = slot[v]
    BY <1>5 DEF RungFails, Stall, CInv, ChaseTypeOK
  <2> QED BY <2>1 DEF Sound, LateFor, ActingFor, At, Free
<1>6. CASE \E c \in Callers : DecisionCancels(c) \/ DecisionClearsTasks(c)
  BY <1>1, <1>6 DEF DecisionCancels, DecisionClearsTasks
<1>7. CASE TakeOver
  BY <1>1, <1>7 DEF TakeOver
<1> QED BY <1>1, <1>2, <1>3, <1>4, <1>5, <1>6, <1>7, FiringShare DEF ChaseNext, allVars, chaseVars

\* Before the decision nothing is late for the request, and the step that decides
\* it makes nothing late.
LEMMA UndecidedStep ==
  ASSUME CInv, [ChaseNext]_allVars, NEW r \in Requests, ~Decided(r), LateFor(r) = {}
  PROVE  LateFor(r)' = {}
<1>1. CASE UNCHANGED late
  BY <1>1 DEF LateFor
<1>2. CASE \E w \in Workers : SendReminder(w) \/ RaiseTask(w) \/ PlaceCall(w)
  <2>1. PICK w \in Workers : SendReminder(w) \/ RaiseTask(w) \/ PlaceCall(w)
    BY <1>2
  <2>2. late' = late \/ late' = IF Decided(slot[w].rung[1]) THEN late \cup {slot[w].rung} ELSE late
    BY <2>1 DEF SendReminder, RaiseTask, PlaceCall, MarkLate
  <2> QED BY <2>2 DEF LateFor
<1>3. CASE \E w \in Workers : \/ ClaimRung(w) \/ ReadSubject(w) \/ Defer(w) \/ Reschedule(w) \/ MarkRung(w)
                              \/ Finish(w) \/ RungFails(w) \/ \E dies \in BOOLEAN : Stall(w, dies)
  BY <1>1, <1>3 DEF ClaimRung, ReadSubject, Defer, Reschedule, MarkRung, Finish, RungFails, Stall
<1>4. CASE \/ \E q \in Requests : Laying(q) \/ LayingBreaks(q) \/ DecidedHandled(q)
           \/ \E w \in Workers, t \in Rungs : TakeJob(w, t)
           \/ \E c \in Callers : DecisionCancels(c) \/ DecisionClearsTasks(c)
           \/ TakeOver
  BY <1>1, <1>4 DEF Laying, LayRow, LayJob, LayingBreaks, DecidedHandled, TakeJob, DecisionCancels,
     DecisionClearsTasks, TakeOver
<1> QED BY <1>1, <1>2, <1>3, <1>4 DEF ChaseNext, Firing, allVars, chaseVars

LEMMA DStep == DInv /\ [ChaseNext]_allVars => DInv'
<1> SUFFICES ASSUME DInv, [ChaseNext]_allVars PROVE DInv'
  OBVIOUS
<1>1. CInv'
  BY CStep DEF DInv
<1>2. ASSUME NEW r \in Requests, Decided(r) PROVE Stopped(r)'
  <2>1. request'[r] = request[r]
    BY <1>2, DecidedKept, ChaseStep DEF DInv, CInv
  <2>2. Decided(r)'
    BY <1>2, <2>1 DEF Decided
  <2> QED BY <1>2, <2>2, SoundKeeps, StepShare DEF DInv
<1>3. ASSUME NEW r \in Requests, ~Decided(r) PROVE Stopped(r)'
  <2>1. LateFor(r)' = {}
    BY <1>3, UndecidedStep DEF DInv, Stopped
  <2>2. IsFiniteSet(LateFor(r)') /\ Cardinality(LateFor(r)') = 0
    BY <2>1, FS_EmptySet
  <2>3. Cardinality(ActingFor(r)') \in Nat /\ Cardinality(ActingFor(r)') <= Cardinality(Workers)
    <3>1. ActingFor(r)' \subseteq Workers
      BY DEF ActingFor
    <3> QED BY <3>1, ActingIsFinite
  <2> QED BY <2>1, <2>2, <2>3 DEF Stopped
<1> QED BY <1>1, <1>2, <1>3 DEF DInv

\* However the ladder's slots, lost locks and deferrals interleave with the
\* decision, no more rungs act after it than there are slots, each of them one
\* that had read the request before.
THEOREM DecisionStops == ChaseSpec => []DecisionStopsTheChase
<1>1. DInv => DecisionStopsTheChase
  BY DEF DInv, Stopped, DecisionStopsTheChase, LateFor, ActingFor
<1> QED BY <1>1, DInit, DStep, PTL DEF ChaseSpec
-----------------------------------------------------------------------------
(***************************************************************************)
(* VoiceCall.  A call's line says how far its row is, which facts are on   *)
(* file and whether a decision has been recorded; the calls counted and    *)
(* those the gate has let through are, together, within the day's cap and  *)
(* the worker's slots.                                                     *)
(***************************************************************************)

BeforeTheRow == {"idle", "gate", "allowed", "refused"}
Dialling == {"dial", "accepted", "ringing", "answered"}
InTheLoop == {"top", "listen", "confirm", "plan", "start", "run", "acting"}
Opened == Dialling \cup InTheLoop \cup
          {"opening", "noticed", "started", "ran", "keyed", "closing", "bridge", "exit", "caught",
           "close", "finishing"}
LineAt == BeforeTheRow \cup Opened \cup {"reporting", "done", "dead"}

Endings == {"none", "CONSENT_REVOKED", "CUSTOMER_CALL_CAP", "OTHER_REFUSAL", "PROVIDER_ERROR",
            "NO_ANSWER", "CUSTOMER_HUNG_UP", "DECISION_RECORDED", "BRIDGED", "ADVISOR_TASK_RAISED",
            "PIPELINE_FAILURE"}
Maybe == Decisions \cup {"none"}
Facts == {"RECORDING_NOTICE_PLAYED", "RECORDING_STARTED", "RECORDING_STOPPED"}
OpenRow == {"ORIGINATING", "RINGING", "IN_PROGRESS", "BRIDGING"}
EndedRow == {"COMPLETED", "FAILED"}
Line == [at : LineAt, turn : Nat, plan : BOOLEAN, readback : Maybe, confirmed : BOOLEAN,
         pending : Maybe, decision : Maybe,
         got : {"nothing", "refused", "recorded", "spoke", "handoff", "blocked"},
         recorder : BOOLEAN, handedOff : BOOLEAN, ending : Endings]

VoiceTypes ==
  /\ line \in [Calls -> Line] /\ callRow \in [Calls -> {"none", "BLOCKED"} \cup OpenRow \cup EndedRow]
  /\ facts \in [Calls -> SUBSET Facts] /\ metered \in [Calls -> Nat]
  /\ told \in [Calls -> Maybe] /\ tally \in [Calls -> SUBSET Decisions]
  /\ recorded \subseteq Calls /\ rang \subseteq Calls /\ callTask \subseteq Calls
  /\ chased.decision \in Maybe

\* What the rows say of a call, and its line.
RowHolds(c) ==
  /\ c \in recorded \/ line[c].recorder => "RECORDING_NOTICE_PLAYED" \in facts[c]
  /\ metered[c] = IF callRow[c] \in EndedRow THEN 1 ELSE 0
  /\ line[c].at \in BeforeTheRow => callRow[c] = "none"
  /\ line[c].at \in Opened => callRow[c] \in OpenRow
  /\ c \in rang => callRow[c] \notin {"none", "BLOCKED"}

OnRecord(c) == chased.decision # "none" \/ c \in callTask

\* A call that is ending is settled: somebody has it, or will once it is reported.
Settled(c) ==
  \/ OnRecord(c)
  \/ line[c].ending \in {"BRIDGED", "CUSTOMER_HUNG_UP", "CONSENT_REVOKED"}
  \/ line[c].ending = "NO_ANSWER" /\ c \notin Repeats

LineHolds(c) ==
  /\ line[c].pending # "none" => line[c].pending \in tally[c]
  /\ line[c].at = "keyed" => line[c].decision \in tally[c]
  /\ line[c].at \in BeforeTheRow \cup Dialling \cup InTheLoop \cup {"opening", "noticed", "started"} =>
       line[c].decision = "none"
  /\ line[c].at = "ran" /\ line[c].decision # "none" =>
       line[c].readback = "none" /\ line[c].got = "recorded" /\ chased.decision # "none"
  /\ line[c].at = "closing" \/ told[c] # "none" => OnRecord(c)
  /\ line[c].at \in {"refused", "close", "finishing", "reporting"} => Settled(c) \/ LeftToAdvisor(c)
  /\ line[c].at = "done" => Settled(c)

Counted == {c \in Calls : callRow[c] \notin {"none", "BLOCKED"}}
Allowed == {c \in Calls : line[c].at = "allowed"}
Occupied == {c \in Calls : line[c].at \notin Resting}

\* Who was let through was below the cap, and only the slots' calls can be let
\* through before the first of them is counted.
CallsCounted ==
  /\ Cardinality(Occupied) <= Slots
  /\ Cardinality(Counted) + Cardinality(Allowed) < CallCap + Slots

CallsHold == VoiceTypes /\ (\A c \in Calls : RowHolds(c) /\ LineHolds(c)) /\ CallsCounted
-----------------------------------------------------------------------------
LEMMA CallSetsAreFinite ==
  ASSUME VoiceTypes
  PROVE  /\ IsFiniteSet(Occupied) /\ IsFiniteSet(Counted) /\ IsFiniteSet(Allowed)
         /\ Cardinality(Occupied) \in Nat /\ Cardinality(Counted) \in Nat /\ Cardinality(Allowed) \in Nat
<1>1. Occupied \subseteq Calls /\ Counted \subseteq Calls /\ Allowed \subseteq Calls
  BY DEF Occupied, Counted, Allowed
<1> QED BY <1>1, VoiceAssumption, FS_Subset, FS_CardinalityType

LEMMA VoiceIsStrong == CallsHold => CallsAreSound
<1> SUFFICES ASSUME CallsHold PROVE CallsAreSound
  OBVIOUS
<1>1. RecordingHadNotice BY DEF CallsHold, RowHolds, RecordingHadNotice
<1>2. CallsOvershootBySlots
  <2>1. rang \in SUBSET Counted BY DEF CallsHold, VoiceTypes, RowHolds, Counted
  <2>2. Cardinality(rang) \in Nat /\ Cardinality(rang) <= Cardinality(Counted)
    BY <2>1, CallSetsAreFinite, FS_Subset, FS_CardinalityType DEF CallsHold
  <2>3. /\ Cardinality(Counted) + Cardinality(Allowed) < CallCap + Slots
        /\ Cardinality(Counted) \in Nat /\ Cardinality(Allowed) \in Nat
    BY CallSetsAreFinite DEF CallsHold, CallsCounted
  <2> QED BY <2>2, <2>3, VoiceAssumption DEF CallsOvershootBySlots
<1>3. ToldIsOnRecord BY DEF CallsHold, LineHolds, OnRecord, ToldIsOnRecord
<1>4. KeyedWasReadBack BY DEF CallsHold, LineHolds, KeyedWasReadBack, OnLine
<1>5. SomebodyHasIt BY DEF CallsHold, LineHolds, Settled, OnRecord, SomebodyHasIt, OnLine
<1>6. EndedIsMetered BY DEF CallsHold, RowHolds, EndedRow, EndedIsMetered
<1> QED BY <1>1, <1>2, <1>3, <1>4, <1>5, <1>6 DEF CallsAreSound
-----------------------------------------------------------------------------
\* Beside one call's step: the others' rows and lines are theirs, a decision stays
\* and a task stays.
LEMMA OthersHold ==
  ASSUME CallsHold, NEW c \in Calls,
         \A k \in Calls \ {c} :
           /\ line'[k] = line[k] /\ callRow'[k] = callRow[k] /\ facts'[k] = facts[k]
           /\ metered'[k] = metered[k] /\ told'[k] = told[k] /\ tally'[k] = tally[k]
           /\ k \in recorded' <=> k \in recorded
           /\ k \in rang' <=> k \in rang,
         callTask \subseteq callTask', chased.decision # "none" => chased'.decision # "none"
  PROVE  \A k \in Calls \ {c} : RowHolds(k)' /\ LineHolds(k)'
<1> TAKE k \in Calls \ {c}
<1>1. RowHolds(k) /\ LineHolds(k) BY DEF CallsHold
<1>2. RowHolds(k)' BY <1>1 DEF RowHolds
<1>3. (OnRecord(k) => OnRecord(k)') /\ (Settled(k) => Settled(k)') /\ (LeftToAdvisor(k) => LeftToAdvisor(k)')
  BY DEF OnRecord, Settled, LeftToAdvisor
<1>4. LineHolds(k)' BY <1>1, <1>3 DEF LineHolds
<1> QED BY <1>2, <1>4

\* The counts stand as long as nobody is let through or counted.
LEMMA CountsStand ==
  ASSUME CallsHold, VoiceTypes', Occupied' \subseteq Occupied, Allowed' \subseteq Allowed,
         Counted' \subseteq Counted
  PROVE  CallsCounted'
<1>1. /\ Cardinality(Occupied') <= Cardinality(Occupied) /\ Cardinality(Allowed') <= Cardinality(Allowed)
      /\ Cardinality(Counted') <= Cardinality(Counted)
      /\ Cardinality(Occupied') \in Nat /\ Cardinality(Allowed') \in Nat /\ Cardinality(Counted') \in Nat
  BY CallSetsAreFinite, FS_Subset, FS_CardinalityType DEF CallsHold
<1>2. /\ Cardinality(Occupied) \in Nat /\ Cardinality(Allowed) \in Nat /\ Cardinality(Counted) \in Nat
      /\ Cardinality(Occupied) <= Slots
      /\ Cardinality(Counted) + Cardinality(Allowed) < CallCap + Slots
      /\ Slots \in Nat /\ CallCap \in Nat
  BY CallSetsAreFinite, VoiceAssumption DEF CallsHold, CallsCounted
<1>3. Cardinality(Occupied') <= Slots BY <1>1, <1>2
<1>4. Cardinality(Counted') + Cardinality(Allowed') < CallCap + Slots BY <1>1, <1>2
<1> QED BY <1>3, <1>4 DEF CallsCounted

\* A line's step: where it goes, what the others see.
LEMMA LineMoves ==
  ASSUME CallsHold, NEW c \in Calls, NEW l \in Line, Becomes(c, l)
  PROVE  /\ line' \in [Calls -> Line] /\ line'[c] = l
         /\ \A k \in Calls \ {c} : line'[k] = line[k]
         /\ line[c].at \notin Resting => Occupied' \subseteq Occupied
         /\ l.at # "allowed" => Allowed' \subseteq Allowed
<1>1. /\ line' \in [Calls -> Line] /\ line'[c] = l
      /\ \A k \in Calls \ {c} : line'[k] = line[k]
  BY DEF CallsHold, VoiceTypes, Becomes
<1>2. line[c].at \notin Resting => Occupied' \subseteq Occupied BY <1>1 DEF Occupied
<1>3. l.at # "allowed" => Allowed' \subseteq Allowed BY <1>1 DEF Allowed
<1> QED BY <1>1, <1>2, <1>3

\* A step of one call that leaves the rows alone.
LEMMA TalkKeeps ==
  ASSUME CallsHold, NEW c \in Calls, NEW l \in Line, Becomes(c, l), UNCHANGED rowsVars,
         line[c].at \notin Resting, l.at # "allowed",
         l.recorder => line[c].recorder \/ "RECORDING_NOTICE_PLAYED" \in facts[c],
         l.at \in BeforeTheRow => line[c].at \in BeforeTheRow,
         l.at \in Opened => line[c].at \in Opened,
         told' \in [Calls -> Maybe], \A k \in Calls \ {c} : told'[k] = told[k],
         tally' \in [Calls -> SUBSET Decisions], \A k \in Calls \ {c} : tally'[k] = tally[k],
         callTask \subseteq callTask', callTask' \subseteq Calls,
         chased'.decision \in Maybe, chased.decision # "none" => chased'.decision # "none",
         LineHolds(c)'
  PROVE  CallsHold'
<1>1. UNCHANGED <<callRow, facts, recorded, metered, rang>> BY DEF rowsVars
<1>2. /\ line' \in [Calls -> Line] /\ line'[c] = l
      /\ \A k \in Calls \ {c} : line'[k] = line[k]
      /\ Occupied' \subseteq Occupied /\ Allowed' \subseteq Allowed
  BY LineMoves
<1>3. VoiceTypes' BY <1>1, <1>2 DEF CallsHold, VoiceTypes
<1>4. CallsCounted'
  <2>1. Counted' \subseteq Counted BY <1>1 DEF Counted
  <2> QED BY <2>1, <1>2, <1>3, CountsStand
<1>5. \A k \in Calls \ {c} : RowHolds(k)' /\ LineHolds(k)' BY <1>1, <1>2, OthersHold
<1>6. RowHolds(c)' BY <1>1, <1>2 DEF CallsHold, RowHolds
<1> QED BY <1>3, <1>4, <1>5, <1>6 DEF CallsHold

\* A step of one call that leaves the talk alone: the row, the facts, the meter.
LEMMA RowKeeps ==
  ASSUME CallsHold, NEW c \in Calls, NEW l \in Line, Becomes(c, l),
         UNCHANGED <<chased, callTask, told, tally>>,
         line[c].at \notin Resting, l.at # "allowed",
         callRow' \in [Calls -> {"none", "BLOCKED"} \cup OpenRow \cup EndedRow],
         facts' \in [Calls -> SUBSET Facts], metered' \in [Calls -> Nat],
         recorded' \subseteq Calls, rang' \subseteq Calls,
         \A k \in Calls \ {c} :
           /\ callRow'[k] = callRow[k] /\ facts'[k] = facts[k] /\ metered'[k] = metered[k]
           /\ k \in recorded' <=> k \in recorded
           /\ k \in rang' <=> k \in rang,
         callRow[c] \in {"none", "BLOCKED"} => callRow'[c] \in {"none", "BLOCKED"},
         RowHolds(c)', LineHolds(c)'
  PROVE  CallsHold'
<1>2. /\ line' \in [Calls -> Line] /\ line'[c] = l
      /\ \A k \in Calls \ {c} : line'[k] = line[k]
      /\ Occupied' \subseteq Occupied /\ Allowed' \subseteq Allowed
  BY LineMoves
<1>3. VoiceTypes' BY <1>2 DEF CallsHold, VoiceTypes
<1>4. CallsCounted'
  <2>1. Counted' \subseteq Counted BY DEF Counted
  <2> QED BY <2>1, <1>2, <1>3, CountsStand
<1>5. \A k \in Calls \ {c} : RowHolds(k)' /\ LineHolds(k)' BY <1>2, OthersHold
<1> QED BY <1>3, <1>4, <1>5 DEF CallsHold
-----------------------------------------------------------------------------
\* What a line keeps when only its place and its ending change.
AsBefore(l, m) ==
  /\ m.turn = l.turn /\ m.readback = l.readback /\ m.pending = l.pending
  /\ m.decision = l.decision /\ m.got = l.got
  /\ m.recorder <=> l.recorder
  /\ m.confirmed <=> l.confirmed

LEMMA GoesIs ==
  ASSUME NEW l \in Line, NEW a \in LineAt, NEW m, m = [l EXCEPT !.at = a]
  PROVE  m \in Line /\ m.at = a /\ m.ending = l.ending /\ AsBefore(l, m)
BY DEF Line, AsBefore

LEMMA HandedIs ==
  ASSUME NEW l \in Line, NEW e \in Endings, NEW m,
         m = [l EXCEPT !.at = "close", !.handedOff = TRUE, !.ending = e]
  PROVE  m \in Line /\ m.at = "close" /\ m.ending = e /\ AsBefore(l, m)
<1>1. "close" \in LineAt BY DEF LineAt, Opened
<1> QED BY <1>1 DEF Line, AsBefore

LEMMA NextTurnIs ==
  ASSUME NEW l \in Line
  PROVE  LET m == NextTurn(l) IN
         /\ m \in Line /\ m.at = "top" /\ m.ending = l.ending /\ m.readback = l.readback
         /\ m.pending = l.pending /\ m.decision = l.decision
         /\ m.recorder <=> l.recorder
<1>1. l.turn + 1 \in Nat /\ "top" \in LineAt BY DEF Line, LineAt, Opened, InTheLoop
<1>2. PICK n \in Nat : n = l.turn + 1 BY <1>1
<1>3. NextTurn(l) = [l EXCEPT !.turn = n, !.at = "top", !.got = "nothing"] BY <1>2 DEF NextTurn
<1> QED BY <1>1, <1>3 DEF Line

Undecided == BeforeTheRow \cup Dialling \cup InTheLoop \cup {"opening", "noticed", "started"}

\* A turn, or a part of one: nothing is settled by it.
LEMMA Talks ==
  ASSUME CallsHold, NEW c \in Calls, NEW l \in Line, Becomes(c, l), UNCHANGED <<rowsVars, told, callTask>>,
         line[c].at \in Opened, l.at \in Opened \ {"close", "finishing"},
         l.recorder => line[c].recorder \/ "RECORDING_NOTICE_PLAYED" \in facts[c],
         tally' \in [Calls -> SUBSET Decisions], \A k \in Calls \ {c} : tally'[k] = tally[k],
         tally[c] \subseteq tally'[c],
         chased'.decision \in Maybe, chased.decision # "none" => chased'.decision # "none",
         l.pending # "none" => l.pending \in tally'[c],
         l.at = "keyed" => l.decision \in tally'[c],
         l.at \in Undecided => l.decision = "none",
         l.at = "ran" /\ l.decision # "none" =>
           l.readback = "none" /\ l.got = "recorded" /\ chased'.decision # "none",
         l.at = "closing" => chased'.decision # "none"
  PROVE  CallsHold'
<1>1. LineHolds(c) /\ line'[c] = l BY LineMoves DEF CallsHold
<1>2. OnRecord(c) => OnRecord(c)' BY DEF OnRecord
<1>3. l.at \notin {"refused", "reporting", "done", "dead", "idle", "allowed"} /\ line[c].at \notin Resting
      /\ l.at \notin BeforeTheRow
  BY DEF Opened, Dialling, InTheLoop, Resting, BeforeTheRow
<1>4. l.at = "closing" \/ told'[c] # "none" => OnRecord(c)' BY <1>1, <1>2 DEF LineHolds, OnRecord
<1>5. LineHolds(c)' BY <1>1, <1>3, <1>4 DEF LineHolds, Undecided
<1>6. told' \in [Calls -> Maybe] /\ callTask' \subseteq Calls BY DEF CallsHold, VoiceTypes
<1> QED BY <1>3, <1>5, <1>6, TalkKeeps

\* A way out of the talk, settled by its ending, by a task or by the decision.
LEMMA TalkEnds ==
  ASSUME CallsHold, NEW c \in Calls, NEW l \in Line, Becomes(c, l), UNCHANGED <<rowsVars, tally>>,
         line[c].at \in Opened, l.at \in {"closing", "close", "finishing"},
         l.recorder => line[c].recorder, l.pending = line[c].pending,
         told' \in [Calls -> Maybe], \A k \in Calls \ {c} : told'[k] = told[k],
         told'[c] = told[c] \/ OnRecord(c)',
         callTask \subseteq callTask', callTask' \subseteq Calls,
         chased'.decision \in Maybe, chased.decision # "none" => chased'.decision # "none",
         \/ OnRecord(c)'
         \/ l.at # "closing" /\ l.ending \in {"BRIDGED", "CUSTOMER_HUNG_UP", "NO_ANSWER", "PROVIDER_ERROR"}
  PROVE  CallsHold'
<1>1. LineHolds(c) /\ line'[c] = l BY LineMoves DEF CallsHold
<1>2. OnRecord(c) => OnRecord(c)' BY DEF OnRecord
<1>3. l.at \notin {"refused", "reporting", "done", "dead", "idle", "allowed", "keyed", "ran"}
      /\ line[c].at \notin Resting
      /\ l.at \notin BeforeTheRow /\ l.at \notin Undecided
  BY DEF Opened, Dialling, InTheLoop, Resting, BeforeTheRow, Undecided
<1>4. l.at = "closing" \/ told'[c] # "none" => OnRecord(c)' BY <1>1, <1>2 DEF LineHolds
<1>5. Settled(c)' \/ LeftToAdvisor(c)' BY <1>1 DEF Settled, LeftToAdvisor
<1>6. LineHolds(c)' BY <1>1, <1>3, <1>4, <1>5 DEF LineHolds, Undecided
<1>7. tally' \in [Calls -> SUBSET Decisions] /\ \A k \in Calls \ {c} : tally'[k] = tally[k]
  BY DEF CallsHold, VoiceTypes
<1> QED BY <1>3, <1>6, <1>7, TalkKeeps

\* Everything a step may find of its own call.
LEMMA CallIs ==
  ASSUME CallsHold, NEW c \in Calls
  PROVE  /\ line[c] \in Line /\ RowHolds(c) /\ LineHolds(c)
         /\ tally \in [Calls -> SUBSET Decisions] /\ told \in [Calls -> Maybe] /\ callTask \subseteq Calls
         /\ chased.decision \in Maybe /\ facts \in [Calls -> SUBSET Facts]
         /\ metered \in [Calls -> Nat] /\ recorded \subseteq Calls /\ rang \subseteq Calls
         /\ callRow \in [Calls -> {"none", "BLOCKED"} \cup OpenRow \cup EndedRow]
BY DEF CallsHold, VoiceTypes
-----------------------------------------------------------------------------
(* The caller's steps. *)

LEMMA CallerStep ==
  ASSUME CallsHold, NEW c \in Calls, Caller(c) PROVE CallsHold'
<1>1. /\ line[c] \in Line /\ LineHolds(c) /\ tally \in [Calls -> SUBSET Decisions]
      /\ told \in [Calls -> Maybe] /\ callTask \subseteq Calls /\ chased.decision \in Maybe
  BY CallIs
<1>2. line[c].at \in {"listen", "confirm"}
      /\ UNCHANGED <<rowsVars, chased, told, callTask>>
  BY DEF Caller, HangUp, PressHandoff, PressOther, Unheard, Speak, AnswerReadback, PressDecision, OnLine,
         sharedVars
<1>3. line[c].at \in Opened /\ line[c].decision = "none" /\ line[c].pending \in Maybe
      /\ (line[c].pending # "none" => line[c].pending \in tally[c])
  BY <1>1, <1>2 DEF LineHolds, Opened, InTheLoop, Line
<1>4. {"top", "plan", "bridge", "keyed", "close"} \subseteq LineAt /\ "CUSTOMER_HUNG_UP" \in Endings
      /\ {"top", "plan", "bridge", "keyed"} \subseteq Opened \ {"close", "finishing"}
      /\ "keyed" \notin Undecided
  BY DEF LineAt, Opened, InTheLoop, Endings, Undecided, BeforeTheRow, Dialling
<1>5. ASSUME NEW l \in Line, Becomes(c, l), UNCHANGED tally, l.at \in {"top", "plan", "bridge"},
             l.recorder => line[c].recorder, l.decision = "none",
             l.pending = "none" \/ l.pending = line[c].pending
      PROVE  CallsHold'
  BY <1>1, <1>2, <1>3, <1>4, <1>5, Talks
<1>6. CASE HangUp(c)
  <2>1. PICK l : l = [line[c] EXCEPT !.at = "close", !.ending = "CUSTOMER_HUNG_UP"] OBVIOUS
  <2>2. l \in Line /\ l.at = "close" /\ l.ending = "CUSTOMER_HUNG_UP" /\ AsBefore(line[c], l)
    BY <2>1, <1>1, <1>4 DEF Line, AsBefore
  <2>3. Becomes(c, l) /\ UNCHANGED tally BY <2>1, <1>6 DEF HangUp, Ends
  <2> QED BY <2>2, <2>3, <1>1, <1>2, <1>3, TalkEnds DEF AsBefore
<1>7. CASE PressHandoff(c)
  <2>1. PICK l : l = [line[c] EXCEPT !.at = "bridge"] OBVIOUS
  <2>2. l \in Line /\ l.at = "bridge" /\ AsBefore(line[c], l) BY <2>1, <1>1, <1>4, GoesIs
  <2>3. Becomes(c, l) /\ UNCHANGED tally BY <2>1, <1>7 DEF PressHandoff, Goes
  <2> QED BY <2>2, <2>3, <1>3, <1>5 DEF AsBefore
<1>8. CASE Speak(c)
  <2>1. PICK l : l = [line[c] EXCEPT !.at = "plan"] OBVIOUS
  <2>2. l \in Line /\ l.at = "plan" /\ AsBefore(line[c], l) BY <2>1, <1>1, <1>4, GoesIs
  <2>3. Becomes(c, l) /\ UNCHANGED tally BY <2>1, <1>8 DEF Speak, Goes
  <2> QED BY <2>2, <2>3, <1>3, <1>5 DEF AsBefore
<1> DEFINE n == NextTurn(line[c])
<1>9. /\ n \in Line /\ n.at = "top" /\ n.pending = line[c].pending /\ n.decision = "none"
      /\ n.recorder <=> line[c].recorder
  BY <1>1, <1>3, NextTurnIs
<1> HIDE DEF n
<1>a. CASE Unheard(c)
  <2>1. Becomes(c, n) /\ UNCHANGED tally BY <1>a DEF Unheard, n
  <2> QED BY <2>1, <1>9, <1>5
<1>b. CASE PressOther(c)
  <2>1. PICK l : l = [n EXCEPT !.pending = "none"] OBVIOUS
  <2>2. /\ l \in Line /\ l.at = "top" /\ l.pending = "none" /\ l.decision = "none"
        /\ l.recorder <=> line[c].recorder
    BY <2>1, <1>9 DEF Line, Maybe
  <2>3. (Becomes(c, l) \/ Becomes(c, n)) /\ UNCHANGED tally BY <2>1, <1>b DEF PressOther, n
  <2> QED BY <2>2, <2>3, <1>9, <1>5
<1>c. CASE AnswerReadback(c)
  <2>1. PICK l : l = [n EXCEPT !.confirmed = TRUE, !.plan = TRUE] OBVIOUS
  <2>2. PICK k : k = [n EXCEPT !.readback = "none"] OBVIOUS
  <2>3. /\ l \in Line /\ l.at = "top" /\ l.pending = line[c].pending /\ l.decision = "none"
        /\ l.recorder <=> line[c].recorder
    BY <2>1, <1>9 DEF Line
  <2>4. /\ k \in Line /\ k.at = "top" /\ k.pending = line[c].pending /\ k.decision = "none"
        /\ k.recorder <=> line[c].recorder
    BY <2>2, <1>9 DEF Line, Maybe
  <2>5. (Becomes(c, l) \/ Becomes(c, k)) /\ UNCHANGED tally BY <2>1, <2>2, <1>c DEF AnswerReadback, n
  <2> QED BY <2>3, <2>4, <2>5, <1>5
<1>d. ASSUME NEW d \in Decisions, PressDecision(c, d) PROVE CallsHold'
  <2>1. CASE SecondPress(line[c], d)
    <3>1. PICK l : l = [line[c] EXCEPT !.at = "keyed", !.confirmed = TRUE, !.decision = d] OBVIOUS
    <3>2. /\ l \in Line /\ l.at = "keyed" /\ l.decision = d /\ l.pending = line[c].pending
          /\ l.recorder <=> line[c].recorder
      BY <3>1, <1>1, <1>4 DEF Line, Maybe
    <3>3. Becomes(c, l) /\ UNCHANGED tally BY <3>1, <2>1, <1>d DEF PressDecision
    <3>4. d \in tally[c] BY <2>1, <1>3, VoiceAssumption DEF SecondPress
    <3> QED BY <3>2, <3>3, <3>4, <1>1, <1>2, <1>3, <1>4, Talks
  <2>2. CASE ~SecondPress(line[c], d)
    <3>1. PICK l : l = [n EXCEPT !.readback = d, !.pending = d] OBVIOUS
    <3>2. /\ l \in Line /\ l.at = "top" /\ l.pending = d /\ l.decision = "none"
          /\ l.recorder <=> line[c].recorder
      BY <3>1, <1>9 DEF Line, Maybe
    <3>3. Becomes(c, l) /\ tally' = [tally EXCEPT ![c] = tally[c] \cup {d}]
      BY <3>1, <2>2, <1>d DEF PressDecision, n
    <3>4. /\ tally' \in [Calls -> SUBSET Decisions] /\ \A k \in Calls \ {c} : tally'[k] = tally[k]
          /\ tally[c] \subseteq tally'[c] /\ d \in tally'[c]
      BY <3>3, <1>1
    <3> QED BY <3>2, <3>3, <3>4, <1>1, <1>2, <1>3, <1>4, Talks
  <2> QED BY <2>1, <2>2
<1> QED BY <1>6, <1>7, <1>8, <1>a, <1>b, <1>c, <1>d DEF Caller
-----------------------------------------------------------------------------
(* An agent's run. *)

LEMMA AgentStep ==
  ASSUME CallsHold, NEW c \in Calls, AgentRun(c) PROVE CallsHold'
<1>1. /\ line[c] \in Line /\ LineHolds(c) /\ tally \in [Calls -> SUBSET Decisions]
      /\ told \in [Calls -> Maybe] /\ callTask \subseteq Calls /\ chased.decision \in Maybe
  BY CallIs
<1>2. line[c].at \in {"plan", "start", "run", "acting", "ran"} /\ UNCHANGED <<rowsVars, told, callTask>>
  BY DEF AgentRun, LookForRuns, StartRun, LookAtThread, FinishRun, AgentRecords, AgentSpeaks, AgentEnds,
         OnLine, sharedVars
<1>3. line[c].at \in Opened /\ (line[c].pending # "none" => line[c].pending \in tally[c])
      /\ (line[c].at # "ran" => line[c].decision = "none")
  BY <1>1, <1>2 DEF LineHolds, Opened, InTheLoop
<1>4. {"plan", "start", "run", "acting", "ran", "exit", "caught", "confirm", "closing", "bridge", "top"}
        \subseteq (Opened \ {"close", "finishing"}) \cap LineAt
      /\ {"exit", "caught", "closing", "bridge", "ran"} \cap Undecided = {}
  BY DEF LineAt, Opened, InTheLoop, Undecided, BeforeTheRow, Dialling
<1>5. ASSUME NEW l \in Line, Becomes(c, l), UNCHANGED <<tally, chased>>, line[c].at # "ran",
             l.at \in {"start", "run", "acting", "ran", "exit", "caught"},
             l.recorder => line[c].recorder, l.decision = line[c].decision,
             l.pending = line[c].pending
      PROVE  CallsHold'
  BY <1>1, <1>2, <1>3, <1>4, <1>5, Talks
<1>6. ASSUME NEW a \in {"start", "run", "acting", "exit", "caught"}, Goes(c, a), line[c].at # "ran",
             UNCHANGED <<tally, chased>>
      PROVE  CallsHold'
  <2>1. PICK l : l = [line[c] EXCEPT !.at = a] OBVIOUS
  <2>2. l \in Line /\ l.at = a /\ AsBefore(line[c], l) BY <2>1, <1>1, <1>4, GoesIs
  <2>3. Becomes(c, l) BY <2>1, <1>6 DEF Goes
  <2> QED BY <2>2, <2>3, <1>6, <1>5 DEF AsBefore
<1>7. CASE LookForRuns(c) BY <1>7, <1>6 DEF LookForRuns, OnLine, sharedVars
<1>8. CASE StartRun(c) BY <1>8, <1>6 DEF StartRun, OnLine, sharedVars
<1>9. CASE LookAtThread(c)
  <2>1. PICK l : l = [line[c] EXCEPT !.at = "ran", !.got = "handoff"] OBVIOUS
  <2>2. /\ l \in Line /\ l.at = "ran" /\ l.pending = line[c].pending /\ l.decision = line[c].decision
        /\ l.recorder <=> line[c].recorder
    BY <2>1, <1>1, <1>4 DEF Line
  <2>3. Becomes(c, l) \/ Goes(c, "acting") BY <2>1, <1>9 DEF LookAtThread, Goes
  <2>4. line[c].at # "ran" /\ UNCHANGED <<tally, chased>> BY <1>9 DEF LookAtThread, OnLine, sharedVars
  <2> QED BY <2>2, <2>3, <2>4, <1>5, <1>6
<1>a. ASSUME NEW how \in {"nothing", "handoff", "blocked"}, AgentEnds(c, how) PROVE CallsHold'
  <2>1. PICK l : l = [line[c] EXCEPT !.at = "ran", !.got = how] OBVIOUS
  <2>2. /\ l \in Line /\ l.at = "ran" /\ l.pending = line[c].pending /\ l.decision = line[c].decision
        /\ l.recorder <=> line[c].recorder
    BY <2>1, <1>1, <1>4 DEF Line
  <2>3. Becomes(c, l) /\ line[c].at # "ran" /\ UNCHANGED <<tally, chased>>
    BY <2>1, <1>a DEF AgentEnds, OnLine, sharedVars
  <2> QED BY <2>2, <2>3, <1>5
<1>b. ASSUME NEW d \in Maybe, AgentSpeaks(c, d) PROVE CallsHold'
  <2>1. PICK l : l = [line[c] EXCEPT !.at = "ran", !.got = "spoke", !.readback = d] OBVIOUS
  <2>2. /\ l \in Line /\ l.at = "ran" /\ l.pending = line[c].pending /\ l.decision = line[c].decision
        /\ l.recorder <=> line[c].recorder
    BY <2>1, <1>1, <1>4 DEF Line
  <2>3. /\ Becomes(c, l) /\ line[c].at # "ran" /\ UNCHANGED chased
        /\ tally' = [tally EXCEPT ![c] = tally[c] \cup ({d} \ {"none"})]
    BY <2>1, <1>b DEF AgentSpeaks, OnLine, sharedVars
  <2>4. /\ tally' \in [Calls -> SUBSET Decisions] /\ \A k \in Calls \ {c} : tally'[k] = tally[k]
        /\ tally[c] \subseteq tally'[c]
    BY <2>3, <1>1 DEF Maybe
  <2> QED BY <2>2, <2>3, <2>4, <1>1, <1>2, <1>3, <1>4, Talks
<1>c. ASSUME NEW d \in Decisions, AgentRecords(c, d) PROVE CallsHold'
  <2>1. PICK l : l = [line[c] EXCEPT !.at = "ran", !.got = "recorded", !.decision = d,
                        !.confirmed = FALSE, !.readback = "none"]
    OBVIOUS
  <2>2. PICK k : k = [line[c] EXCEPT !.at = "run", !.got = "refused"] OBVIOUS
  <2>3. /\ l \in Line /\ l.at = "ran" /\ l.pending = line[c].pending /\ l.got = "recorded"
        /\ l.readback = "none"
        /\ l.recorder <=> line[c].recorder
    BY <2>1, <1>1, <1>4 DEF Line, Maybe
  <2>4. /\ k \in Line /\ k.at = "run" /\ k.pending = line[c].pending /\ k.decision = line[c].decision
        /\ k.recorder <=> line[c].recorder
    BY <2>2, <1>1, <1>4 DEF Line
  <2>5. /\ Becomes(c, l) \/ Becomes(c, k)
        /\ line[c].at # "ran" /\ UNCHANGED tally /\ chased' = DecidedBy(d, "agent")
    BY <2>1, <2>2, <1>c DEF AgentRecords, OnLine
  <2>6. chased'.decision \in Decisions /\ chased'.decision # "none"
    BY <2>5, <1>1, VoiceAssumption DEF DecidedBy, Maybe
  <2>7. CASE Becomes(c, l)
    BY <2>3, <2>5, <2>6, <2>7, <1>1, <1>2, <1>3, <1>4, Talks DEF Maybe
  <2>8. CASE Becomes(c, k)
    BY <2>4, <2>5, <2>6, <2>8, <1>1, <1>2, <1>3, <1>4, Talks DEF Maybe
  <2> QED BY <2>5, <2>7, <2>8
<1>d. CASE FinishRun(c)
  <2> DEFINE l == AfterRun(line[c])
  <2>1. Becomes(c, l) /\ line[c].at = "ran" /\ UNCHANGED <<tally, chased>>
    BY <1>d DEF FinishRun, OnLine, sharedVars
  <2>2. line[c].decision # "none" =>
          line[c].readback = "none" /\ line[c].got = "recorded" /\ chased.decision # "none"
    BY <2>1, <1>1 DEF LineHolds
  <2>3. /\ l \in Line /\ l.pending = line[c].pending /\ l.decision = line[c].decision
        /\ l.recorder <=> line[c].recorder
        /\ \/ l.at = "exit" \/ l.at = "bridge"
           \/ l.at \in {"top", "confirm"} /\ line[c].decision = "none"
           \/ l.at = "closing" /\ line[c].decision # "none"
    <3>1. ASSUME NEW a \in {"exit", "confirm", "closing", "bridge"}, NEW m, m = [line[c] EXCEPT !.at = a]
          PROVE  /\ m \in Line /\ m.at = a /\ m.pending = line[c].pending /\ m.decision = line[c].decision
                 /\ m.recorder <=> line[c].recorder
      BY <3>1, <1>1, <1>4, GoesIs DEF AsBefore
    <3> DEFINE n == NextTurn(line[c])
    <3>2. /\ n \in Line /\ n.at = "top" /\ n.pending = line[c].pending
          /\ n.decision = line[c].decision
          /\ n.recorder <=> line[c].recorder
      BY <1>1, NextTurnIs
    <3> HIDE DEF n
    <3>3. CASE line[c].got = "blocked"
      <4>1. l = [line[c] EXCEPT !.at = "exit"] BY <3>3 DEF AfterRun
      <4> HIDE DEF l
      <4> QED BY <4>1, <3>1
    <3>4. CASE line[c].got # "blocked" /\ line[c].decision = "none"
      <4>1. \/ l = n \/ l = [line[c] EXCEPT !.at = "confirm"] \/ l = [line[c] EXCEPT !.at = "bridge"]
        BY <3>4 DEF AfterRun, n
      <4> HIDE DEF l
      <4> QED BY <4>1, <3>4, <3>1, <3>2
    <3>5. CASE line[c].got # "blocked" /\ line[c].decision # "none"
      <4>1. l = [line[c] EXCEPT !.at = "closing"] BY <3>5, <2>2 DEF AfterRun
      <4> HIDE DEF l
      <4> QED BY <4>1, <3>5, <3>1
    <3> QED BY <3>3, <3>4, <3>5
  <2> HIDE DEF l
  <2>4. l.at \in Opened \ {"close", "finishing"} /\ l.at # "keyed" /\ l.at # "ran" BY <2>3, <1>4
  <2>5. l.at \in Undecided => l.decision = "none" BY <2>3, <1>4
  <2> QED BY <2>1, <2>2, <2>3, <2>4, <2>5, <1>1, <1>2, <1>3, Talks
<1>e. line[c].readback \in Maybe /\ Decisions \subseteq Maybe BY <1>1 DEF Line, Maybe
<1> QED BY <1>7, <1>8, <1>9, <1>a, <1>b, <1>c, <1>d, <1>e DEF AgentRun
-----------------------------------------------------------------------------
(* The row's steps. *)

\* One call's row, its facts or its meter: the others' stay.
LEMMA RowOnly ==
  ASSUME CallsHold, NEW c \in Calls, NEW l \in Line, Becomes(c, l),
         UNCHANGED <<chased, callTask, told, tally, metered>>,
         NEW r \in {"none", "BLOCKED"} \cup OpenRow, callRow' = [callRow EXCEPT ![c] = r],
         NEW f \in SUBSET Facts, facts' = [facts EXCEPT ![c] = f], facts[c] \subseteq f,
         recorded' = recorded \/ (recorded' = recorded \cup {c} /\ "RECORDING_NOTICE_PLAYED" \in f),
         rang' = rang \/ (rang' = rang \cup {c} /\ r \in OpenRow),
         line[c].at \notin Resting, l.at # "allowed",
         callRow[c] \notin EndedRow,
         r = callRow[c] \/ (callRow[c] = "none" /\ r = "BLOCKED") \/ (callRow[c] \in OpenRow /\ r \in OpenRow),
         c \notin rang \/ r \in OpenRow,
         l.recorder => "RECORDING_NOTICE_PLAYED" \in f,
         l.at \in BeforeTheRow => r = "none", l.at \in Opened => r \in OpenRow,
         LineHolds(c)'
  PROVE  CallsHold'
<1>1. /\ RowHolds(c) /\ facts \in [Calls -> SUBSET Facts] /\ metered \in [Calls -> Nat]
      /\ recorded \subseteq Calls /\ rang \subseteq Calls
      /\ callRow \in [Calls -> {"none", "BLOCKED"} \cup OpenRow \cup EndedRow]
  BY CallIs
<1>2. /\ callRow' \in [Calls -> {"none", "BLOCKED"} \cup OpenRow \cup EndedRow] /\ callRow'[c] = r
      /\ facts' \in [Calls -> SUBSET Facts] /\ facts'[c] = f
      /\ \A k \in Calls \ {c} : callRow'[k] = callRow[k] /\ facts'[k] = facts[k]
  BY <1>1
<1>3. /\ metered' \in [Calls -> Nat] /\ recorded' \subseteq Calls /\ rang' \subseteq Calls
      /\ \A k \in Calls \ {c} : metered'[k] = metered[k] /\ (k \in recorded' <=> k \in recorded)
                                /\ (k \in rang' <=> k \in rang)
  BY <1>1
<1>4. r \notin EndedRow /\ (r \in OpenRow => r \notin {"none", "BLOCKED"})
  BY DEF OpenRow, EndedRow
<1>5. line'[c] = l BY LineMoves
<1>6. RowHolds(c)'
  <2>1. c \in recorded' => "RECORDING_NOTICE_PLAYED" \in f BY <1>1 DEF RowHolds
  <2>2. metered'[c] = 0 BY <1>1 DEF RowHolds
  <2>3. c \in rang' => r \notin {"none", "BLOCKED"} BY <1>1, <1>4 DEF RowHolds
  <2> QED BY <2>1, <2>2, <2>3, <1>2, <1>4, <1>5 DEF RowHolds
<1>7. callRow[c] \in {"none", "BLOCKED"} => callRow'[c] \in {"none", "BLOCKED"}
  BY <1>2 DEF OpenRow
<1> QED BY <1>2, <1>3, <1>5, <1>6, <1>7, RowKeeps

\* A line that goes on without a decision, before the talk.
LEMMA LineGoesOn ==
  ASSUME CallsHold, NEW c \in Calls, NEW l \in Line, Becomes(c, l),
         UNCHANGED <<chased, callTask, told, tally>>,
         l.pending = line[c].pending, l.decision = line[c].decision, l.at \in Undecided,
         line[c].at \in Undecided,
         l.at = "refused" => l.ending \in {"CONSENT_REVOKED", "CUSTOMER_CALL_CAP", "OTHER_REFUSAL"}
  PROVE  LineHolds(c)'
<1>1. LineHolds(c) /\ line'[c] = l BY LineMoves DEF CallsHold
<1>2. l.at \notin {"keyed", "ran", "closing", "close", "finishing", "reporting", "done"}
  BY DEF Undecided, BeforeTheRow, Dialling, InTheLoop
<1>3. OnRecord(c) => OnRecord(c)' BY DEF OnRecord
<1>4. l.at = "refused" => Settled(c)' \/ LeftToAdvisor(c)' BY <1>1 DEF Settled, LeftToAdvisor
<1>5. l.decision = "none" BY <1>1 DEF LineHolds, Undecided
<1> QED BY <1>1, <1>2, <1>3, <1>4, <1>5 DEF LineHolds

LEMMA OpeningStep ==
  ASSUME CallsHold, NEW c \in Calls,
         MarkRinging(c) \/ MarkAnswered(c) \/ CallOpening(c) \/ BeginTurn(c)
  PROVE  CallsHold'
<1>1. /\ line[c] \in Line /\ LineHolds(c) /\ RowHolds(c) /\ tally \in [Calls -> SUBSET Decisions]
      /\ told \in [Calls -> Maybe] /\ callTask \subseteq Calls /\ chased.decision \in Maybe
      /\ facts \in [Calls -> SUBSET Facts]
      /\ callRow \in [Calls -> {"none", "BLOCKED"} \cup OpenRow \cup EndedRow]
  BY CallIs
<1>2. line[c].at \in {"accepted", "answered", "opening", "noticed", "started", "top"}
      /\ UNCHANGED <<chased, callTask, told, tally, recorded, metered, rang>>
  BY DEF MarkRinging, MarkAnswered, CallOpening, PlayNotice, StartRecording, RecordStarted, BeginTurn,
         OnLine, sharedVars, rowsVars
<1>3. /\ line[c].at \in Opened /\ line[c].at \in Undecided /\ line[c].at \notin Resting
      /\ callRow[c] \in OpenRow /\ callRow[c] \notin EndedRow /\ callRow[c] # "none"
      /\ line[c].decision = "none" /\ (line[c].pending # "none" => line[c].pending \in tally[c])
      /\ line[c].recorder => "RECORDING_NOTICE_PLAYED" \in facts[c]
  BY <1>1, <1>2 DEF LineHolds, RowHolds, Opened, InTheLoop, Dialling, Undecided, Resting, OpenRow, EndedRow
<1>4. /\ {"ringing", "opening", "noticed", "top", "exit", "plan", "listen", "started"} \subseteq LineAt \cap Opened
      /\ {"ringing", "opening", "noticed", "top", "plan", "listen", "started"} \subseteq Undecided
      /\ "exit" \notin Undecided /\ {"RINGING", "IN_PROGRESS"} \subseteq OpenRow
  BY DEF LineAt, Opened, InTheLoop, Dialling, Undecided, BeforeTheRow, OpenRow
<1>5. ASSUME NEW a \in {"ringing", "opening", "noticed", "top"}, Goes(c, a),
             NEW r \in OpenRow, callRow' = [callRow EXCEPT ![c] = r],
             NEW f \in SUBSET Facts, facts' = [facts EXCEPT ![c] = f], facts[c] \subseteq f
      PROVE  CallsHold'
  <2>1. PICK l : l = [line[c] EXCEPT !.at = a] OBVIOUS
  <2>2. l \in Line /\ l.at = a /\ AsBefore(line[c], l) BY <2>1, <1>1, <1>4, GoesIs
  <2>3. Becomes(c, l) BY <2>1, <1>5 DEF Goes
  <2>4. l.at \in Undecided /\ l.at \in Opened /\ l.at # "refused" /\ l.at # "allowed" BY <2>2, <1>4
  <2>5. LineHolds(c)' BY <2>2, <2>3, <2>4, <1>2, <1>3, LineGoesOn DEF AsBefore
  <2>6. l.recorder => "RECORDING_NOTICE_PLAYED" \in f BY <2>2, <1>3, <1>5 DEF AsBefore
  <2>7. l.at \notin BeforeTheRow BY <2>2 DEF BeforeTheRow
  <2> QED BY <2>2, <2>3, <2>4, <2>5, <2>6, <2>7, <1>1, <1>2, <1>3, <1>5, RowOnly
<1>6. facts' = facts => facts' = [facts EXCEPT ![c] = facts[c]] BY <1>1
<1>7. callRow' = callRow => callRow' = [callRow EXCEPT ![c] = callRow[c]] BY <1>1
<1>8. facts[c] \in SUBSET Facts BY <1>1
<1>9. CASE MarkRinging(c)
  BY <1>9, <1>4, <1>5, <1>6, <1>8 DEF MarkRinging
<1>a. CASE MarkAnswered(c)
  BY <1>a, <1>4, <1>5, <1>6, <1>8 DEF MarkAnswered
<1>b. CASE PlayNotice(c)
  <2>1. facts' = [facts EXCEPT ![c] = facts[c] \cup {"RECORDING_NOTICE_PLAYED"}] /\ Goes(c, "noticed")
        /\ callRow' = callRow
    BY <1>b DEF PlayNotice
  <2>2. facts[c] \cup {"RECORDING_NOTICE_PLAYED"} \in SUBSET Facts BY <1>8 DEF Facts
  <2> QED BY <2>1, <2>2, <1>3, <1>5, <1>7, <1>8
<1>c. CASE RecordStarted(c)
  <2>1. facts' = [facts EXCEPT ![c] = facts[c] \cup {"RECORDING_STARTED"}] /\ Goes(c, "top")
        /\ callRow' = callRow
    BY <1>c DEF RecordStarted
  <2>2. facts[c] \cup {"RECORDING_STARTED"} \in SUBSET Facts BY <1>8 DEF Facts
  <2> QED BY <2>1, <2>2, <1>3, <1>5, <1>7, <1>8
<1>d. CASE StartRecording(c)
  <2>1. PICK l : l = [line[c] EXCEPT !.recorder = TRUE, !.at = "started"] OBVIOUS
  <2>2. l \in Line /\ l.at = "started" /\ l.pending = line[c].pending /\ l.decision = line[c].decision
    BY <2>1, <1>1, <1>4 DEF Line
  <2>3. Becomes(c, l) /\ "RECORDING_NOTICE_PLAYED" \in facts[c] /\ UNCHANGED <<rowsVars, tally, chased>>
    BY <2>1, <1>d DEF StartRecording, sharedVars
  <2> QED BY <2>2, <2>3, <1>1, <1>2, <1>3, <1>4, Talks
<1>e. CASE BeginTurn(c)
  <2>0. UNCHANGED rowsVars BY <1>e DEF BeginTurn
  <2>1. CASE Goes(c, "exit")
    <3>1. PICK l : l = [line[c] EXCEPT !.at = "exit"] OBVIOUS
    <3>2. l \in Line /\ l.at = "exit" /\ AsBefore(line[c], l) BY <3>1, <1>1, <1>4, GoesIs
    <3>3. Becomes(c, l) BY <3>1, <2>1 DEF Goes
    <3> QED BY <2>0, <3>2, <3>3, <1>1, <1>2, <1>3, <1>4, Talks DEF AsBefore
  <2>2. CASE Becomes(c, [line[c] EXCEPT !.at = IF line[c].plan THEN "plan" ELSE "listen", !.plan = FALSE])
    <3>0. PICK a \in {"plan", "listen"} : a = IF line[c].plan THEN "plan" ELSE "listen" OBVIOUS
    <3>1. PICK l : l = [line[c] EXCEPT !.at = a, !.plan = FALSE] OBVIOUS
    <3>2. /\ l \in Line /\ l.at = a /\ l.pending = line[c].pending /\ l.decision = line[c].decision
          /\ l.recorder <=> line[c].recorder
      BY <3>1, <1>1, <1>4 DEF Line
    <3>3. Becomes(c, l) BY <3>0, <3>1, <2>2
    <3>4. l.at \in Opened \ {"close", "finishing"} /\ l.at \notin {"keyed", "ran", "closing"}
      BY <3>2, <1>4
    <3> QED BY <2>0, <3>2, <3>3, <3>4, <1>1, <1>2, <1>3, Talks
  <2> QED BY <1>e, <2>1, <2>2 DEF BeginTurn
<1> QED BY <1>9, <1>a, <1>b, <1>c, <1>d, <1>e DEF CallOpening

\* The gate's refusal, the provider's, and nobody's answer.
LEMMA RefusedStep ==
  ASSUME CallsHold, NEW c \in Calls, RefuseCall(c) \/ Originate(c) \/ WaitForAnswer(c)
  PROVE  CallsHold'
<1>1. /\ line[c] \in Line /\ LineHolds(c) /\ RowHolds(c) /\ tally \in [Calls -> SUBSET Decisions]
      /\ told \in [Calls -> Maybe] /\ callTask \subseteq Calls /\ chased.decision \in Maybe
      /\ facts \in [Calls -> SUBSET Facts]
      /\ callRow \in [Calls -> {"none", "BLOCKED"} \cup OpenRow \cup EndedRow]
  BY CallIs
<1>2. UNCHANGED <<chased, callTask, told, tally, recorded, metered, facts>>
  BY DEF RefuseCall, Originate, WaitForAnswer, sharedVars, rowsVars
<1>3. facts' = [facts EXCEPT ![c] = facts[c]] /\ facts[c] \in SUBSET Facts BY <1>1, <1>2
<1>4. CASE RefuseCall(c)
  <2>1. PICK l : l = [line[c] EXCEPT !.at = "reporting"] OBVIOUS
  <2>2. "reporting" \in LineAt /\ "reporting" \notin Opened \cup BeforeTheRow /\ "refused" \in BeforeTheRow
    BY DEF LineAt, Opened, InTheLoop, Dialling, BeforeTheRow
  <2>3. l \in Line /\ l.at = "reporting" /\ l.ending = line[c].ending /\ AsBefore(line[c], l)
    BY <2>1, <2>2, <1>1, GoesIs
  <2>4. Becomes(c, l) /\ line[c].at = "refused" /\ callRow' = [callRow EXCEPT ![c] = "BLOCKED"] /\ rang' = rang
    BY <2>1, <1>4 DEF RefuseCall, Goes, OnLine
  <2>5. callRow[c] = "none" /\ callRow[c] \notin EndedRow /\ c \notin rang
    BY <2>2, <2>4, <1>1 DEF RowHolds, EndedRow
  <2>6. LineHolds(c)'
    <3>1. line'[c] = l BY <2>3, <2>4, LineMoves
    <3>2. Settled(c) \/ LeftToAdvisor(c) BY <2>4, <1>1 DEF LineHolds
    <3>3. Settled(c)' \/ LeftToAdvisor(c)'
      BY <3>1, <3>2, <2>3, <1>2 DEF Settled, OnRecord, LeftToAdvisor
    <3>4. l.at \notin Dialling \cup InTheLoop \cup BeforeTheRow BY <2>3 DEF Dialling, InTheLoop, BeforeTheRow
    <3>5. told'[c] # "none" => OnRecord(c)' BY <1>1, <1>2 DEF LineHolds, OnRecord
    <3> QED BY <3>1, <3>3, <3>4, <3>5, <2>3, <1>1, <1>2 DEF LineHolds, AsBefore
  <2>7. l.recorder => "RECORDING_NOTICE_PLAYED" \in facts[c] BY <2>3, <1>1 DEF RowHolds, AsBefore
  <2>8. line[c].at \notin Resting BY <2>4 DEF Resting
  <2> QED BY <2>2, <2>3, <2>4, <2>5, <2>6, <2>7, <2>8, <1>1, <1>2, <1>3, RowOnly
<1>5. ASSUME NEW e \in {"PROVIDER_ERROR", "NO_ANSWER"}, Ends(c, "finishing", e), line[c].at \in Dialling,
             UNCHANGED rowsVars
      PROVE  CallsHold'
  <2>1. PICK l : l = [line[c] EXCEPT !.at = "finishing", !.ending = e] OBVIOUS
  <2>2. "finishing" \in LineAt /\ e \in Endings /\ line[c].at \in Opened
    BY <1>5 DEF LineAt, Opened, Endings
  <2>3. l \in Line /\ l.at = "finishing" /\ l.ending = e /\ AsBefore(line[c], l)
    BY <2>1, <2>2, <1>1 DEF Line, AsBefore
  <2>4. Becomes(c, l) BY <2>1, <1>5 DEF Ends
  <2> QED BY <2>2, <2>3, <2>4, <1>1, <1>2, <1>5, TalkEnds DEF AsBefore
<1>6. ASSUME NEW a \in {"accepted", "answered"}, Goes(c, a), line[c].at \in Dialling, callRow' = callRow,
             rang' = rang \/ rang' = rang \cup {c}
      PROVE  CallsHold'
  <2>1. PICK l : l = [line[c] EXCEPT !.at = a] OBVIOUS
  <2>2. /\ a \in LineAt /\ a \in Opened /\ a \notin BeforeTheRow /\ a \in Undecided
        /\ line[c].at \in Opened /\ line[c].at \in Undecided /\ line[c].at \notin Resting
    BY <1>6 DEF LineAt, Opened, Dialling, BeforeTheRow, Undecided, Resting
  <2>3. l \in Line /\ l.at = a /\ AsBefore(line[c], l) BY <2>1, <2>2, <1>1, GoesIs
  <2>4. Becomes(c, l) BY <2>1, <1>6 DEF Goes
  <2>5. callRow[c] \in OpenRow /\ callRow[c] \notin EndedRow /\ callRow' = [callRow EXCEPT ![c] = callRow[c]]
    BY <2>2, <1>1, <1>6 DEF RowHolds, OpenRow, EndedRow
  <2>6. LineHolds(c)' BY <2>2, <2>3, <2>4, <1>2, LineGoesOn DEF AsBefore
  <2>7. l.recorder => "RECORDING_NOTICE_PLAYED" \in facts[c] BY <2>3, <1>1 DEF RowHolds, AsBefore
  <2>8. l.at # "allowed" BY <2>3
  <2> QED BY <2>2, <2>3, <2>4, <2>5, <2>6, <2>7, <2>8, <1>1, <1>2, <1>3, <1>6, RowOnly
<1>7. CASE Originate(c)
  <2>1. line[c].at \in Dialling /\ callRow' = callRow BY <1>7 DEF Originate, OnLine, Dialling
  <2>2. CASE rang' = rang \cup {c} /\ Goes(c, "accepted") BY <2>1, <2>2, <1>6
  <2>3. CASE UNCHANGED rang /\ Ends(c, "finishing", "PROVIDER_ERROR")
    BY <2>1, <2>3, <1>2, <1>5 DEF rowsVars
  <2> QED BY <1>7, <2>2, <2>3 DEF Originate
<1>8. CASE WaitForAnswer(c)
  <2>1. line[c].at \in Dialling /\ UNCHANGED rowsVars BY <1>8 DEF WaitForAnswer, OnLine, Dialling
  <2>2. CASE Goes(c, "answered") BY <2>1, <2>2, <1>6 DEF rowsVars
  <2>3. CASE Ends(c, "finishing", "NO_ANSWER") BY <2>1, <2>3, <1>5
  <2> QED BY <1>8, <2>2, <2>3 DEF WaitForAnswer
<1> QED BY <1>4, <1>7, <1>8
-----------------------------------------------------------------------------
(* How a call ends. *)

\* A line that is settled, or was, and only goes on to its report.
LEMMA StaysSettled ==
  ASSUME CallsHold, NEW c \in Calls, NEW l \in Line, Becomes(c, l),
         UNCHANGED <<chased, callTask, told, tally>>,
         l.pending = line[c].pending, l.at \in {"close", "finishing", "reporting"},
         \/ l.ending = "BRIDGED"
         \/ l.ending = line[c].ending /\ line[c].at \in {"refused", "close", "finishing", "reporting"}
  PROVE  LineHolds(c)'
<1>1. LineHolds(c) /\ line'[c] = l BY LineMoves DEF CallsHold
<1>2. (OnRecord(c) => OnRecord(c)') BY DEF OnRecord
<1>3. Settled(c)' \/ LeftToAdvisor(c)' BY <1>1, <1>2 DEF LineHolds, Settled, LeftToAdvisor
<1>4. l.at \notin {"keyed", "ran", "closing", "done"} /\ l.at \notin Undecided
  BY DEF Undecided, BeforeTheRow, Dialling, InTheLoop
<1> QED BY <1>1, <1>2, <1>3, <1>4 DEF LineHolds, Undecided

LEMMA EndingStep ==
  ASSUME CallsHold, NEW c \in Calls, Ending(c) PROVE CallsHold'
<1>1. /\ line[c] \in Line /\ LineHolds(c) /\ RowHolds(c) /\ tally \in [Calls -> SUBSET Decisions]
      /\ told \in [Calls -> Maybe] /\ callTask \subseteq Calls /\ chased.decision \in Maybe
      /\ facts \in [Calls -> SUBSET Facts] /\ metered \in [Calls -> Nat]
      /\ recorded \subseteq Calls /\ rang \subseteq Calls
      /\ callRow \in [Calls -> {"none", "BLOCKED"} \cup OpenRow \cup EndedRow]
  BY CallIs
<1>2. /\ {"closing", "close", "finishing", "reporting", "done"} \subseteq LineAt
      /\ {"keyed", "closing", "bridge", "exit", "caught", "close", "finishing"} \subseteq Opened
      /\ {"reporting", "done"} \cap (Opened \cup BeforeTheRow) = {}
      /\ {"close", "finishing"} \cap BeforeTheRow = {}
      /\ {"close", "finishing", "bridge", "reporting"} \cap Resting = {}
      /\ {"DECISION_RECORDED", "BRIDGED", "ADVISOR_TASK_RAISED", "PIPELINE_FAILURE"} \subseteq Endings
      /\ "BRIDGING" \in OpenRow /\ {"COMPLETED", "FAILED"} = EndedRow
  BY DEF LineAt, Opened, InTheLoop, Dialling, BeforeTheRow, Resting, Endings, OpenRow, EndedRow
<1>3. /\ line[c].recorder => "RECORDING_NOTICE_PLAYED" \in facts[c]
      /\ line[c].at \in Opened => callRow[c] \in OpenRow /\ callRow[c] \notin EndedRow
                                  /\ callRow[c] \notin {"none", "BLOCKED"} /\ metered[c] = 0
  BY <1>1 DEF RowHolds, OpenRow, EndedRow
<1>4. ASSUME NEW e \in {"ADVISOR_TASK_RAISED", "PIPELINE_FAILURE"}, HandedTo(c, e), line[c].at \in Opened,
             callTask' = callTask \cup {c}, UNCHANGED <<rowsVars, tally, told, chased>>
      PROVE  CallsHold'
  <2>1. PICK l : l = [line[c] EXCEPT !.at = "close", !.handedOff = TRUE, !.ending = e] OBVIOUS
  <2>2. l \in Line /\ l.at = "close" /\ l.ending = e /\ AsBefore(line[c], l)
    BY <2>1, <1>1, <1>2 DEF Line, AsBefore
  <2>3. Becomes(c, l) BY <2>1, <1>4 DEF HandedTo
  <2>4. OnRecord(c)' /\ callTask' \subseteq Calls BY <1>4, <1>1 DEF OnRecord
  <2> QED BY <2>2, <2>3, <2>4, <1>1, <1>4, TalkEnds DEF AsBefore
<1>5. CASE RecordKeyed(c)
  <2>1. /\ line[c].at = "keyed" /\ UNCHANGED <<rowsVars, tally, told>>
        /\ chased' \in {chased, DecidedBy(line[c].decision, "keypad")}
        /\ \/ callTask' = callTask \cup {c}
           \/ callTask' = callTask /\ chased' = DecidedBy(line[c].decision, "keypad")
        /\ \/ Becomes(c, [line[c] EXCEPT !.at = "closing"])
           \/ Becomes(c, [line[c] EXCEPT !.at = "closing", !.handedOff = TRUE])
    BY <1>5 DEF RecordKeyed, OnLine, Goes
  <2>2. line[c].decision \in Decisions /\ line[c].decision # "none"
    BY <2>1, <1>1, VoiceAssumption DEF LineHolds
  <2>3. /\ chased'.decision \in Maybe /\ (chased.decision # "none" => chased'.decision # "none")
        /\ chased' = DecidedBy(line[c].decision, "keypad") => chased'.decision # "none"
    BY <2>1, <2>2, <1>1 DEF DecidedBy, Maybe
  <2>4. OnRecord(c)' /\ callTask \subseteq callTask' /\ callTask' \subseteq Calls
    BY <2>1, <2>3, <1>1 DEF OnRecord
  <2>5. PICK l : l = [line[c] EXCEPT !.at = "closing"] OBVIOUS
  <2>6. PICK k : k = [line[c] EXCEPT !.at = "closing", !.handedOff = TRUE] OBVIOUS
  <2>7. /\ l \in Line /\ l.at = "closing" /\ AsBefore(line[c], l)
        /\ k \in Line /\ k.at = "closing" /\ AsBefore(line[c], k)
    BY <2>5, <2>6, <1>1, <1>2 DEF Line, AsBefore
  <2>8. Becomes(c, l) \/ Becomes(c, k) BY <2>1, <2>5, <2>6
  <2>9. line[c].at \in Opened BY <2>1, <1>2
  <2>a. CASE Becomes(c, l) BY <2>1, <2>3, <2>4, <2>7, <2>9, <2>a, <1>1, TalkEnds DEF AsBefore
  <2>b. CASE Becomes(c, k) BY <2>1, <2>3, <2>4, <2>7, <2>9, <2>b, <1>1, TalkEnds DEF AsBefore
  <2> QED BY <2>8, <2>a, <2>b
<1>6. CASE CloseAfterDecision(c)
  <2>1. /\ line[c].at = "closing" /\ UNCHANGED <<rowsVars, tally, callTask, chased>>
        /\ told' = [told EXCEPT ![c] = line[c].decision]
        /\ Ends(c, "close", "DECISION_RECORDED")
    BY <1>6 DEF CloseAfterDecision, OnLine, sharedVars
  <2>2. PICK l : l = [line[c] EXCEPT !.at = "close", !.ending = "DECISION_RECORDED"] OBVIOUS
  <2>3. l \in Line /\ l.at = "close" /\ AsBefore(line[c], l) BY <2>2, <1>1, <1>2 DEF Line, AsBefore
  <2>4. Becomes(c, l) BY <2>1, <2>2 DEF Ends
  <2>5. OnRecord(c)' BY <2>1, <1>1 DEF LineHolds, OnRecord
  <2>6. line[c].decision \in Maybe BY <1>1 DEF Line
  <2>7. told' \in [Calls -> Maybe] /\ \A k \in Calls \ {c} : told'[k] = told[k] BY <2>1, <2>6, <1>1
  <2>8. line[c].at \in Opened BY <2>1, <1>2
  <2> QED BY <2>1, <2>3, <2>4, <2>5, <2>7, <2>8, <1>1, TalkEnds DEF AsBefore
<1>7. CASE BridgeToAdvisor(c)
  <2>1. line[c].at = "bridge" /\ line[c].at \in Opened
        /\ UNCHANGED <<facts, recorded, metered, rang, tally, told, chased>>
    BY <1>7, <1>2 DEF BridgeToAdvisor, OnLine, sharedVars
  <2>2. CASE callRow' = [callRow EXCEPT ![c] = "BRIDGING"] /\ HandedTo(c, "BRIDGED") /\ UNCHANGED callTask
    <3>1. PICK l : l = [line[c] EXCEPT !.at = "close", !.handedOff = TRUE, !.ending = "BRIDGED"] OBVIOUS
    <3>2. l \in Line /\ l.at = "close" /\ l.ending = "BRIDGED" /\ AsBefore(line[c], l)
      BY <3>1, <1>1, <1>2 DEF Line, AsBefore
    <3>3. Becomes(c, l) BY <3>1, <2>2 DEF HandedTo
    <3>4. LineHolds(c)' BY <3>2, <3>3, <2>1, <2>2, StaysSettled DEF AsBefore
    <3>5. l.recorder => "RECORDING_NOTICE_PLAYED" \in facts[c] BY <3>2, <1>3 DEF AsBefore
    <3>6. /\ line[c].at \notin Resting /\ l.at # "allowed" /\ l.at \notin BeforeTheRow
          /\ "BRIDGING" \in {"none", "BLOCKED"} \cup OpenRow
          /\ callRow[c] \in OpenRow /\ callRow[c] \notin EndedRow /\ "BRIDGING" \in OpenRow
      BY <2>1, <3>2, <1>2, <1>3
    <3>7. facts' = [facts EXCEPT ![c] = facts[c]] /\ facts[c] \in SUBSET Facts BY <2>1, <1>1
    <3> QED BY <3>2, <3>3, <3>4, <3>5, <3>6, <3>7, <2>1, <2>2, RowOnly
  <2>3. CASE callTask' = callTask \cup {c} /\ HandedTo(c, "ADVISOR_TASK_RAISED") /\ UNCHANGED callRow
    BY <2>1, <2>3, <1>4 DEF rowsVars
  <2> QED BY <1>7, <2>2, <2>3 DEF BridgeToAdvisor
<1>8. CASE GracefulExit(c)
  BY <1>8, <1>2, <1>4 DEF GracefulExit, OnLine, sharedVars
<1>9. CASE PipelineFailed(c)
  BY <1>9, <1>2, <1>4 DEF PipelineFailed, OnLine, sharedVars
<1>a. CASE StoreRecording(c)
  <2>1. /\ line[c].at = "close" /\ UNCHANGED <<callRow, metered, rang, tally, told, chased, callTask>>
        /\ Goes(c, "finishing")
    BY <1>a DEF StoreRecording, OnLine, sharedVars
  <2>2. PICK l : l = [line[c] EXCEPT !.at = "finishing"] OBVIOUS
  <2>3. l \in Line /\ l.at = "finishing" /\ l.ending = line[c].ending /\ AsBefore(line[c], l)
    BY <2>2, <1>1, <1>2, GoesIs
  <2>4. Becomes(c, l) BY <2>1, <2>2 DEF Goes
  <2>5. LineHolds(c)' BY <2>1, <2>3, <2>4, StaysSettled DEF AsBefore
  <2>6. PICK f \in SUBSET Facts :
          /\ facts' = [facts EXCEPT ![c] = f] /\ facts[c] \subseteq f
          /\ recorded' = recorded \/ (recorded' = recorded \cup {c} /\ "RECORDING_NOTICE_PLAYED" \in f)
    <3>1. CASE UNCHANGED <<facts, recorded>>
      <4>1. facts' = [facts EXCEPT ![c] = facts[c]] /\ facts[c] \in SUBSET Facts BY <3>1, <1>1
      <4> QED BY <4>1, <3>1
    <3>2. CASE /\ facts' = [facts EXCEPT ![c] = facts[c] \cup {"RECORDING_STOPPED"}]
               /\ recorded' = IF "RECORDING_NOTICE_PLAYED" \in facts[c] THEN recorded \cup {c} ELSE recorded
      <4>1. facts[c] \cup {"RECORDING_STOPPED"} \in SUBSET Facts BY <1>1 DEF Facts
      <4> QED BY <4>1, <3>2
    <3> QED BY <1>a, <3>1, <3>2 DEF StoreRecording
  <2>7. /\ line[c].at \notin Resting /\ l.at # "allowed" /\ l.at \notin BeforeTheRow
        /\ callRow[c] \in {"none", "BLOCKED"} \cup OpenRow
        /\ callRow[c] \in OpenRow /\ callRow[c] \notin EndedRow
        /\ callRow' = [callRow EXCEPT ![c] = callRow[c]]
    BY <2>1, <2>3, <1>1, <1>2, <1>3
  <2>8. l.recorder => "RECORDING_NOTICE_PLAYED" \in f BY <2>3, <2>6, <1>3 DEF AsBefore
  <2> QED BY <2>1, <2>3, <2>4, <2>5, <2>6, <2>7, <2>8, RowOnly
<1>b. CASE FinishCall(c)
  <2>1. /\ line[c].at = "finishing"
        /\ UNCHANGED <<facts, recorded, rang, tally, told, chased, callTask>>
        /\ Goes(c, "reporting") /\ metered' = [metered EXCEPT ![c] = metered[c] + 1]
        /\ callRow' = [callRow EXCEPT ![c] =
                         IF line[c].ending = "PROVIDER_ERROR" THEN "FAILED" ELSE "COMPLETED"]
    BY <1>b DEF FinishCall, OnLine, sharedVars
  <2>2. PICK l : l = [line[c] EXCEPT !.at = "reporting"] OBVIOUS
  <2>3. l \in Line /\ l.at = "reporting" /\ l.ending = line[c].ending /\ AsBefore(line[c], l)
    BY <2>2, <1>1, <1>2, GoesIs
  <2>4. Becomes(c, l) BY <2>1, <2>2 DEF Goes
  <2>5. LineHolds(c)' BY <2>1, <2>3, <2>4, StaysSettled DEF AsBefore
  <2>6. PICK r \in EndedRow : callRow' = [callRow EXCEPT ![c] = r] BY <2>1, <1>2
  <2>7. metered[c] = 0 /\ callRow[c] \notin {"none", "BLOCKED"} /\ line[c].at \notin Resting
    BY <2>1, <1>2, <1>3
  <2>8. /\ callRow' \in [Calls -> {"none", "BLOCKED"} \cup OpenRow \cup EndedRow] /\ callRow'[c] = r
        /\ \A k \in Calls \ {c} : callRow'[k] = callRow[k]
    BY <2>6, <1>1
  <2>9. /\ metered' \in [Calls -> Nat] /\ metered'[c] = 1
        /\ \A k \in Calls \ {c} : metered'[k] = metered[k]
    BY <2>1, <2>7, <1>1
  <2>a. r \notin {"none", "BLOCKED"} BY DEF EndedRow
  <2>b. RowHolds(c)'
    <3>1. line'[c] = l BY <2>3, <2>4, LineMoves
    <3>2. l.at \notin Opened /\ l.at \notin BeforeTheRow BY <2>3, <1>2
    <3> QED BY <3>1, <3>2, <2>1, <2>3, <2>8, <2>9, <2>a, <1>1 DEF RowHolds, AsBefore
  <2>c. /\ facts' \in [Calls -> SUBSET Facts] /\ recorded' \subseteq Calls /\ rang' \subseteq Calls
        /\ UNCHANGED <<facts, recorded, rang, tally, told, chased, callTask>> /\ l.at # "allowed"
    BY <2>1, <2>3, <1>1
  <2> QED BY <2>3, <2>4, <2>5, <2>7, <2>8, <2>9, <2>b, <2>c, RowKeeps
<1>c. CASE ReportCall(c)
  <2>1. /\ line[c].at = "reporting" /\ UNCHANGED <<rowsVars, tally, told, chased>>
        /\ Goes(c, "done") /\ callTask' = IF LeftToAdvisor(c) THEN callTask \cup {c} ELSE callTask
    BY <1>c DEF ReportCall, OnLine, sharedVars
  <2>2. PICK l : l = [line[c] EXCEPT !.at = "done"] OBVIOUS
  <2>3. l \in Line /\ l.at = "done" /\ l.ending = line[c].ending /\ AsBefore(line[c], l)
    BY <2>2, <1>1, <1>2, GoesIs
  <2>4. Becomes(c, l) BY <2>1, <2>2 DEF Goes
  <2>5. line'[c] = l BY <2>3, <2>4, LineMoves
  <2>6. callTask \subseteq callTask' /\ callTask' \subseteq Calls BY <2>1, <1>1
  <2>7. OnRecord(c) => OnRecord(c)' BY <2>1, <2>6 DEF OnRecord
  <2>8. Settled(c)'
    <3>1. Settled(c) \/ LeftToAdvisor(c) BY <2>1, <1>1 DEF LineHolds
    <3>2. CASE Settled(c) BY <3>2, <2>3, <2>5, <2>7 DEF Settled
    <3>3. CASE LeftToAdvisor(c) BY <3>3, <2>1 DEF Settled, OnRecord
    <3> QED BY <3>1, <3>2, <3>3
  <2>9. LineHolds(c)'
    <3>1. l.at \notin {"keyed", "ran", "closing", "refused", "close", "finishing", "reporting"}
          /\ l.at \notin Undecided
      BY <2>3 DEF Undecided, BeforeTheRow, Dialling, InTheLoop
    <3> QED BY <3>1, <2>1, <2>3, <2>5, <2>7, <2>8, <1>1 DEF LineHolds, Undecided, AsBefore
  <2>a. line[c].at \notin Resting /\ l.at # "allowed" /\ l.at \notin Opened /\ l.at \notin BeforeTheRow
    BY <2>1, <2>3, <1>2
  <2> QED BY <2>1, <2>3, <2>4, <2>6, <2>9, <2>a, <1>1, TalkKeeps DEF AsBefore
<1> QED BY <1>5, <1>6, <1>7, <1>8, <1>9, <1>a, <1>b, <1>c DEF Ending
-----------------------------------------------------------------------------
(* The gate, exceptions, and everybody else. *)

\* A line before its row: nothing is left anywhere.
LEMMA LineOnly ==
  ASSUME CallsHold, NEW c \in Calls, NEW l \in Line, Becomes(c, l),
         UNCHANGED <<rowsVars, chased, callTask, told, tally>>,
         AsBefore(line[c], l), line[c].at \in {"idle", "gate"}, l.at \in BeforeTheRow,
         l.at = "refused" => l.ending \in {"CONSENT_REVOKED", "CUSTOMER_CALL_CAP", "OTHER_REFUSAL"}
  PROVE  VoiceTypes' /\ (CallsCounted' => CallsHold')
<1>1. /\ line' \in [Calls -> Line] /\ line'[c] = l /\ RowHolds(c)
      /\ \A k \in Calls \ {c} : line'[k] = line[k]
  BY LineMoves DEF CallsHold
<1>2. UNCHANGED <<callRow, facts, recorded, metered, rang>> BY DEF rowsVars
<1>3. VoiceTypes' BY <1>1, <1>2 DEF CallsHold, VoiceTypes
<1>4. \A k \in Calls \ {c} : RowHolds(k)' /\ LineHolds(k)' BY <1>1, <1>2, OthersHold
<1>5. /\ line[c].at \in BeforeTheRow /\ line[c].at \in Undecided /\ l.at \in Undecided /\ l.at \notin Opened
  BY DEF BeforeTheRow, Undecided, Opened, Dialling, InTheLoop
<1>6. LineHolds(c)' BY <1>5, LineGoesOn DEF AsBefore
<1>7. RowHolds(c)' BY <1>1, <1>2, <1>5 DEF RowHolds, AsBefore
<1> QED BY <1>3, <1>4, <1>6, <1>7 DEF CallsHold

LEMMA FireStep ==
  ASSUME CallsHold, NEW c \in Calls, FireCallRung(c) PROVE CallsHold'
<1>1. /\ line[c].at = "idle" /\ Goes(c, "gate") /\ UNCHANGED <<rowsVars, chased, callTask, told, tally>>
      /\ Cardinality(Occupied) < Slots
  BY DEF FireCallRung, OnLine, Occupied, sharedVars
<1>2. PICK l : l = [line[c] EXCEPT !.at = "gate"] OBVIOUS
<1>3. "gate" \in LineAt /\ "gate" \in BeforeTheRow BY DEF LineAt, BeforeTheRow
<1>4. l \in Line /\ l.at = "gate" /\ AsBefore(line[c], l) BY <1>2, <1>3, CallIs, GoesIs
<1>5. Becomes(c, l) BY <1>1, <1>2 DEF Goes
<1>6. VoiceTypes' /\ (CallsCounted' => CallsHold') BY <1>1, <1>3, <1>4, <1>5, LineOnly
<1>7. Counted' = Counted BY <1>1 DEF Counted, rowsVars
<1>8. Allowed' \subseteq Allowed /\ Occupied' \subseteq Occupied \cup {c}
  <2>1. line'[c] = l /\ \A k \in Calls \ {c} : line'[k] = line[k] BY <1>4, <1>5, LineMoves
  <2> QED BY <2>1, <1>4 DEF Allowed, Occupied
<1>9. /\ IsFiniteSet(Occupied) /\ IsFiniteSet(Allowed) /\ IsFiniteSet(Counted)
      /\ Cardinality(Occupied) \in Nat /\ Cardinality(Allowed) \in Nat /\ Cardinality(Counted) \in Nat
  BY CallSetsAreFinite DEF CallsHold
<1>a. Cardinality(Occupied') <= Slots
  <2>1. IsFiniteSet(Occupied \cup {c}) /\ Cardinality(Occupied \cup {c}) <= Cardinality(Occupied) + 1
        /\ Cardinality(Occupied \cup {c}) \in Nat
    <3>1. /\ IsFiniteSet(Occupied \cup {c})
          /\ Cardinality(Occupied \cup {c}) = IF c \in Occupied THEN Cardinality(Occupied)
                                              ELSE Cardinality(Occupied) + 1
      BY <1>9, FS_AddElement
    <3> QED BY <3>1, <1>9
  <2>2. Cardinality(Occupied') <= Cardinality(Occupied \cup {c}) /\ Cardinality(Occupied') \in Nat
    BY <2>1, <1>8, FS_Subset, FS_CardinalityType
  <2> QED BY <2>1, <2>2, <1>1, <1>9, VoiceAssumption
<1>b. Cardinality(Counted') + Cardinality(Allowed') < CallCap + Slots
  <2>1. Cardinality(Allowed') <= Cardinality(Allowed) /\ Cardinality(Allowed') \in Nat
    BY <1>8, <1>9, FS_Subset, FS_CardinalityType
  <2>2. Cardinality(Counted) + Cardinality(Allowed) < CallCap + Slots BY DEF CallsHold, CallsCounted
  <2> QED BY <2>1, <2>2, <1>7, <1>9, VoiceAssumption
<1> QED BY <1>6, <1>a, <1>b DEF CallsCounted

\* Who is let through found the day below its cap, and those let through before
\* him take slots of their own.
LEMMA AuthoriseStep ==
  ASSUME CallsHold, NEW c \in Calls, Authorise(c) PROVE CallsHold'
<1>1. line[c].at = "gate" /\ UNCHANGED <<rowsVars, chased, callTask, told, tally>>
  BY DEF Authorise, OnLine, sharedVars
<1>2. {"refused", "allowed"} \subseteq LineAt \cap BeforeTheRow BY DEF LineAt, BeforeTheRow
<1>3. line[c] \in Line /\ line[c].at \notin Resting BY <1>1, CallIs DEF Resting
<1>4. Counted' = Counted BY <1>1 DEF Counted, rowsVars
<1>5. ASSUME NEW e \in {"CONSENT_REVOKED", "CUSTOMER_CALL_CAP", "OTHER_REFUSAL"}, Ends(c, "refused", e)
      PROVE  CallsHold'
  <2>1. PICK l : l = [line[c] EXCEPT !.at = "refused", !.ending = e] OBVIOUS
  <2>2. e \in Endings BY DEF Endings
  <2>3. l \in Line /\ l.at = "refused" /\ l.ending = e /\ AsBefore(line[c], l)
    BY <2>1, <2>2, <1>2, <1>3 DEF Line, AsBefore
  <2>4. Becomes(c, l) BY <2>1, <1>5 DEF Ends
  <2>5. VoiceTypes' /\ (CallsCounted' => CallsHold') BY <2>3, <2>4, <1>1, <1>2, LineOnly
  <2>6. Occupied' \subseteq Occupied /\ Allowed' \subseteq Allowed BY <2>3, <2>4, <1>3, LineMoves
  <2> QED BY <2>5, <2>6, <1>4, CountsStand
<1>6. CASE ~DayIsFull /\ Goes(c, "allowed")
  <2>1. PICK l : l = [line[c] EXCEPT !.at = "allowed"] OBVIOUS
  <2>2. l \in Line /\ l.at = "allowed" /\ AsBefore(line[c], l) BY <2>1, <1>2, <1>3, GoesIs
  <2>3. Becomes(c, l) BY <2>1, <1>6 DEF Goes
  <2>4. VoiceTypes' /\ (CallsCounted' => CallsHold') BY <2>2, <2>3, <1>1, <1>2, LineOnly
  <2>5. Occupied' \subseteq Occupied /\ Allowed' \subseteq Occupied'
    <3>1. Occupied' \subseteq Occupied BY <2>2, <2>3, <1>3, LineMoves
    <3>2. "allowed" \notin Resting BY DEF Resting
    <3> QED BY <3>1, <3>2 DEF Allowed, Occupied
  <2>6. /\ IsFiniteSet(Occupied) /\ Cardinality(Occupied) \in Nat /\ Cardinality(Counted) \in Nat
    BY CallSetsAreFinite DEF CallsHold
  <2>7. /\ Cardinality(Occupied') <= Cardinality(Occupied) /\ Cardinality(Occupied') \in Nat
        /\ Cardinality(Allowed') <= Cardinality(Occupied) /\ Cardinality(Allowed') \in Nat
    <3>1. Allowed' \subseteq Occupied BY <2>5
    <3> QED BY <3>1, <2>5, <2>6, FS_Subset, FS_CardinalityType
  <2>8. Cardinality(Occupied) <= Slots BY DEF CallsHold, CallsCounted
  <2>9. Cardinality(Counted) < CallCap BY <1>6, <2>6, VoiceAssumption DEF DayIsFull, Counted
  <2>a. Cardinality(Occupied') <= Slots BY <2>6, <2>7, <2>8, VoiceAssumption
  <2>b. Cardinality(Counted') + Cardinality(Allowed') < CallCap + Slots
    BY <2>6, <2>7, <2>8, <2>9, <1>4, VoiceAssumption
  <2> QED BY <2>4, <2>a, <2>b DEF CallsCounted
<1> QED BY <1>5, <1>6 DEF Authorise

\* A call that is written down is counted, and is no longer one let through.
LEMMA OpenCallStep ==
  ASSUME CallsHold, NEW c \in Calls, OpenCall(c) PROVE CallsHold'
<1>1. /\ line[c].at = "allowed" /\ callRow' = [callRow EXCEPT ![c] = "ORIGINATING"] /\ Goes(c, "dial")
      /\ UNCHANGED <<facts, recorded, metered, rang, chased, callTask, told, tally>>
  BY DEF OpenCall, OnLine, sharedVars
<1>2. /\ line[c] \in Line /\ RowHolds(c)
      /\ callRow \in [Calls -> {"none", "BLOCKED"} \cup OpenRow \cup EndedRow]
  BY CallIs
<1>3. /\ "dial" \in LineAt /\ "dial" \in Opened /\ "dial" \in Undecided /\ "dial" \notin BeforeTheRow
      /\ "allowed" \in Undecided /\ "allowed" \in BeforeTheRow /\ "allowed" \notin Resting
      /\ "ORIGINATING" \in OpenRow /\ "ORIGINATING" \notin {"none", "BLOCKED"} \cup EndedRow
      /\ "none" \notin EndedRow
  BY DEF LineAt, Opened, Dialling, Undecided, BeforeTheRow, Resting, OpenRow, EndedRow
<1>4. PICK l : l = [line[c] EXCEPT !.at = "dial"] OBVIOUS
<1>5. l \in Line /\ l.at = "dial" /\ AsBefore(line[c], l) BY <1>2, <1>3, <1>4, GoesIs
<1>6. Becomes(c, l) BY <1>1, <1>4 DEF Goes
<1>7. /\ line' \in [Calls -> Line] /\ line'[c] = l
      /\ \A k \in Calls \ {c} : line'[k] = line[k]
      /\ Occupied' \subseteq Occupied
  BY <1>1, <1>3, <1>5, <1>6, LineMoves
<1>8. /\ callRow' \in [Calls -> {"none", "BLOCKED"} \cup OpenRow \cup EndedRow]
      /\ callRow'[c] = "ORIGINATING"
      /\ \A k \in Calls \ {c} : callRow'[k] = callRow[k]
  BY <1>1, <1>2, <1>3
<1>9. VoiceTypes' BY <1>1, <1>7, <1>8 DEF CallsHold, VoiceTypes
<1>a. \A k \in Calls \ {c} : RowHolds(k)' /\ LineHolds(k)' BY <1>1, <1>7, <1>8, OthersHold
<1>b. callRow[c] = "none" BY <1>1, <1>2, <1>3 DEF RowHolds
<1>c. RowHolds(c)'
  <2>1. metered[c] = 0 BY <1>2, <1>3, <1>b DEF RowHolds
  <2>2. l.recorder <=> line[c].recorder BY <1>5 DEF AsBefore
  <2> QED BY <2>1, <2>2, <1>1, <1>2, <1>3, <1>5, <1>7, <1>8 DEF RowHolds
<1>d. LineHolds(c)' BY <1>1, <1>3, <1>5, <1>6, LineGoesOn DEF AsBefore
<1>e. /\ IsFiniteSet(Occupied) /\ IsFiniteSet(Allowed) /\ IsFiniteSet(Counted)
      /\ Cardinality(Occupied) \in Nat /\ Cardinality(Allowed) \in Nat /\ Cardinality(Counted) \in Nat
  BY CallSetsAreFinite DEF CallsHold
<1>f. Counted' = Counted \cup {c} /\ c \notin Counted BY <1>3, <1>8, <1>b DEF Counted
<1>g. Allowed' = Allowed \ {c} /\ c \in Allowed BY <1>1, <1>5, <1>7 DEF Allowed
<1>h. Cardinality(Counted') = Cardinality(Counted) + 1 BY <1>e, <1>f, FS_AddElement
<1>i. Cardinality(Allowed') = Cardinality(Allowed) - 1 BY <1>e, <1>g, FS_RemoveElement
<1>j. Cardinality(Counted') + Cardinality(Allowed') < CallCap + Slots
  <2>1. Cardinality(Counted) + Cardinality(Allowed) < CallCap + Slots BY DEF CallsHold, CallsCounted
  <2> QED BY <2>1, <1>e, <1>h, <1>i, VoiceAssumption
<1>k. Cardinality(Occupied') <= Slots
  <2>1. Cardinality(Occupied') <= Cardinality(Occupied) /\ Cardinality(Occupied') \in Nat
    BY <1>7, <1>e, FS_Subset, FS_CardinalityType
  <2>2. Cardinality(Occupied) <= Slots BY DEF CallsHold, CallsCounted
  <2> QED BY <2>1, <2>2, <1>e, VoiceAssumption
<1> QED BY <1>9, <1>a, <1>c, <1>d, <1>j, <1>k DEF CallsHold, CallsCounted

LEMMA TripStep ==
  ASSUME CallsHold, NEW c \in Calls, Trips(c) PROVE CallsHold'
<1>1. /\ line[c] \in Line /\ LineHolds(c) /\ tally \in [Calls -> SUBSET Decisions]
      /\ told \in [Calls -> Maybe] /\ callTask \subseteq Calls /\ chased.decision \in Maybe
  BY CallIs
<1>2. UNCHANGED <<rowsVars, chased, callTask, told, tally>> /\ line[c].at \notin Resting
  BY DEF Trips, sharedVars
<1>3. /\ {"caught", "dead"} \subseteq LineAt /\ "caught" \in Opened /\ Guarded \subseteq Opened
      /\ "caught" \notin Undecided /\ "dead" \notin Opened \cup BeforeTheRow \cup Undecided
  BY DEF LineAt, Opened, Guarded, Undecided, BeforeTheRow, Dialling, InTheLoop
<1>4. CASE Goes(c, "dead")
  <2>1. PICK l : l = [line[c] EXCEPT !.at = "dead"] OBVIOUS
  <2>2. l \in Line /\ l.at = "dead" /\ AsBefore(line[c], l) BY <2>1, <1>1, <1>3, GoesIs
  <2>3. Becomes(c, l) BY <2>1, <1>4 DEF Goes
  <2>4. LineHolds(c)'
    <3>1. line'[c] = l BY <2>2, <2>3, LineMoves
    <3>2. OnRecord(c) => OnRecord(c)' BY <1>2 DEF OnRecord
    <3> QED BY <3>1, <3>2, <2>2, <1>1, <1>2, <1>3 DEF LineHolds, Undecided, AsBefore
  <2>5. l.at \notin Opened /\ l.at \notin BeforeTheRow /\ l.at # "allowed" BY <2>2, <1>3
  <2> QED BY <2>2, <2>3, <2>4, <2>5, <1>1, <1>2, TalkKeeps DEF AsBefore
<1>5. CASE line[c].at \in Guarded /\ Goes(c, "caught")
  <2>1. PICK l : l = [line[c] EXCEPT !.at = "caught"] OBVIOUS
  <2>2. l \in Line /\ l.at = "caught" /\ AsBefore(line[c], l) BY <2>1, <1>1, <1>3, GoesIs
  <2>3. Becomes(c, l) BY <2>1, <1>5 DEF Goes
  <2>4. line[c].pending # "none" => line[c].pending \in tally[c] BY <1>1 DEF LineHolds
  <2> QED BY <2>2, <2>3, <2>4, <1>1, <1>2, <1>3, <1>5, Talks DEF AsBefore
<1> QED BY <1>4, <1>5 DEF Trips

\* What happens beside the calls: a decision may come, none goes.
LEMMA ElsewhereKeeps ==
  ASSUME CallsHold, UNCHANGED <<rowsVars, line, callTask, told, tally>>,
         chased'.decision \in Maybe, chased.decision # "none" => chased'.decision # "none"
  PROVE  CallsHold'
<1>1. UNCHANGED <<callRow, facts, recorded, metered, rang>> BY DEF rowsVars
<1>2. VoiceTypes' BY <1>1 DEF CallsHold, VoiceTypes
<1>3. Occupied' = Occupied /\ Counted' = Counted /\ Allowed' = Allowed
  BY <1>1 DEF Occupied, Counted, Allowed
<1>4. CallsCounted' BY <1>2, <1>3, CountsStand
<1>5. ASSUME NEW k \in Calls PROVE RowHolds(k)' /\ LineHolds(k)'
  <2>1. RowHolds(k) /\ LineHolds(k) BY DEF CallsHold
  <2>2. RowHolds(k)' BY <2>1, <1>1 DEF RowHolds
  <2>3. (OnRecord(k) => OnRecord(k)') /\ (Settled(k) => Settled(k)') /\ (LeftToAdvisor(k) => LeftToAdvisor(k)')
    BY DEF OnRecord, Settled, LeftToAdvisor
  <2>4. LineHolds(k)' BY <2>1, <2>3 DEF LineHolds
  <2> QED BY <2>2, <2>4
<1> QED BY <1>2, <1>4, <1>5 DEF CallsHold

LEMMA CallsStart == VoiceInit => CallsHold
<1> SUFFICES ASSUME VoiceInit PROVE CallsHold
  OBVIOUS
<1>1. NewLine \in Line /\ NewLine.at = "idle" /\ NewLine.pending = "none" /\ NewLine.decision = "none"
      /\ NewLine.recorder = FALSE
  BY DEF NewLine, Line, LineAt, BeforeTheRow, Endings, Maybe
<1>2. \A c \in Calls : line[c] = NewLine /\ callRow[c] = "none" /\ metered[c] = 0 /\ told[c] = "none"
  BY DEF VoiceInit
<1>3. VoiceTypes BY <1>1 DEF VoiceInit, VoiceTypes, Maybe, OpenRow
<1>4. "idle" \in Resting /\ "idle" \notin Opened /\ "none" \notin EndedRow
  BY DEF Resting, Opened, Dialling, InTheLoop, EndedRow
<1>5. ASSUME NEW c \in Calls PROVE RowHolds(c) /\ LineHolds(c)
  <2>1. c \notin recorded /\ c \notin rang BY DEF VoiceInit
  <2>2. RowHolds(c) BY <2>1, <1>1, <1>2, <1>4 DEF RowHolds
  <2>3. LineHolds(c) BY <1>1, <1>2 DEF LineHolds
  <2> QED BY <2>2, <2>3
<1>6. CallsCounted
  <2>1. Occupied = {} /\ Counted = {} /\ Allowed = {} BY <1>1, <1>2, <1>4 DEF Occupied, Counted, Allowed
  <2>2. Cardinality({}) = 0 BY FS_EmptySet
  <2>3. Cardinality(Occupied) = 0 /\ Cardinality(Counted) = 0 /\ Cardinality(Allowed) = 0 BY <2>1, <2>2
  <2> QED BY <2>3, VoiceAssumption DEF CallsCounted
<1> QED BY <1>3, <1>5, <1>6 DEF CallsHold

LEMMA CallsStep == CallsHold /\ [VoiceNext]_voiceVars => CallsHold'
<1> SUFFICES ASSUME CallsHold, [VoiceNext]_voiceVars PROVE CallsHold'
  OBVIOUS
<1>1. chased.decision \in Maybe BY DEF CallsHold, VoiceTypes
<1>2. ASSUME NEW c \in Calls, CallGoesOn(c) PROVE CallsHold'
  BY <1>2, AuthoriseStep, OpenCallStep, OpeningStep, RefusedStep, CallerStep, AgentStep, EndingStep
     DEF CallGoesOn, GateStep
<1>3. ASSUME NEW d \in Decisions, DecideElsewhere(d) PROVE CallsHold'
  <2>1. UNCHANGED <<rowsVars, line, callTask, told, tally>> /\ chased'.decision = d
    BY <1>3 DEF DecideElsewhere, DecidedBy
  <2>2. d \in Maybe /\ d # "none" BY VoiceAssumption DEF Maybe
  <2> QED BY <2>1, <2>2, ElsewhereKeeps
<1>4. CASE RevokeCalls \/ WriteOnThread
  <2>1. UNCHANGED <<rowsVars, line, chased, callTask, told, tally>> BY <1>4 DEF RevokeCalls, WriteOnThread
  <2> QED BY <2>1, <1>1, ElsewhereKeeps
<1>5. CASE UNCHANGED voiceVars
  <2>1. UNCHANGED <<rowsVars, line, chased, callTask, told, tally>> BY <1>5 DEF voiceVars, sharedVars
  <2> QED BY <2>1, <1>1, ElsewhereKeeps
<1> QED BY <1>2, <1>3, <1>4, <1>5, FireStep, TripStep DEF VoiceNext

\* The calls' soundness for any calls, slots, day's cap, turns and exceptions: no
\* sound without the notice, the day's cap kept to the slots, no decision told or
\* keyed without its record, and every call that has been through settled and
\* paid for once.
THEOREM CallsAlwaysSound == VoiceSpec => []CallsAreSound
<1> QED BY CallsStart, CallsStep, VoiceIsStrong, PTL DEF VoiceSpec
=============================================================================
