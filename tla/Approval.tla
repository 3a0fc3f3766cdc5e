------------------------------ MODULE Approval ------------------------------
(***************************************************************************)
(* The customer's decision on the extra work of one card (ApprovalService).*)
(*                                                                         *)
(* The decision is recorded in one transaction, under the request's row    *)
(* lock; what follows from it runs after that transaction, one transaction *)
(* a step: the work items, the card, the chase, the event.  A process that *)
(* dies or a transition that is refused leaves the rest undone, and nobody *)
(* takes it up again, because the request is already decided.              *)
(***************************************************************************)
EXTENDS Naturals, FiniteSets

CONSTANTS
  Items,     \* work items waiting for the customer
  Requests,  \* approval requests the agent may open
  Callers    \* calls of recordCustomerDecision: a tap, the agent's tool, a keypad

\* "none" stands for no request.
ASSUME NoneIsNoRequest == "none" \notin Requests

VARIABLES
  request,   \* request[r]: [status, items, approved]
  item,      \* item[i]: work_items.state; DEFERRED stands for DECLINED too
  cardState, \* job_cards.state
  deciding,  \* deciding[c]: the request being applied, the step, the items left
  announced  \* announced[r]: the approval.decided event

approvalVars == <<request, item, cardState, deciding, announced>>

Idle == [request |-> "none", step |-> "idle", left |-> {}]
Unmade == [status |-> "none", items |-> {}, approved |-> {}]

Decided(r) == request[r].status = "decided"
-----------------------------------------------------------------------------
ApprovalInit ==
  /\ request = [r \in Requests |-> Unmade]
  /\ item = [i \in Items |-> "PENDING_APPROVAL"]
  /\ cardState = "AWAITING_APPROVAL"
  /\ deciding = [c \in Callers |-> Idle]
  /\ announced = [r \in Requests |-> "no"]

\* createApprovalRequest asks about any items of the bundle, whatever their
\* state and whatever other request is open.
Create(r, asked) ==
  /\ request[r] = Unmade /\ asked # {}
  /\ request' = [request EXCEPT ![r] = [status |-> "PENDING", items |-> asked, approved |-> {}]]
  /\ UNCHANGED <<item, cardState, deciding, announced>>

\* Mutant: a second answer is recorded over the first.
AnswerableAgain(r) == request[r].status # "none"

\* A decided request takes no second answer.
Answerable(r) == request[r].status = "PENDING"

\* The recording transaction: yes covers a subset of what was asked.
Record(c, r, yes) ==
  /\ deciding[c] = Idle /\ Answerable(r) /\ yes \subseteq request[r].items
  /\ request' = [request EXCEPT
                   ![r] = [status |-> "decided", items |-> request[r].items, approved |-> yes]]
  /\ deciding' = [deciding EXCEPT ![c] = [request |-> r, step |-> "items", left |-> request[r].items]]
  /\ UNCHANGED <<item, cardState, announced>>

\* Approved items move first, then the remainder.
NextItems(c) ==
  LET yes == deciding[c].left \cap request[deciding[c].request].approved IN
  IF yes # {} THEN yes ELSE deciding[c].left

Outcome(r, i) == IF i \in request[r].approved THEN "APPROVED" ELSE "DEFERRED"

\* APPROVE, DECLINE and DEFER are legal from PENDING_APPROVAL only.
Movable(i) == item[i] = "PENDING_APPROVAL"

MoveItem(c) ==
  /\ deciding[c].step = "items"
  /\ \E i \in NextItems(c) :
       /\ Movable(i)
       /\ item' = [item EXCEPT ![i] = Outcome(deciding[c].request, i)]
       /\ deciding' = [deciding EXCEPT ![c].left = deciding[c].left \ {i}]
  /\ UNCHANGED <<request, cardState, announced>>

\* Mutant: what was not approved is left where it is.
ApprovedMoved(c) ==
  deciding[c].step = "items" /\ deciding[c].left \cap request[deciding[c].request].approved = {}

ItemsMoved(c) == deciding[c].step = "items" /\ deciding[c].left = {}

\* Any approval at all unblocks the bay; a total refusal does not.
GrantCard(c) ==
  /\ ItemsMoved(c) /\ request[deciding[c].request].approved # {}
  /\ cardState = "AWAITING_APPROVAL"
  /\ cardState' = "IN_PROGRESS"
  /\ deciding' = [deciding EXCEPT ![c].step = "cancel"]
  /\ UNCHANGED <<request, item, announced>>

NothingToGrant(c) ==
  /\ ItemsMoved(c) /\ request[deciding[c].request].approved = {}
  /\ deciding' = [deciding EXCEPT ![c].step = "cancel"]
  /\ UNCHANGED <<request, item, cardState, announced>>

\* The call ends early: a transition is refused and throws, or the process dies.
Abandon(c) ==
  /\ deciding[c] # Idle
  /\ deciding' = [deciding EXCEPT ![c] = Idle]
  /\ UNCHANGED <<request, item, cardState, announced>>

\* cancelLadder's two halves, and the handler of approval.decided: what they do
\* to the chase is ApprovalChase's.
CancelLadder(c) ==
  /\ deciding[c].step = "cancel"
  /\ deciding' = [deciding EXCEPT ![c].step = "tasks"]
  /\ UNCHANGED <<request, item, cardState, announced>>

ClearTasks(c) ==
  /\ deciding[c].step = "tasks"
  /\ deciding' = [deciding EXCEPT ![c].step = "emit"]
  /\ UNCHANGED <<request, item, cardState, announced>>

\* The last transaction writes approval.decided to the outbox.
Announce(c) ==
  /\ deciding[c].step = "emit"
  /\ announced' = [announced EXCEPT ![deciding[c].request] = "sent"]
  /\ deciding' = [deciding EXCEPT ![c] = Idle]
  /\ UNCHANGED <<request, item, cardState>>

HandleDecided(r) ==
  /\ announced[r] = "sent"
  /\ announced' = [announced EXCEPT ![r] = "handled"]
  /\ UNCHANGED <<request, item, cardState, deciding>>

\* The steps that leave the chase alone.
DecisionStep ==
  \/ \E r \in Requests, s \in SUBSET Items : Create(r, s)
  \/ \E c \in Callers, r \in Requests, s \in SUBSET Items : Record(c, r, s)
  \/ \E c \in Callers :
       \/ MoveItem(c) \/ GrantCard(c) \/ NothingToGrant(c) \/ Abandon(c) \/ Announce(c)

ApprovalNext ==
  \/ DecisionStep
  \/ \E c \in Callers : CancelLadder(c) \/ ClearTasks(c)
  \/ \E r \in Requests : HandleDecided(r)

ApprovalSpec == ApprovalInit /\ [][ApprovalNext]_approvalVars
-----------------------------------------------------------------------------
(* Properties. *)

ApprovalTypeOK ==
  /\ request \in [Requests -> [status : {"none", "PENDING", "decided"},
                               items : SUBSET Items, approved : SUBSET Items]]
  /\ item \in [Items -> {"PENDING_APPROVAL", "APPROVED", "DEFERRED"}]
  /\ cardState \in {"AWAITING_APPROVAL", "IN_PROGRESS"}
  /\ deciding \in [Callers -> [request : Requests \cup {"none"}, left : SUBSET Items,
                           step : {"idle", "items", "cancel", "tasks", "emit"}]]
  /\ announced \in [Requests -> {"no", "sent", "handled"}]

\* Two taps are not two decisions: what was decided first stays
\* (approval-service.ts:275, agent-store.ts:739).
DecidedOnce == [][\A r \in Requests : Decided(r) => request'[r] = request[r]]_approvalVars

\* approval.decided is true when it is sent: every item it names is where that
\* decision put it, and the card it unblocked has left AWAITING_APPROVAL, even
\* when another request asked about the same items.
AnnouncedIsApplied ==
  \A r \in Requests : announced[r] # "no" =>
    /\ \A i \in request[r].items : item[i] = Outcome(r, i)
    /\ request[r].approved # {} => cardState # "AWAITING_APPROVAL"
=============================================================================
