------------------------------ MODULE Erasure -------------------------------
(***************************************************************************)
(* A customer's requests for their data or its deletion, from the counter  *)
(* to the cascade (DataPrincipalService, PgDataRequestStore, the workers'  *)
(* DataRequestSentinel).                                                   *)
(*                                                                         *)
(* Every step at the counter locks the request for its one transaction.    *)
(* An execution locks it only to read it: the mark RUNNING, the cascade    *)
(* over all tables, and the completion are transactions of their own, and  *)
(* a request found RUNNING is executed again.                              *)
(***************************************************************************)
EXTENDS Naturals, FiniteSets

CONSTANTS
  Wishes,     \* rows of data_requests the customer may come to have
  Deletions,  \* those that ask for deletion; the others for an export
  Erasers,    \* workers, and the console's "run now"
  MaxPersonal, MaxErasureFaults  \* bounds on rows that name the customer and on faults

ASSUME ErasureConstants ==
  /\ Deletions \subseteq Wishes /\ IsFiniteSet(Wishes)
  /\ MaxPersonal \in Nat /\ MaxErasureFaults \in Nat

VARIABLES
  dsr,        \* dsr[q]: data_requests.status, none before the row
  detached,   \* requests whose customer_id has been cleared
  verified,   \* requests with a verified_at
  due,        \* due[e]: the requests left of the sentinel's pass
  matured,    \* approved requests whose scheduled_for has passed
  eraser,     \* eraser[e]: the request and how far its execution is
  personal,   \* rows that name the customer
  arrived,    \* rows that ever did
  purged,     \* purged[q]: rows the cascades of q have taken
  cascades,   \* cascades[q]: how many have committed
  report,     \* report[q]: the rows of the completion report
  withdrawn,  \* requests cancelled before their first cascade
  overtook,   \* of those, the ones an execution had read by then
  erasureFaults

countVars == <<personal, arrived, purged, cascades, report>>
counterVars == <<withdrawn, overtook>>
requestVars == <<detached, verified, matured>>
erasureVars == <<dsr, requestVars, due, eraser, countVars, counterVars, erasureFaults>>

NoExecution == [wish |-> "none", phase |-> "idle"]

ErasureInit ==
  /\ dsr = [q \in Wishes |-> "none"]
  /\ detached = {} /\ verified = {} /\ matured = {}
  /\ eraser = [e \in Erasers |-> NoExecution] /\ due = [e \in Erasers |-> {}]
  /\ personal = 1 /\ arrived = 1
  /\ purged = [q \in Wishes |-> 0] /\ cascades = [q \in Wishes |-> 0]
  /\ report = [q \in Wishes |-> 0]
  /\ withdrawn = {} /\ overtook = {} /\ erasureFaults = 0
-----------------------------------------------------------------------------
(* At the counter. *)

\* findOpenFor looks for an open request first, without a lock and with no index
\* behind it: calls at the same time open as many as there are calls.
Raise(q) ==
  /\ dsr[q] = "none"
  /\ dsr' = [dsr EXCEPT ![q] = "RECEIVED"]
  /\ UNCHANGED <<requestVars, due, eraser, countVars, counterVars, erasureFaults>>

\* Mutant: what is open may be approved, verified or not.
Approvable(q) == dsr[q] \in {"RECEIVED", "VERIFIED"}

MayApprove(q) == dsr[q] = "VERIFIED"

Verify(q) ==
  /\ dsr[q] = "RECEIVED"
  /\ dsr' = [dsr EXCEPT ![q] = "VERIFIED"]
  /\ verified' = verified \cup {q}
  /\ UNCHANGED <<detached, matured, due, eraser, countVars, counterVars, erasureFaults>>

\* A deletion waits out the grace window, unless an owner waives it.
Approve(q, waived) ==
  /\ MayApprove(q)
  /\ LET now == waived \/ q \notin Deletions IN
       /\ dsr' = [dsr EXCEPT ![q] = IF now THEN "APPROVED" ELSE "SCHEDULED"]
       /\ matured' = IF now THEN matured \cup {q} ELSE matured
  /\ UNCHANGED <<detached, verified, due, eraser, countVars, counterVars, erasureFaults>>

GraceElapses(q) ==
  /\ dsr[q] = "SCHEDULED" /\ q \notin matured
  /\ matured' = matured \cup {q}
  /\ UNCHANGED <<dsr, detached, verified, due, eraser, countVars, counterVars, erasureFaults>>

Reads(q) == {e \in Erasers : eraser[e].wish = q}

Cancel(q) ==
  /\ dsr[q] \in {"RECEIVED", "VERIFIED", "APPROVED", "SCHEDULED"}
  /\ dsr' = [dsr EXCEPT ![q] = "CANCELLED"]
  /\ withdrawn' = IF cascades[q] = 0 THEN withdrawn \cup {q} ELSE withdrawn
  /\ overtook' = IF Reads(q) # {} THEN overtook \cup {q} ELSE overtook
  /\ UNCHANGED <<requestVars, due, eraser, countVars, erasureFaults>>

\* reject asks for no status.
Reject(q) ==
  /\ dsr[q] # "none"
  /\ dsr' = [dsr EXCEPT ![q] = "REJECTED"]
  /\ UNCHANGED <<requestVars, due, eraser, countVars, counterVars, erasureFaults>>

\* The customer is still served meanwhile.
NewRow ==
  /\ arrived < MaxPersonal
  /\ arrived' = arrived + 1 /\ personal' = personal + 1
  /\ UNCHANGED <<dsr, requestVars, due, eraser, purged, cascades, report, counterVars,
                 erasureFaults>>
-----------------------------------------------------------------------------
(* execute *)

\* Mutant: a request that is running is somebody else's.
DueStatusesOnce == {"APPROVED", "SCHEDULED"}

\* dueForExecution and execute agree on them.
DueStatuses == {"APPROVED", "SCHEDULED", "RUNNING"}

\* The sentinel's pass, whose row locks end with the reading.
StartPass(e) ==
  /\ eraser[e] = NoExecution /\ due[e] = {}
  /\ due' = [due EXCEPT ![e] = {q \in Wishes : dsr[q] \in DueStatuses /\ q \in matured}]
  /\ due'[e] # {}
  /\ UNCHANGED <<dsr, requestVars, eraser, countVars, counterVars, erasureFaults>>

\* The load of execute and its checks, which end with their transaction.
ReadDue(e) == \E q \in due[e] :
  /\ eraser[e] = NoExecution
  /\ due' = [due EXCEPT ![e] = due[e] \ {q}]
  /\ IF dsr[q] \in DueStatuses /\ q \notin detached
       THEN eraser' = [eraser EXCEPT ![e] = [wish |-> q, phase |-> "read"]]
       ELSE UNCHANGED eraser
  /\ UNCHANGED <<dsr, requestVars, countVars, counterVars, erasureFaults>>

\* Whatever has become of the status.
MarkRunning(e) ==
  /\ eraser[e].phase = "read"
  /\ dsr' = [dsr EXCEPT ![eraser[e].wish] = "RUNNING"]
  /\ eraser' = [eraser EXCEPT ![e].phase = "running"]
  /\ UNCHANGED <<requestVars, due, countVars, counterVars, erasureFaults>>

\* All tables in one transaction.
Cascade(e) ==
  LET q == eraser[e].wish IN
  /\ eraser[e].phase = "running" /\ q \in Deletions
  /\ personal' = 0
  /\ purged' = [purged EXCEPT ![q] = purged[q] + personal]
  /\ cascades' = [cascades EXCEPT ![q] = cascades[q] + 1]
  /\ eraser' = [eraser EXCEPT ![e] = [wish |-> q, phase |-> "done", rows |-> personal]]
  /\ UNCHANGED <<dsr, requestVars, due, arrived, report, counterVars, erasureFaults>>

\* The snapshot and the archive, under the request's own key.
Export(e) ==
  /\ eraser[e].phase = "running" /\ eraser[e].wish \notin Deletions
  /\ eraser' = [eraser EXCEPT ![e] = [wish |-> eraser[e].wish, phase |-> "done", rows |-> 0]]
  /\ UNCHANGED <<dsr, requestVars, due, countVars, counterVars, erasureFaults>>

ReportOf(e) == [report EXCEPT ![eraser[e].wish] = eraser[e].rows]

\* markCompleted, with what this execution counted, detachCustomer and the event.
Complete(e) ==
  LET q == eraser[e].wish IN
  /\ eraser[e].phase = "done"
  /\ dsr' = [dsr EXCEPT ![q] = "COMPLETED"]
  /\ report' = ReportOf(e)
  /\ detached' = IF q \in Deletions THEN detached \cup {q} ELSE detached
  /\ eraser' = [eraser EXCEPT ![e] = NoExecution]
  /\ UNCHANGED <<verified, matured, due, personal, arrived, purged, cascades, counterVars, erasureFaults>>

\* A step throws and its transaction rolls back; or the worker dies.
FailExecution(e) == \E rest \in {due[e], {}} :
  /\ erasureFaults < MaxErasureFaults /\ eraser[e] # NoExecution
  /\ erasureFaults' = erasureFaults + 1
  /\ eraser' = [eraser EXCEPT ![e] = NoExecution]
  /\ due' = [due EXCEPT ![e] = rest]
  /\ UNCHANGED <<dsr, requestVars, countVars, counterVars>>

Executing(e) ==
  \/ StartPass(e) \/ ReadDue(e)
  \/ MarkRunning(e) \/ Cascade(e) \/ Export(e) \/ Complete(e)

ErasureNext ==
  \/ \E e \in Erasers : Executing(e) \/ FailExecution(e)
  \/ \E q \in Wishes : \/ Raise(q) \/ Verify(q) \/ Approve(q, TRUE) \/ Approve(q, FALSE)
                       \/ GraceElapses(q) \/ Cancel(q) \/ Reject(q)
  \/ NewRow

ErasureSpec == ErasureInit /\ [][ErasureNext]_erasureVars
-----------------------------------------------------------------------------
(* Properties. *)

\* Nothing is erased but for a request whose requester was verified, that was
\* approved, and whose grace window has passed; and not for one withdrawn in
\* time, unless an execution had read it before.
ErasureIsAuthorised ==
  \A q \in Wishes : cascades[q] > 0 =>
    /\ q \in verified /\ q \in matured
    /\ q \in withdrawn => q \in overtook

\* A deletion said to be complete has been carried out, and its report counts
\* every row, unless the cascade ran more than once.
ReportIsTrue ==
  \A q \in Deletions : dsr[q] = "COMPLETED" =>
    /\ cascades[q] > 0
    /\ cascades[q] = 1 => report[q] = purged[q]

ErasureIsSound == ErasureIsAuthorised /\ ReportIsTrue

\* A request whose time has come is executed or withdrawn: what a dead worker
\* left RUNNING is found by a later pass.  (Two workers on one deletion can leave
\* it marked RUNNING after it was carried out; no pass will touch it again.)
ErasureHappens ==
  \A q \in Wishes :
    dsr[q] \in {"APPROVED", "SCHEDULED", "RUNNING"} ~>
      dsr[q] \in {"COMPLETED", "CANCELLED", "REJECTED"} \/ q \in detached
=============================================================================
