------------------------------ MODULE GatePass ------------------------------
(***************************************************************************)
(* The passes that let one card's vehicle out of the gate                  *)
(* (GatePassService), beside the billing of the same card.                 *)
(*                                                                         *)
(* Issuing reads the active pass and the balance in one transaction and    *)
(* inserts in another.  Verifying locks the row in a transaction that ends *)
(* before the answer is recorded in the next one.                          *)
(***************************************************************************)
EXTENDS Billing

CONSTANTS
  Passes,    \* calls of issue, each with the row it may insert
  Advisors,  \* how many of those calls may run at once
  Gates      \* gate screens

VARIABLES
  issue,    \* issue[p]: idle, or the override (given or not) the call has decided on
  pass,     \* pass[p]: gate_passes.status, none before the insert
  expired,  \* passes whose expires_at has gone by
  gate,     \* gate[g]: the scan in progress [pass, verdict]
  opened    \* opened[p]: how often the barrier was told VALID

gateVars == <<issue, pass, expired, gate, opened>>
gatePassVars == <<billingVars, gateVars>>

ASSUME GateAssumption == IsFiniteSet(Passes) /\ IsFiniteSet(Gates) /\ Advisors \in Nat

Result == {"VALID", "ALREADY_USED", "REVOKED", "EXPIRED"}

NoScan == [pass |-> "none", verdict |-> "none"]
-----------------------------------------------------------------------------
GateInit ==
  /\ BillingInit
  /\ issue = [p \in Passes |-> "idle"]
  /\ pass = [p \in Passes |-> "none"]
  /\ expired = {}
  /\ gate = [g \in Gates |-> NoScan]
  /\ opened = [p \in Passes |-> 0]

\* findActiveForCard, its expiry checked.
Live == {p \in Passes : pass[p] = "ISSUED" /\ p \notin expired}

\* The balance of the newest open payment; none without one.
Outstanding == \E l \in OpenForCard : pay[l].paid < pay[l].amount

\* issue: an existing pass is returned instead, and a balance needs a reason.
CheckIssue(p, override) ==
  /\ pass[p] = "none" /\ issue[p] = "idle"
  /\ Cardinality({q \in Passes : issue[q] # "idle"}) < Advisors
  /\ Live = {}
  /\ Outstanding => override
  /\ issue' = [issue EXCEPT ![p] = IF override THEN "override" ELSE "paid"]
  /\ UNCHANGED <<billingVars, pass, expired, gate, opened>>

InsertPass(p) ==
  /\ issue[p] # "idle"
  /\ pass' = [pass EXCEPT ![p] = "ISSUED"]
  /\ issue' = [issue EXCEPT ![p] = "idle"]
  /\ UNCHANGED <<billingVars, expired, gate, opened>>

\* Time passes; the row keeps its status.
Expire(p) ==
  /\ pass[p] # "none" /\ p \notin expired
  /\ expired' = expired \cup {p}
  /\ UNCHANGED <<billingVars, issue, pass, gate, opened>>

\* Mutant: a used pass is still good.
VerdictForgetsUse(p) ==
  IF pass[p] = "REVOKED" THEN "REVOKED" ELSE IF p \in expired THEN "EXPIRED" ELSE "VALID"

Verdict(p) ==
  IF pass[p] = "REVOKED" THEN "REVOKED"
  ELSE IF pass[p] = "USED" THEN "ALREADY_USED"
  ELSE IF p \in expired THEN "EXPIRED" ELSE "VALID"

\* verify reads the row under its lock; the transaction ends with the read.
Scan(g, p) ==
  /\ gate[g] = NoScan /\ pass[p] # "none"
  /\ gate' = [gate EXCEPT ![g] = [pass |-> p, verdict |-> Verdict(p)]]
  /\ UNCHANGED <<billingVars, issue, pass, expired, opened>>

MarksUsed(verdict) == verdict = "VALID"

\* recordVerification writes whatever the row has become, and answers the gate.
RecordScan(g) ==
  LET p == gate[g].pass IN
  /\ gate[g] # NoScan
  /\ pass' = IF MarksUsed(gate[g].verdict) THEN [pass EXCEPT ![p] = "USED"] ELSE pass
  /\ opened' = IF gate[g].verdict = "VALID" THEN [opened EXCEPT ![p] = opened[p] + 1] ELSE opened
  /\ gate' = [gate EXCEPT ![g] = NoScan]
  /\ UNCHANGED <<billingVars, issue, expired>>

\* revoke asks for no status, and overwrites any.
Revoke(p) ==
  /\ pass[p] # "none"
  /\ pass' = [pass EXCEPT ![p] = "REVOKED"]
  /\ UNCHANGED <<billingVars, issue, expired, gate, opened>>

GateStep ==
  \/ \E p \in Passes, override \in BOOLEAN : CheckIssue(p, override)
  \/ \E p \in Passes : InsertPass(p) \/ Expire(p) \/ Revoke(p)
  \/ \E g \in Gates, p \in Passes : Scan(g, p)
  \/ \E g \in Gates : RecordScan(g)

GateNext == (BillingNext /\ UNCHANGED gateVars) \/ GateStep

GateSpec == GateInit /\ [][GateNext]_gatePassVars

\* The billing's fairness; nobody owes the gate anything.
GateFairSpec == GateSpec /\ Fairness
-----------------------------------------------------------------------------
(* Properties. *)

GateTypeOK ==
  /\ issue \in [Passes -> {"idle", "override", "paid"}]
  /\ pass \in [Passes -> {"none", "ISSUED", "USED", "REVOKED"}]
  /\ expired \subseteq Passes
  /\ gate \in [Gates -> [pass : Passes, verdict : Result] \cup {NoScan}]
  /\ opened \in [Passes -> Nat]

\* The gates that have read the pass as good and not recorded it yet.
Scanning(p) == {g \in Gates : gate[g] = [pass |-> p, verdict |-> "VALID"]}

\* A pass opens the barrier once, and once more for each other gate that had
\* read it before that opening was recorded; a scan begun later is refused.  (The
\* lock is let go between the read and the record, so that two presentations at
\* once, which delivery-store.ts:893 has in mind, may both open it.)
OpensOncePerScan == \A p \in Passes :
  /\ opened[p] + Cardinality(Scanning(p)) <= Cardinality(Gates)
  /\ opened[p] >= 1 => pass[p] \in {"USED", "REVOKED"}

\* A pass is only used up by opening the barrier, though a revocation that comes
\* between the scan and its record is overwritten.
UsedWasOpened == \A p \in Passes : pass[p] = "USED" => opened[p] >= 1

\* A second live pass for a card is one that was issued at the same time, a lost
\* one being revoked first.
OneLivePassPerAdvisor == Cardinality(Live) <= Advisors

\* How often a car may leave on a pass, and on how many.
PassesAreSound == GateTypeOK /\ OpensOncePerScan /\ UsedWasOpened /\ OneLivePassPerAdvisor
=============================================================================
