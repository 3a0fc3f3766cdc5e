----------------------------- MODULE MCAftercare ----------------------------
(* The components around the end of a visit and after it, and what the       *)
(* customer writes, for TLC, each alone: a behaviour is one of GatePass      *)
(* (with Billing), Invoices, Delivery, Retention, Erasure, AuditChain,       *)
(* Inbound or AgentRun, the others staying as they start.                    *)
EXTENDS GatePass, Invoices, Delivery, Retention, Erasure, AuditChain, Inbound, AgentRun, TLC

CONSTANT Parts  \* the components of this instance
VARIABLE part   \* the one this behaviour is of

aftercareVars ==
  <<part, gatePassVars, invoiceVars, pickupVars, vars, erasureVars, auditVars, inboundVars, agentVars>>

\* The two of everything that acts at once (gates, requests to issue, callers,
\* workers, erasers, handlers of webhooks, runs) have the same names and are
\* interchangeable.
Symmetry == Permutations(Hooks)

AftercareInit ==
  /\ part \in Parts
  /\ GateInit /\ InvoiceInit /\ DeliveryInit /\ ErasureInit /\ AuditInit
  /\ Init /\ (part # "retention" => ~wired)
  /\ InboundInit /\ (part # "inbound" => known /\ says = [m \in Texts |-> "other"])
  /\ AgentInit /\ (part # "agent" => setup = CHOOSE u \in Setups : TRUE)

AftercareNext ==
  \/ part = "gate" /\ GateNext
     /\ UNCHANGED <<part, invoiceVars, pickupVars, vars, erasureVars, auditVars, inboundVars, agentVars>>
  \/ part = "invoices" /\ InvoiceNext
     /\ UNCHANGED <<part, gatePassVars, pickupVars, vars, erasureVars, auditVars, inboundVars, agentVars>>
  \/ part = "delivery" /\ DeliveryNext
     /\ UNCHANGED <<part, gatePassVars, invoiceVars, vars, erasureVars, auditVars, inboundVars, agentVars>>
  \/ part = "retention" /\ Next
     /\ UNCHANGED <<part, gatePassVars, invoiceVars, pickupVars, erasureVars, auditVars, inboundVars, agentVars>>
  \/ part = "erasure" /\ ErasureNext
     /\ UNCHANGED <<part, gatePassVars, invoiceVars, pickupVars, vars, auditVars, inboundVars, agentVars>>
  \/ part = "audit" /\ AuditNext
     /\ UNCHANGED <<part, gatePassVars, invoiceVars, pickupVars, vars, erasureVars, inboundVars, agentVars>>
  \/ part = "inbound" /\ InboundNext
     /\ UNCHANGED <<part, gatePassVars, invoiceVars, pickupVars, vars, erasureVars, auditVars, agentVars>>
  \/ part = "agent" /\ AgentNext
     /\ UNCHANGED <<part, gatePassVars, invoiceVars, pickupVars, vars, erasureVars, auditVars, inboundVars>>

AftercareSpec == AftercareInit /\ [][AftercareNext]_aftercareVars
=============================================================================
