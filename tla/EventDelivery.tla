---------------------------- MODULE EventDelivery ----------------------------
(***************************************************************************)
(* What the outbox promises (README "Delivery is at-least-once; effects    *)
(* are exactly-once"): the state change that emits an event commits once,  *)
(* and the database effects of the event's handlers are applied only after *)
(* that, and at most once.  Outbox implements this specification.          *)
(***************************************************************************)
EXTENDS Naturals

CONSTANT Events

VARIABLES emitted,  \* events whose producing transaction has committed
          applied   \* applied[e]: how often e's handlers have taken effect

dvars == <<emitted, applied>>

DInit == emitted = {} /\ applied = [e \in Events |-> 0]

Emit(e) ==
  /\ e \notin emitted
  /\ emitted' = emitted \cup {e}
  /\ UNCHANGED applied

Apply(e) ==
  /\ e \in emitted
  /\ applied[e] = 0
  /\ applied' = [applied EXCEPT ![e] = 1]
  /\ UNCHANGED emitted

DNext == \E e \in Events : Emit(e) \/ Apply(e)

DSpec == DInit /\ [][DNext]_dvars
=============================================================================
