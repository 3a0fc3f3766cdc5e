---------------------------- MODULE StatusSignal ----------------------------
(***************************************************************************)
(* A technician's notes about one card, on top of JobCard's transitions    *)
(* (StatusSignalService, PgStatusSignalStore, resolveCard).                *)
(*                                                                         *)
(* A call is a chain of transactions: capture matches the card, loads it,  *)
(* inserts the signal and applies it, or leaves it to an advisor; confirm  *)
(* locks the pending signal, loads, resolves and applies; each application *)
(* moves one work item or the card at a time.  No lock outlives its        *)
(* transaction, and what was loaded is used to the end of the call.        *)
(***************************************************************************)
EXTENDS JobCard

CONSTANTS
  Notes,          \* messages of the staff group; Meta may deliver one twice
  AdvisorEvents,  \* what advisors do to the card meanwhile
  BenchEvents,    \* and what is done to its items
  MaxCallFaults   \* bound on calls that die

VARIABLES
  signal,      \* signal[n]: the note's row in status_signals
  call,        \* call[p]: how far p's capture or confirm is
  applied,     \* applied[n]: calls that went on to apply n
  discarded,   \* notes an advisor has discarded
  raced,       \* notes two answers of which overlapped
  callFaults

signalVars == <<signal, call, applied, discarded, raced, callFaults>>
jobVars == <<card, deliveredAt, itemVars, moneyVars, tx, audit>>

NoSignal == [route |-> "none", type |-> "none", items |-> {}]
Unread == [i \in Items |-> "none"]
Call(at, note, state, items, named) ==
  [at |-> at, note |-> note, state |-> state, items |-> items, named |-> named, left |-> {}]
NoCall == Call("idle", "none", "none", Unread, {})

\* A card under repair, its work agreed.
SignalInit ==
  /\ card = "IN_PROGRESS" /\ deliveredAt = FALSE
  /\ item \in [Items -> {"APPROVED", "IN_PROGRESS"}] /\ approvedAt = Items
  /\ ledger = [i \in Items |-> "none"] /\ quoted = TRUE /\ invoice = "none"
  /\ tx = [p \in Procs |-> NoTx] /\ audit = [change |-> "APPROVAL_GRANTED", to |-> "IN_PROGRESS"]
  /\ signal = [n \in Notes |-> NoSignal] /\ call = [p \in Procs |-> NoCall]
  /\ applied = [n \in Notes |-> 0] /\ discarded = {} /\ raced = {} /\ callFaults = 0

NoSignals ==
  /\ signal = [n \in Notes |-> NoSignal] /\ call = [p \in Procs |-> NoCall]
  /\ applied = [n \in Notes |-> 0] /\ discarded = {} /\ raced = {} /\ callFaults = 0
-----------------------------------------------------------------------------
(* capture *)

LiveOf(items) == {i \in Items : items[i] \in {"APPROVED", "IN_PROGRESS"}}

\* resolveWorkItems: those the note's words name, else the only live one.
MayName(items) ==
  LET live == LiveOf(items) IN
  (SUBSET live \ {{}}) \cup (IF Cardinality(live) = 1 THEN {} ELSE {{}})

\* resolveCard finds the card, whatever its state has become by the load.
MatchCard(p, n) ==
  /\ call[p] = NoCall
  /\ call' = [call EXCEPT ![p] = Call("matched", n, card, Unread, {})]
  /\ UNCHANGED <<jobVars, signal, applied, discarded, raced, callFaults>>

LoadMatched(p) ==
  /\ call[p].at = "matched"
  /\ call' = [call EXCEPT ![p] = Call("loaded", call[p].note, call[p].state, item, {})]
  /\ UNCHANGED <<jobVars, signal, applied, discarded, raced, callFaults>>

\* decideRoute; "AMBIGUOUS" when the note fits another card as well.
RouteOf(type, named, sure, alone) ==
  CASE ~alone                        -> "AMBIGUOUS"
    [] alone /\ type = "issue_found" -> "ROUTED_TO_EVIDENCE"
    [] alone /\ type # "issue_found" /\ sure /\ (type = "done" => named # {}) -> "AUTO_APPLIED"
    [] OTHER                         -> "PENDING_CONFIRMATION"

\* What applying the signal attempts: a start before a completion where the
\* item was only approved when it was loaded.
Attempts(type, items, named) ==
  {<<i, "START">> : i \in {j \in named : type \in {"done", "progress"} /\ items[j] = "APPROVED"}}
    \cup {<<i, "COMPLETE">> : i \in {j \in named : type = "done"}}

Applying(c, type, named) ==
  [c EXCEPT !.at = "apply", !.named = named, !.left = Attempts(type, c.items, named)]

\* Mutant: the insert does not look for the message.
FirstDeliveryAlways(n) == TRUE

\* The unique index on the message.
FirstDelivery(n) == signal[n] = NoSignal

\* A second delivery ends here.  Routes other than AUTO_APPLIED only ask.
InsertSignal(p, type, named, sure, alone) ==
  LET n == call[p].note  route == RouteOf(type, named, sure, alone) IN
  /\ call[p].at = "loaded" /\ named \in MayName(call[p].items)
  /\ IF ~FirstDelivery(n) THEN
       /\ call' = [call EXCEPT ![p] = NoCall]
       /\ UNCHANGED <<signal, applied>>
     ELSE
       /\ signal' = [signal EXCEPT ![n] =
            [route |-> route, type |-> type, items |-> IF alone THEN named ELSE {}]]
       /\ call' = [call EXCEPT ![p] =
            IF route = "AUTO_APPLIED" THEN Applying(call[p], type, named) ELSE NoCall]
       /\ applied' = [applied EXCEPT ![n] = applied[n] + (IF route = "AUTO_APPLIED" THEN 1 ELSE 0)]
  /\ UNCHANGED <<jobVars, discarded, raced, callFaults>>
-----------------------------------------------------------------------------
(* confirm and discard *)

Pending == {"PENDING_CONFIRMATION", "AMBIGUOUS"}

Answering(n) == {p \in Procs : call[p] # NoCall /\ call[p].note = n
                               /\ call[p].at \in {"claimed", "confirming"}}

\* lockPending: the lock ends with the transaction that took it.
ClaimPending(p, n) ==
  /\ call[p] = NoCall /\ signal[n].route \in Pending
  /\ call' = [call EXCEPT ![p] = Call("claimed", n, "none", Unread, signal[n].items)]
  /\ raced' = IF Answering(n) # {} THEN raced \cup {n} ELSE raced
  /\ UNCHANGED <<jobVars, signal, applied, discarded, callFaults>>

LoadClaimed(p) ==
  /\ call[p].at = "claimed"
  /\ call' = [call EXCEPT ![p] = Call("confirming", call[p].note, card, item, call[p].named)]
  /\ UNCHANGED <<jobVars, signal, applied, discarded, raced, callFaults>>

\* The parser's words are gone by now: without named items, only a sole one.
\* (CORRECTED, where the advisor names another card, counts as CONFIRMED here.)
Confirm(p) ==
  LET n == call[p].note
      live == LiveOf(call[p].items)
      named == IF call[p].named # {} THEN call[p].named
               ELSE IF Cardinality(live) = 1 THEN live ELSE {}
  IN
  /\ call[p].at = "confirming"
  /\ signal' = [signal EXCEPT ![n].items = named, ![n].route = "CONFIRMED"]
  /\ call' = [call EXCEPT ![p] = Applying(call[p], signal[n].type, named)]
  /\ applied' = [applied EXCEPT ![n] = applied[n] + 1]
  /\ UNCHANGED <<jobVars, discarded, raced, callFaults>>

\* One transaction, unlike confirm.
Discard(n) ==
  /\ signal[n].route \in Pending
  /\ signal' = [signal EXCEPT ![n].route = "DISCARDED", ![n].items = {}]
  /\ discarded' = discarded \cup {n}
  /\ raced' = IF Answering(n) # {} THEN raced \cup {n} ELSE raced
  /\ UNCHANGED <<jobVars, call, applied, callFaults>>
-----------------------------------------------------------------------------
(* applySignal *)

\* cardEventFor, on the state and the items the call loaded.
EventFor(c, type) ==
  CASE type = "blocked_parts" /\ c.state = "IN_PROGRESS"    -> "PARTS_AWAITED"
    [] type = "progress"      /\ c.state = "AWAITING_PARTS" -> "PARTS_RECEIVED"
    [] type = "done" /\ c.state = "IN_PROGRESS" /\ LiveOf(c.items) \subseteq c.named -> "WORK_COMPLETED"
    [] OTHER                                                -> "none"

\* tryWorkItem: a refusal is recorded and skipped.
ApplyItem(p) == \E step \in call[p].left :
  /\ call[p].at = "apply"
  /\ step[2] = "COMPLETE" => <<step[1], "START">> \notin call[p].left
  /\ IF \E t \in ItemState : <<item[step[1]], step[2], t>> \in ItemEdges
       THEN ItemTransition(step[1], step[2])
       ELSE UNCHANGED jobVars
  /\ call' = [call EXCEPT ![p].left = call[p].left \ {step}]
  /\ UNCHANGED <<signal, applied, discarded, raced, callFaults>>

Ending(c) == Call("final", c.note, "none", Unread, c.named)

\* tryCard: a transition like any other, in JobCard's two steps.
ApplyCard(p) ==
  LET ev == EventFor(call[p], signal[call[p].note].type) IN
  /\ call[p].at = "apply" /\ call[p].left = {}
  /\ \/ ev = "none" /\ call' = [call EXCEPT ![p] = Ending(call[p])] /\ UNCHANGED jobVars
     \/ ev # "none" /\ ReadCard(p, ev) /\ call' = [call EXCEPT ![p].at = "moving"]
     \/ ev # "none" /\ RefuseCard(p, ev) /\ call' = [call EXCEPT ![p] = Ending(call[p])]
  /\ UNCHANGED <<signal, applied, discarded, raced, callFaults>>

CardMoves(p) ==
  /\ call[p].at = "moving"
  /\ CommitCard(p)
  /\ call' = [call EXCEPT ![p] = Ending(call[p])]
  /\ UNCHANGED <<signal, applied, discarded, raced, callFaults>>

\* The last write of a call forgets who confirmed it.
ResolveApplied(p) ==
  /\ call[p].at = "final"
  /\ signal' = [signal EXCEPT ![call[p].note].route = "AUTO_APPLIED",
                              ![call[p].note].items = call[p].named]
  /\ call' = [call EXCEPT ![p] = NoCall]
  /\ UNCHANGED <<jobVars, applied, discarded, raced, callFaults>>

CallDies(p) ==
  /\ callFaults < MaxCallFaults /\ call[p] # NoCall
  /\ callFaults' = callFaults + 1
  /\ call' = [call EXCEPT ![p] = NoCall]
  /\ IF tx[p] # NoTx THEN RollBackCard(p) ELSE UNCHANGED jobVars
  /\ UNCHANGED <<signal, applied, discarded, raced>>

\* Everybody else's transitions.
OthersMove ==
  /\ \/ \E p \in Procs : call[p] = NoCall /\
          \/ \E ev \in AdvisorEvents : ReadCard(p, ev)
          \/ CommitCard(p)
     \/ \E i \in Items, ev \in BenchEvents : ItemTransition(i, ev)
  /\ UNCHANGED signalVars

SignalNext ==
  \/ \E p \in Procs, n \in Notes : tx[p] = NoTx /\ (MatchCard(p, n) \/ ClaimPending(p, n))
  \/ \E p \in Procs : \/ LoadMatched(p) \/ LoadClaimed(p) \/ Confirm(p) \/ ApplyItem(p)
                      \/ ApplyCard(p) \/ CardMoves(p) \/ ResolveApplied(p) \/ CallDies(p)
  \/ \E p \in Procs, named \in SUBSET Items, sure \in BOOLEAN, alone \in BOOLEAN,
        type \in {"progress", "blocked_parts", "done", "issue_found"} :
       InsertSignal(p, type, named, sure, alone)
  \/ \E n \in Notes : Discard(n)
  \/ OthersMove

SignalSpec == SignalInit /\ [][SignalNext]_<<jobVars, signalVars>>
-----------------------------------------------------------------------------
(* Properties. *)

\* A note acts on the card once, however often it is delivered, and not after an
\* advisor discarded it, unless two answers to it overlapped.
NoteActsOnce ==
  \A n \in Notes :
    /\ applied[n] > 1 => n \in raced
    /\ n \in discarded /\ applied[n] > 0 => n \in raced
=============================================================================
