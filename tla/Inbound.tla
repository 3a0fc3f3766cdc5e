------------------------------- MODULE Inbound -------------------------------
(***************************************************************************)
(* One number's messages to the shop: the webhook, the handler, the        *)
(* router's transaction and the follow-ups it owes.                        *)
(*                                                                         *)
(* Each delivery is handled by itself, several at a time and in any order. *)
(* The router's transaction is two steps, what it reads and what it writes *)
(* with the unique indexes asked, since nothing is locked in between.  The *)
(* webhook answers 200 whatever has been thrown, so that only a dead       *)
(* process gets a message again.  Left out: groups, the media stored       *)
(* before the routing, an advisor's reading of the thread, and what the    *)
(* services make of a message.                                             *)
(***************************************************************************)
EXTENDS Naturals, FiniteSets, Sequences, SequencesExt

CONSTANTS
  Texts,      \* the messages of the number
  Hooks,      \* deliveries the API handles at a time
  MaxHookFaults \* bound on exceptions, crashes and deliveries out of the blue

ASSUME InboundAssumption ==
  /\ IsFiniteSet(Texts) /\ IsFiniteSet(Hooks) /\ Hooks # {} /\ MaxHookFaults \in Nat

\* The keywords, the button that refuses consent, and the rest.
Says == {"OPT_OUT", "OPT_IN", "HUMAN", "refusal", "other"}

VARIABLES
  says,       \* says[m]: what the customer means by m
  known,      \* whether customers has the number
  thread,     \* its conversation: linked to the customer, unread, human_override_at
  rows,       \* rows[m]: rows of messages with m's provider id
  register,   \* register[m]: the SERVICE consent written for m
  hook,       \* hook[h]: the delivery being handled
  answered,   \* messages answered with a 200
  acted,      \* acted[m]: the follow-ups begun
  acked,      \* messages answered with "you will not receive further messages"
  handed,     \* messages answered with the name of a person
  written,    \* messages routed when customers had the number
  hookFaults

threadVars == <<thread, rows, register, written>>
repliesVars == <<acted, acked, handed>>
inboundVars == <<says, known, threadVars, hook, answered, repliesVars, hookFaults>>

NoHook == [at |-> "idle", text |-> 0, opening |-> FALSE, linked |-> FALSE, owed |-> <<>>]

InboundInit ==
  /\ says \in [Texts -> Says]
  /\ known \in BOOLEAN
  /\ thread = [open |-> FALSE, linked |-> FALSE, unread |-> 0, override |-> FALSE]
  /\ rows = [m \in Texts |-> 0]
  /\ register = [m \in Texts |-> "none"]
  /\ hook = [h \in Hooks |-> NoHook]
  /\ answered = {} /\ acked = {} /\ handed = {} /\ written = {}
  /\ acted = [m \in Texts |-> <<>>]
  /\ hookFaults = 0

Hooked(h, k) == hook' = [hook EXCEPT ![h] = k]
Answers(h) == Hooked(h, NoHook) /\ answered' = answered \cup {hook[h].text}
-----------------------------------------------------------------------------
(* Delivery and routing. *)

\* Until it is answered Meta delivers a message again, and now and then after.
DeliverText(h, m) ==
  /\ hook[h] = NoHook
  /\ \/ m \notin answered /\ UNCHANGED hookFaults
     \/ m \in answered /\ hookFaults < MaxHookFaults /\ hookFaults' = hookFaults + 1
  /\ Hooked(h, [NoHook EXCEPT !.at = "routing", !.text = m])
  /\ UNCHANGED <<says, known, threadVars, answered, repliesVars>>

\* route's reads: a message already there ends it; otherwise the thread, or the
\* customer of the number when there is none.
ReadThread(h) ==
  LET m == hook[h].text IN
  /\ hook[h].at = "routing"
  /\ IF rows[m] > 0 THEN Answers(h)
     ELSE /\ Hooked(h, [hook[h] EXCEPT !.at = "writing", !.opening = ~thread.open,
                          !.linked = IF thread.open THEN thread.linked ELSE known])
          /\ UNCHANGED answered
  /\ written' = IF known THEN written \cup {m} ELSE written
  /\ UNCHANGED <<says, known, thread, rows, register, repliesVars, hookFaults>>

\* deriveFollowUps, in the order they are carried out.
FollowUps(said, linked) ==
  IF said = "OPT_OUT" THEN <<"ACKNOWLEDGE_OPT_OUT">>
  ELSE IF said = "OPT_IN" /\ linked THEN <<"ACKNOWLEDGE_OPT_IN">>
  ELSE (IF said = "HUMAN" THEN <<"HUMAN_HANDOFF_REQUESTED">> ELSE <<>>) \o
       (IF ~linked THEN <<"IDENTIFY_UNKNOWN_NUMBER">>
        ELSE IF said = "refusal" THEN <<"INTERACTIVE_REPLY">>
        ELSE IF said = "HUMAN" THEN <<>> ELSE <<"CONVERSATION">>)

\* Mutant: nothing but the look for the message stops a second row.
OnlyTheThreadConflicts(h) == hook[h].opening /\ thread.open

\* The unique indexes on the thread's key and on the provider's message id.
Conflicts(h) == (hook[h].opening /\ thread.open) \/ rows[hook[h].text] > 0

\* route's writes, one transaction: the thread, the message, the consent.
Route(h) ==
  LET m == hook[h].text IN
  /\ hook[h].at = "writing" /\ ~Conflicts(h)
  /\ thread' = [thread EXCEPT !.open = TRUE, !.linked = hook[h].linked, !.unread = thread.unread + 1]
  /\ rows' = [rows EXCEPT ![m] = rows[m] + 1]
  /\ register' = IF hook[h].linked /\ says[m] \in {"OPT_OUT", "OPT_IN"}
                   THEN [register EXCEPT ![m] = IF says[m] = "OPT_OUT" THEN "REVOKED" ELSE "GRANTED"]
                   ELSE register
  /\ Hooked(h, [hook[h] EXCEPT !.at = "owing", !.owed = FollowUps(says[m], hook[h].linked)])
  /\ UNCHANGED <<says, known, written, answered, repliesVars, hookFaults>>

\* The index refuses, the handler throws, and the webhook answers all the same.
RouteRefused(h) ==
  /\ hook[h].at = "writing" /\ Conflicts(h)
  /\ Answers(h)
  /\ UNCHANGED <<says, known, threadVars, repliesVars, hookFaults>>
-----------------------------------------------------------------------------
(* The follow-ups. *)

OwedNext(h, kind) == hook[h].at = "owing" /\ hook[h].owed # <<>> /\ Head(hook[h].owed) = kind
Begins(h) == acted' = [acted EXCEPT ![hook[h].text] = Append(@, Head(hook[h].owed))]
Attends(h) == Hooked(h, [hook[h] EXCEPT !.owed = Tail(hook[h].owed)])
ThenReplies(h, reply) ==
  Hooked(h, [hook[h] EXCEPT !.owed = <<reply>> \o Tail(hook[h].owed)])

AcknowledgeOptOut(h) ==
  /\ OwedNext(h, "ACKNOWLEDGE_OPT_OUT")
  /\ Begins(h) /\ Attends(h)
  /\ acked' = acked \cup {hook[h].text}
  /\ UNCHANGED <<says, known, threadVars, answered, handed, hookFaults>>

\* applyConsentDecision: the consent in a transaction of its own, then the word.
ApplyConsentDecision(h) ==
  /\ OwedNext(h, "INTERACTIVE_REPLY")
  /\ register' = [register EXCEPT ![hook[h].text] = "REVOKED"]
  /\ Begins(h) /\ ThenReplies(h, "revoked")
  /\ UNCHANGED <<says, known, thread, rows, written, answered, acked, handed, hookFaults>>

ConfirmRevoked(h) ==
  /\ OwedNext(h, "revoked")
  /\ Attends(h)
  /\ acked' = acked \cup {hook[h].text}
  /\ UNCHANGED <<says, known, threadVars, answered, acted, handed, hookFaults>>

\* The thread is marked first; a person is named only if there is one.
HandOff(h) ==
  /\ OwedNext(h, "HUMAN_HANDOFF_REQUESTED")
  /\ thread' = [thread EXCEPT !.override = TRUE]
  /\ Begins(h) /\ (Attends(h) \/ ThenReplies(h, "named"))
  /\ UNCHANGED <<says, known, rows, register, written, answered, acked, handed, hookFaults>>

NamePerson(h) ==
  /\ OwedNext(h, "named")
  /\ Attends(h)
  /\ handed' = handed \cup {hook[h].text}
  /\ UNCHANGED <<says, known, threadVars, answered, acted, acked, hookFaults>>

\* The others: a word to the customer, or a service that takes it from here.
PassOn(h) ==
  /\ \E kind \in {"ACKNOWLEDGE_OPT_IN", "IDENTIFY_UNKNOWN_NUMBER", "CONVERSATION"} : OwedNext(h, kind)
  /\ Begins(h) /\ Attends(h)
  /\ UNCHANGED <<says, known, threadVars, answered, acked, handed, hookFaults>>

AnswerHook(h) ==
  /\ hook[h].at = "owing" /\ hook[h].owed = <<>>
  /\ Answers(h)
  /\ UNCHANGED <<says, known, threadVars, repliesVars, hookFaults>>

\* What throws is logged and answered; what dies is not.
HookFails(h) ==
  /\ hook[h] # NoHook /\ hookFaults < MaxHookFaults
  /\ hookFaults' = hookFaults + 1
  /\ Answers(h) \/ (Hooked(h, NoHook) /\ UNCHANGED answered)
  /\ UNCHANGED <<says, known, threadVars, repliesVars>>

\* A card is opened for the number's owner at the counter.  No code links a
\* thread that is already open.
BecomesCustomer ==
  /\ ~known /\ known' = TRUE
  /\ UNCHANGED <<says, threadVars, hook, answered, repliesVars, hookFaults>>

HookStep(h) ==
  \/ ReadThread(h) \/ Route(h) \/ RouteRefused(h)
  \/ AcknowledgeOptOut(h) \/ ApplyConsentDecision(h) \/ ConfirmRevoked(h)
  \/ HandOff(h) \/ NamePerson(h) \/ PassOn(h) \/ AnswerHook(h)

InboundNext ==
  \/ \E h \in Hooks : HookStep(h) \/ HookFails(h) \/ \E m \in Texts : DeliverText(h, m)
  \/ BecomesCustomer

InboundSpec == InboundInit /\ [][InboundNext]_inboundVars
-----------------------------------------------------------------------------
(* Properties. *)

\* However often and in whatever company it is delivered, a message has one row,
\* counts once as unread, and is followed up in order and once.
RoutedOnce ==
  /\ \A m \in Texts :
       /\ rows[m] <= 1
       /\ IsPrefix(acted[m], IF rows[m] = 0 THEN <<>> ELSE FollowUps(says[m], thread.linked))
  /\ thread.unread = Cardinality({m \in Texts : rows[m] = 1})

\* A customer on a thread of his own who is told he is opted out is.
AckIsTrue == \A m \in acked : thread.linked => register[m] = "REVOKED"

\* Who is promised a person is on a thread that is kept from the agent.
PromiseIsKept == handed # {} => thread.override

\* Messages that are answered and not kept: those handled beside the one that
\* opened the thread, and one for each fault.
LossesAreBounded ==
  Cardinality({m \in answered : rows[m] = 0}) < Cardinality(Hooks) + hookFaults

\* What the shop makes of a number's messages.
InboundIsSound == RoutedOnce /\ AckIsTrue /\ PromiseIsKept /\ LossesAreBounded

\* 02_PHASE_CHANNELS_INTAKE.md: opt-out keywords set consent to revoked and
\* confirm once.  So whoever was a customer when his STOP was read, and has been
\* told that he is opted out, has a revocation on record.
StopIsHeard == \A m \in acked \cap written : register[m] = "REVOKED"
=============================================================================
