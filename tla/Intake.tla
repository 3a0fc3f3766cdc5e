------------------------------- MODULE Intake -------------------------------
(***************************************************************************)
(* Drafts read from paper cards and messages, until they are job cards     *)
(* (IntakeService, EntityResolutionService, PgDraftStore,                  *)
(* PgJobCardWriter).                                                       *)
(*                                                                         *)
(* A confirmation is one transaction over three locks, taken in the order  *)
(* the draft needs them: the draft's row; the shop's audit lock already    *)
(* while resolving the vehicle, if it is new; the lock on job card codes;  *)
(* the audit lock at the end, if not held.  All are held to the commit.    *)
(* Opening the card is a transition of its own.                            *)
(***************************************************************************)
EXTENDS Naturals, FiniteSets

CONSTANTS
  Drafts,      \* rows of job_card_drafts
  Confirmers,   \* concurrent calls of confirm
  LastPadded,  \* the last code of four digits, 9999 in the code
  MaxEdits,    \* bound on corrections of a draft
  MaxRefusals  \* bound on confirmations that are refused, and openings that fail

ASSUME IntakeConstants == LastPadded \in Nat \ {0} /\ MaxEdits \in Nat /\ MaxRefusals \in Nat

VARIABLES
  draft,      \* draft[d]: status, content (its version) and job_card_id
  visits,     \* job_cards: code, draft it came from, content, state
  confirming, \* confirming[k]: the draft, whether its vehicle is new, how far
  refusals

intakeVars == <<draft, visits, confirming, refusals>>

NoDraft == [status |-> "none", content |-> 0, code |-> 0]
NotConfirming == [at |-> "idle", draft |-> "none", fresh |-> FALSE, code |-> 0, content |-> 0]

IntakeInit ==
  /\ draft = [d \in Drafts |-> NoDraft] /\ visits = {}
  /\ confirming = [k \in Confirmers |-> NotConfirming] /\ refusals = 0
-----------------------------------------------------------------------------
InTransaction(k) == confirming[k].at \in {"locked", "resolved", "numbered"}
RowLocked(d) == \E k \in Confirmers : InTransaction(k) /\ confirming[k].draft = d

HoldsAudit(k) == confirming[k].fresh /\ confirming[k].at \in {"resolved", "numbered"}
HoldsCodes(k) == confirming[k].at = "numbered"
AuditFree(k) == \A j \in Confirmers \ {k} : ~HoldsAudit(j)
CodesFree == \A k \in Confirmers : ~HoldsCodes(k)

RecordDraft(d) ==
  /\ draft[d] = NoDraft
  /\ draft' = [draft EXCEPT ![d].status = "AWAITING_CONFIRMATION"]
  /\ UNCHANGED <<visits, confirming, refusals>>

MayCorrect(d) == draft[d].status = "AWAITING_CONFIRMATION"

Correct(d) ==
  /\ ~RowLocked(d) /\ MayCorrect(d) /\ draft[d].content < MaxEdits
  /\ draft' = [draft EXCEPT ![d].content = draft[d].content + 1]
  /\ UNCHANGED <<visits, confirming, refusals>>

\* discard locks the draft and asks for no status: settle clears the link to the
\* card a confirmation has made.
DiscardDraft(d) ==
  /\ ~RowLocked(d) /\ draft[d] # NoDraft
  /\ draft' = [draft EXCEPT ![d].status = "DISCARDED", ![d].code = 0]
  /\ UNCHANGED <<visits, confirming, refusals>>
-----------------------------------------------------------------------------
(* confirm *)

\* Mutant: the draft is read without its lock.
DraftIsFree(d) == TRUE

DraftUnlocked(d) == ~RowLocked(d)

LockDraft(k, d, fresh) ==
  /\ confirming[k] = NotConfirming
  /\ DraftUnlocked(d) /\ draft[d].status = "AWAITING_CONFIRMATION"
  /\ confirming' = [confirming EXCEPT ![k] =
       [at |-> "locked", draft |-> d, fresh |-> fresh, code |-> 0, content |-> draft[d].content]]
  /\ UNCHANGED <<draft, visits, refusals>>

\* A new vehicle is audited here, under the shop's audit lock.
ResolveEntities(k) ==
  /\ confirming[k].at = "locked"
  /\ confirming[k].fresh => AuditFree(k)
  /\ confirming' = [confirming EXCEPT ![k].at = "resolved"]
  /\ UNCHANGED <<draft, visits, refusals>>

Codes == {v.code : v \in visits}

\* The highest code as strings order them: past four digits, the last of four.
LastCode ==
  LET padded == {c \in Codes : c <= LastPadded} IN
  IF Codes = {} THEN 0
  ELSE IF LastPadded \in Codes THEN LastPadded
  ELSE CHOOSE c \in padded : \A x \in padded : x <= c

TakeCode(k) ==
  /\ confirming[k].at = "resolved" /\ CodesFree
  /\ confirming' = [confirming EXCEPT ![k].at = "numbered", ![k].code = LastCode + 1]
  /\ UNCHANGED <<draft, visits, refusals>>

Settled(c) == [draft EXCEPT ![c.draft].status = "CONFIRMED", ![c.draft].code = c.code]

\* Card, items, estimate, draft, audit record and event; the unique index
\* refuses a second card of that code, and nothing remains.
CommitConfirmation(k) ==
  LET c == confirming[k] IN
  /\ c.at = "numbered" /\ (HoldsAudit(k) \/ AuditFree(k))
  /\ IF c.code \in Codes THEN
       /\ confirming' = [confirming EXCEPT ![k] = NotConfirming]
       /\ UNCHANGED <<draft, visits>>
     ELSE
       /\ visits' = visits \cup
            {[code |-> c.code, draft |-> c.draft, content |-> c.content, state |-> "DRAFT"]}
       /\ draft' = Settled(c)
       /\ confirming' = [confirming EXCEPT ![k].at = "opening"]
  /\ UNCHANGED refusals

\* The second transaction; a failure leaves the card in DRAFT and is reported.
OpenCard(k, fails) ==
  LET c == confirming[k] IN
  /\ c.at = "opening" /\ (fails => refusals < MaxRefusals)
  /\ visits' = {IF v.code = c.code /\ ~fails THEN [v EXCEPT !.state = "OPEN"] ELSE v : v \in visits}
  /\ refusals' = refusals + (IF fails THEN 1 ELSE 0)
  /\ confirming' = [confirming EXCEPT ![k] = NotConfirming]
  /\ UNCHANGED draft

\* The vehicle or the phone is not one: the transaction rolls back.
RefuseConfirmation(k) ==
  /\ confirming[k].at = "locked" /\ refusals < MaxRefusals
  /\ refusals' = refusals + 1
  /\ confirming' = [confirming EXCEPT ![k] = NotConfirming]
  /\ UNCHANGED <<draft, visits>>

\* Mutant: nobody breaks the circle.
NoVictim(k) == FALSE

\* A new vehicle's confirmation waits for the code of a known one's, which waits
\* for its audit lock: the database aborts one of the two.
Victim(k) ==
  \E j \in Confirmers \ {k} :
    \/ confirming[k].at = "resolved" /\ HoldsAudit(k) /\ HoldsCodes(j) /\ ~HoldsAudit(j)
    \/ confirming[j].at = "resolved" /\ HoldsAudit(j) /\ HoldsCodes(k) /\ ~HoldsAudit(k)

AbortConfirmation(k) ==
  /\ Victim(k)
  /\ confirming' = [confirming EXCEPT ![k] = NotConfirming]
  /\ UNCHANGED <<draft, visits, refusals>>

Confirming(k) ==
  \/ ResolveEntities(k) \/ TakeCode(k) \/ CommitConfirmation(k) \/ OpenCard(k, FALSE)
  \/ AbortConfirmation(k)

IntakeNext ==
  \/ \E d \in Drafts : RecordDraft(d) \/ Correct(d) \/ DiscardDraft(d)
  \/ \E k \in Confirmers : \/ Confirming(k) \/ OpenCard(k, TRUE) \/ RefuseConfirmation(k)
                          \/ \E d \in Drafts, fresh \in BOOLEAN : LockDraft(k, d, fresh)

IntakeSpec == IntakeInit /\ [][IntakeNext]_intakeVars
-----------------------------------------------------------------------------
(* Properties. *)

\* A draft becomes one card at most, however many advisors tap Confirm, and the
\* card says what the draft last said.
OneCardPerDraft ==
  \A v \in visits :
    /\ \A w \in visits : w.draft = v.draft => w = v
    /\ v.content = draft[v.draft].content
    /\ draft[v.draft].status \in {"CONFIRMED", "DISCARDED"}

\* Codes have no gaps: a confirmation that rolls back gives its number to the
\* next.  (After the last of four digits comes one more, and then no card at all:
\* strings order "10000" before "9999".)
CodesAreContiguous ==
  /\ Codes = 1..Cardinality(visits)
  /\ Cardinality(visits) <= LastPadded + 1

IntakeIsSound == OneCardPerDraft /\ CodesAreContiguous

\* A confirmation ends, in a card or without a trace, although two may wait for
\* each other's locks.
ConfirmationEnds ==
  \A k \in Confirmers : confirming[k] # NotConfirming ~> confirming[k] = NotConfirming
=============================================================================
