------------------------------ MODULE Invoices ------------------------------
(***************************************************************************)
(* Issuing invoices: one for a visit, numbered without gaps within the     *)
(* financial year (InvoiceService, PgInvoiceStore).                        *)
(*                                                                         *)
(* The sequence is counted under an advisory lock that ends with its own   *)
(* transaction; the row is inserted in a later one, the PDF is rendered    *)
(* after that, and the audit entry and the event come last.                *)
(***************************************************************************)
EXTENDS Naturals, FiniteSets

CONSTANTS
  Visits,       \* job cards with billable lines
  Issuers,      \* requests to issue that may be served at once
  MaxYears, MaxIssueFaults  \* bounds on financial years and on faults

ASSUME InvoiceConstants ==
  /\ IsFiniteSet(Visits) /\ MaxYears \in Nat \ {0} /\ MaxIssueFaults \in Nat

VARIABLES
  invoice,   \* invoice[v]: the number on the visit's row
  issuing,   \* issuing[r]: the request's visit, its number and how far it is
  rendered,  \* visits whose invoice has its PDF
  recorded,  \* visits whose invoice is in the audit log and has its event
  year,      \* the financial year by the shop's clock
  issueFaults

invoiceVars == <<invoice, issuing, rendered, recorded, year, issueFaults>>

NoInvoice == [year |-> 0, n |-> 0]
NoRequest == [visit |-> "none", year |-> 0, n |-> 0, phase |-> "idle"]

IssuedIn(y) == {v \in Visits : invoice[v] # NoInvoice /\ invoice[v].year = y}
NumbersOf(y) == {invoice[v].n : v \in IssuedIn(y)}

InvoiceInit ==
  /\ invoice = [v \in Visits |-> NoInvoice]
  /\ issuing = [r \in Issuers |-> NoRequest]
  /\ rendered = {} /\ recorded = {} /\ year = 1 /\ issueFaults = 0
-----------------------------------------------------------------------------
\* findByJobCard: an invoice that exists is the answer.
StartIssue(r, v) ==
  /\ issuing[r] = NoRequest /\ invoice[v] = NoInvoice
  /\ issuing' = [issuing EXCEPT ![r] = [visit |-> v, year |-> year, n |-> 0, phase |-> "looked"]]
  /\ UNCHANGED <<invoice, rendered, recorded, year, issueFaults>>

\* Mutant: the count runs over every year.
CountEveryYear(y) == Cardinality({v \in Visits : invoice[v] # NoInvoice}) + 1

\* nextSequence
NextSequence(y) == Cardinality(IssuedIn(y)) + 1

Prepare(r) ==
  /\ issuing[r].phase = "looked"
  /\ issuing' = [issuing EXCEPT ![r] = [issuing[r] EXCEPT
                   !.n = NextSequence(issuing[r].year), !.phase = "prepared"]]
  /\ UNCHANGED <<invoice, rendered, recorded, year, issueFaults>>

\* The two unique indexes: the number within the shop, the visit.
InsertInvoice(r) ==
  LET i == issuing[r] IN
  /\ i.phase = "prepared"
  /\ IF i.n \in NumbersOf(i.year) \/ invoice[i.visit] # NoInvoice
       THEN issuing' = [issuing EXCEPT ![r] = NoRequest] /\ UNCHANGED invoice
       ELSE /\ invoice' = [invoice EXCEPT ![i.visit] = [year |-> i.year, n |-> i.n]]
            /\ issuing' = [issuing EXCEPT ![r] = [i EXCEPT !.phase = "inserted"]]
  /\ UNCHANGED <<rendered, recorded, year, issueFaults>>

\* A renderer that fails leaves the invoice without a PDF, and the request goes on.
Render(r) ==
  /\ issuing[r].phase = "inserted"
  /\ rendered' \in {rendered, rendered \cup {issuing[r].visit}}
  /\ issuing' = [issuing EXCEPT ![r] = [issuing[r] EXCEPT !.phase = "rendered"]]
  /\ UNCHANGED <<invoice, recorded, year, issueFaults>>

RecordInvoice(r) ==
  /\ issuing[r].phase = "rendered"
  /\ recorded' = recorded \cup {issuing[r].visit}
  /\ issuing' = [issuing EXCEPT ![r] = NoRequest]
  /\ UNCHANGED <<invoice, rendered, year, issueFaults>>

\* The process dies, or a transaction fails and the request with it.
FailIssue(r) ==
  /\ issueFaults < MaxIssueFaults /\ issuing[r] # NoRequest
  /\ issueFaults' = issueFaults + 1
  /\ issuing' = [issuing EXCEPT ![r] = NoRequest]
  /\ UNCHANGED <<invoice, rendered, recorded, year>>

\* financialYearOf: the request keeps the year it started in.
NewYear ==
  /\ year < MaxYears /\ year' = year + 1
  /\ UNCHANGED <<invoice, issuing, rendered, recorded, issueFaults>>

InvoiceNext ==
  \/ \E r \in Issuers : \/ Prepare(r) \/ InsertInvoice(r) \/ Render(r) \/ RecordInvoice(r)
                        \/ FailIssue(r) \/ \E v \in Visits : StartIssue(r, v)
  \/ NewYear

InvoiceSpec == InvoiceInit /\ [][InvoiceNext]_invoiceVars
-----------------------------------------------------------------------------
(* Properties. *)

InvoiceTypeOK ==
  /\ invoice \in [Visits -> [year : 1..MaxYears, n : Nat \ {0}] \cup {NoInvoice}]
  /\ issuing \in [Issuers -> {NoRequest} \cup
       [visit : Visits, year : 1..MaxYears, n : Nat,
        phase : {"looked", "prepared", "inserted", "rendered"}]]
  /\ rendered \subseteq Visits /\ recorded \subseteq Visits
  /\ year \in 1..MaxYears /\ issueFaults \in Nat

\* A year's numbers are 1 to the number of its invoices, each once, although
\* the lock they were counted under is gone when the row goes in and requests
\* fail in between.
NumbersAreGapless ==
  \A y \in 1..MaxYears : NumbersOf(y) = 1..Cardinality(IssuedIn(y))

\* Every invoice reaches the audit log and gets its event, unless its request
\* died; a renderer that is down is not enough.
IssuedIsRecorded ==
  \A v \in Visits : invoice[v] # NoInvoice =>
    v \in recorded \/ issueFaults > 0 \/ \E r \in Issuers : issuing[r].visit = v

InvoicesAreSound == InvoiceTypeOK /\ NumbersAreGapless /\ IssuedIsRecorded
=============================================================================
