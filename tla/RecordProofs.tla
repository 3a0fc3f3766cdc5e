---------------------------- MODULE RecordProofs ----------------------------
(***************************************************************************)
(* What the shop keeps on record, for any number of visits, writers and    *)
(* customers and of concurrent requests: the numbers of its invoices, the  *)
(* chain of its audit log, and what it erases of a customer.               *)
(***************************************************************************)
EXTENDS Invoices, AuditChain, Erasure, FiniteSetTheorems, SequenceTheorems, TLAPS

(* The invoices. *)

Year == 1..MaxYears
Count(y) == Cardinality(IssuedIn(y))
AtRow(r) == issuing[r].phase \in {"inserted", "rendered"}

\* A number that was counted is at most one too high for the count that has
\* grown since: it is taken by then, or it is still the next.
CountsHold ==
  \A r \in Issuers :
    /\ \A y \in Year :
         issuing[r].phase = "prepared" /\ issuing[r].year = y => issuing[r].n \in 1..Count(y) + 1
    /\ AtRow(r) => invoice[issuing[r].visit] # NoInvoice

\* What is inserted and not recorded is in a request's hands, or was lost.
InHand ==
  \A v \in Visits : invoice[v] # NoInvoice =>
    v \in recorded \/ issueFaults > 0 \/ \E r \in Issuers : issuing[r].visit = v /\ AtRow(r)

InvoiceInv == InvoiceTypeOK /\ NumbersAreGapless /\ CountsHold /\ InHand

LEMMA IssuedFinite == \A y : IsFiniteSet(IssuedIn(y)) /\ Count(y) \in Nat
<1> SUFFICES ASSUME NEW y PROVE IsFiniteSet(IssuedIn(y)) /\ Count(y) \in Nat
  OBVIOUS
<1>1. IssuedIn(y) \in SUBSET Visits /\ IsFiniteSet(Visits)
  BY InvoiceConstants DEF IssuedIn, InvoiceConstants
<1>2. IsFiniteSet(IssuedIn(y))
  BY <1>1, FS_Subset
<1> QED  BY <1>2, FS_CardinalityType DEF Count

\* While no row is written, the counts and the numbers stay.
LEMMA SameRows ==
  ASSUME invoice' = invoice
  PROVE  \A y : IssuedIn(y)' = IssuedIn(y) /\ NumbersOf(y)' = NumbersOf(y) /\ Count(y)' = Count(y)
BY DEF IssuedIn, NumbersOf, Count

LEMMA InitHolds == InvoiceInit => InvoiceInv
<1> SUFFICES ASSUME InvoiceInit PROVE InvoiceInv
  OBVIOUS
<1>1. \A y : IssuedIn(y) = {}
  BY DEF InvoiceInit, IssuedIn
<1>2. \A y : NumbersOf(y) = {} /\ Cardinality(IssuedIn(y)) = 0
  BY <1>1, FS_EmptySet DEF NumbersOf
<1>3. NumbersAreGapless
  BY <1>2 DEF NumbersAreGapless
<1>4. InvoiceTypeOK
  BY InvoiceConstants DEF InvoiceInit, InvoiceTypeOK, InvoiceConstants
<1>5. CountsHold /\ InHand
  BY DEF InvoiceInit, CountsHold, InHand, AtRow, NoRequest
<1> QED  BY <1>3, <1>4, <1>5 DEF InvoiceInv

\* What a request does to itself, its row aside, keeps the numbers.
LEMMA GaplessIfSame ==
  ASSUME NumbersAreGapless, invoice' = invoice
  PROVE  NumbersAreGapless'
BY SameRows DEF NumbersAreGapless, Count

LEMMA StartKeeps ==
  ASSUME InvoiceInv, NEW r \in Issuers, NEW v \in Visits, StartIssue(r, v)
  PROVE  InvoiceInv'
<1> DEFINE new == [visit |-> v, year |-> year, n |-> 0, phase |-> "looked"]
<1>1. /\ issuing[r] = NoRequest /\ issuing' = [issuing EXCEPT ![r] = new]
      /\ invoice' = invoice /\ rendered' = rendered /\ recorded' = recorded
      /\ year' = year /\ issueFaults' = issueFaults
  BY DEF StartIssue
<1>2. InvoiceTypeOK'
  BY <1>1 DEF InvoiceInv, InvoiceTypeOK
<1>3. \A q \in Issuers : issuing'[q] = IF q = r THEN new ELSE issuing[q]
  BY <1>1 DEF InvoiceInv, InvoiceTypeOK
<1>4. CountsHold'
  BY <1>1, <1>3, SameRows DEF InvoiceInv, CountsHold, AtRow
<1>5. InHand'
  BY <1>1, <1>3 DEF InvoiceInv, InHand, AtRow, NoRequest
<1> QED  BY <1>1, <1>2, <1>4, <1>5, GaplessIfSame DEF InvoiceInv

LEMMA PrepareKeeps ==
  ASSUME InvoiceInv, NEW r \in Issuers, Prepare(r)
  PROVE  InvoiceInv'
<1> DEFINE n == NextSequence(issuing[r].year)
           new == [issuing[r] EXCEPT !.n = n, !.phase = "prepared"]
<1>1. /\ issuing[r].phase = "looked" /\ issuing' = [issuing EXCEPT ![r] = new]
      /\ invoice' = invoice /\ rendered' = rendered /\ recorded' = recorded
      /\ year' = year /\ issueFaults' = issueFaults
  BY DEF Prepare
<1>2. issuing[r] \in [visit : Visits, year : Year, n : Nat,
                      phase : {"looked", "prepared", "inserted", "rendered"}]
  BY <1>1 DEF InvoiceInv, InvoiceTypeOK, NoRequest, Year
<1>3. n \in Nat /\ n = Count(issuing[r].year) + 1
  BY IssuedFinite DEF NextSequence, Count
<1> HIDE DEF n
<1>4. /\ new \in [visit : Visits, year : Year, n : Nat,
                  phase : {"looked", "prepared", "inserted", "rendered"}]
      /\ new.n = n /\ new.phase = "prepared" /\ new.year = issuing[r].year
  BY <1>2, <1>3
<1>5. InvoiceTypeOK'
  BY <1>1, <1>4 DEF InvoiceInv, InvoiceTypeOK, Year
<1>6. \A q \in Issuers : issuing'[q] = IF q = r THEN new ELSE issuing[q]
  BY <1>1 DEF InvoiceInv, InvoiceTypeOK
<1> HIDE DEF new
<1>7. CountsHold'
  <2>1. ASSUME NEW q \in Issuers, NEW y \in Year,
               issuing'[q].phase = "prepared", issuing'[q].year = y
        PROVE  issuing'[q].n \in 1..Count(y)' + 1
    <3>1. Count(y)' = Count(y) /\ Count(y) \in Nat
      BY <1>1, SameRows, IssuedFinite
    <3>2. CASE q = r
      BY <2>1, <3>1, <3>2, <1>3, <1>4, <1>6
    <3>3. CASE q # r
      BY <2>1, <3>1, <3>3, <1>6 DEF InvoiceInv, CountsHold
    <3> QED  BY <3>2, <3>3
  <2>2. ASSUME NEW q \in Issuers, AtRow(q)'
        PROVE  invoice'[issuing'[q].visit] # NoInvoice
    BY <2>2, <1>1, <1>4, <1>6 DEF InvoiceInv, CountsHold, AtRow
  <2> QED  BY <2>1, <2>2 DEF CountsHold
<1>8. InHand'
  BY <1>1, <1>4, <1>6 DEF InvoiceInv, InHand, AtRow
<1> QED  BY <1>1, <1>5, <1>7, <1>8, GaplessIfSame DEF InvoiceInv

\* A row that is written takes the next number of its year.
LEMMA RowAdds ==
  ASSUME InvoiceInv, NEW v \in Visits, NEW y \in Year, NEW n \in 1..Count(y) + 1,
         invoice[v] = NoInvoice, n \notin NumbersOf(y),
         invoice' = [invoice EXCEPT ![v] = [year |-> y, n |-> n]]
  PROVE  /\ NumbersAreGapless'
         /\ \A z \in Year : Count(z) \in Nat /\ Count(z)' \in Nat /\ Count(z) <= Count(z)'
<1>1. Count(y) \in Nat /\ NumbersOf(y) = 1..Count(y) /\ n = Count(y) + 1
  <2>1. Count(y) \in Nat /\ NumbersOf(y) = 1..Count(y)
    BY IssuedFinite DEF InvoiceInv, NumbersAreGapless, Count, Year
  <2> QED  BY <2>1
<1>2. /\ invoice'[v] = [year |-> y, n |-> n] /\ invoice'[v] # NoInvoice
      /\ \A u \in Visits : u # v => invoice'[u] = invoice[u]
  BY DEF InvoiceInv, InvoiceTypeOK, NoInvoice, Year
<1>3. v \notin IssuedIn(y) /\ \A z \in Year : z # y => IssuedIn(z)' = IssuedIn(z)
  BY <1>2 DEF IssuedIn
<1>4. IssuedIn(y)' = IssuedIn(y) \cup {v}
  BY <1>2 DEF IssuedIn
<1>5. Count(y)' = Count(y) + 1
  BY <1>3, <1>4, IssuedFinite, FS_AddElement DEF Count
<1>6. NumbersOf(y)' = NumbersOf(y) \cup {n}
  <2>1. \A u \in IssuedIn(y) : u # v /\ invoice'[u] = invoice[u]
    BY <1>2, <1>3 DEF IssuedIn
  <2> QED  BY <1>2, <1>4, <2>1 DEF NumbersOf
<1>7. NumbersOf(y)' = 1..Count(y)'
  BY <1>1, <1>5, <1>6
<1>8. ASSUME NEW z \in Year, z # y
      PROVE  NumbersOf(z)' = NumbersOf(z) /\ Count(z)' = Count(z)
  <2>1. \A u \in IssuedIn(z) : u # v /\ invoice'[u] = invoice[u]
    BY <1>2 DEF IssuedIn
  <2> QED  BY <1>3, <1>8, <2>1 DEF NumbersOf, Count
<1>9. NumbersAreGapless'
  BY <1>7, <1>8 DEF InvoiceInv, NumbersAreGapless, Count, Year
<1>10. \A z \in Year : Count(z) \in Nat /\ Count(z)' \in Nat /\ Count(z) <= Count(z)'
  <2> SUFFICES ASSUME NEW z \in Year
               PROVE  Count(z) \in Nat /\ Count(z)' \in Nat /\ Count(z) <= Count(z)'
    OBVIOUS
  <2>1. Count(z) \in Nat
    BY IssuedFinite
  <2>2. CASE z = y  BY <2>1, <2>2, <1>5
  <2>3. CASE z # y  BY <2>1, <2>3, <1>8
  <2> QED  BY <2>2, <2>3
<1> QED  BY <1>9, <1>10

LEMMA InsertKeeps ==
  ASSUME InvoiceInv, NEW r \in Issuers, InsertInvoice(r)
  PROVE  InvoiceInv'
<1> DEFINE i == issuing[r]
           row == [year |-> i.year, n |-> i.n]
           new == [i EXCEPT !.phase = "inserted"]
<1>1. /\ i.phase = "prepared" /\ rendered' = rendered /\ recorded' = recorded
      /\ year' = year /\ issueFaults' = issueFaults
  BY DEF InsertInvoice
<1>2. i \in [visit : Visits, year : Year, n : Nat,
             phase : {"looked", "prepared", "inserted", "rendered"}]
  BY <1>1 DEF InvoiceInv, InvoiceTypeOK, NoRequest, Year
<1>3. i.n \in 1..Count(i.year) + 1
  BY <1>1, <1>2 DEF InvoiceInv, CountsHold
<1>4. CASE i.n \in NumbersOf(i.year) \/ invoice[i.visit] # NoInvoice
  <2>1. issuing' = [issuing EXCEPT ![r] = NoRequest] /\ invoice' = invoice
    BY <1>4 DEF InsertInvoice
  <2>2. \A q \in Issuers : issuing'[q] = IF q = r THEN NoRequest ELSE issuing[q]
    BY <2>1 DEF InvoiceInv, InvoiceTypeOK
  <2>3. InvoiceTypeOK'
    BY <1>1, <2>1 DEF InvoiceInv, InvoiceTypeOK
  <2>4. CountsHold'
    BY <2>1, <2>2, SameRows DEF InvoiceInv, CountsHold, AtRow, NoRequest
  <2>5. InHand'
    BY <1>1, <2>1, <2>2 DEF InvoiceInv, InHand, AtRow
  <2> QED  BY <2>1, <2>3, <2>4, <2>5, GaplessIfSame DEF InvoiceInv
<1>5. CASE ~(i.n \in NumbersOf(i.year) \/ invoice[i.visit] # NoInvoice)
  <2>1. /\ invoice' = [invoice EXCEPT ![i.visit] = row]
        /\ issuing' = [issuing EXCEPT ![r] = new]
    BY <1>5 DEF InsertInvoice
  <2>2. NumbersAreGapless' /\ \A z \in Year : Count(z) \in Nat /\ Count(z)' \in Nat /\ Count(z) <= Count(z)'
    BY <1>2, <1>3, <1>5, <2>1, RowAdds
  <2>3. row \in [year : Year, n : Nat \ {0}] /\ row # NoInvoice
    <3>1. Count(i.year) \in Nat
      BY IssuedFinite
    <3> QED  BY <1>2, <1>3, <3>1 DEF NoInvoice, Year
  <2>4. /\ new \in [visit : Visits, year : Year, n : Nat,
                    phase : {"looked", "prepared", "inserted", "rendered"}]
        /\ new.visit = i.visit /\ new.phase = "inserted"
    BY <1>2
  <2> HIDE DEF row, new
  <2>5. /\ \A q \in Issuers : issuing'[q] = IF q = r THEN new ELSE issuing[q]
        /\ \A v \in Visits : invoice'[v] = IF v = i.visit THEN row ELSE invoice[v]
    BY <2>1 DEF InvoiceInv, InvoiceTypeOK
  <2>6. InvoiceTypeOK'
    BY <1>1, <2>1, <2>3, <2>4 DEF InvoiceInv, InvoiceTypeOK, Year
  <2>7. CountsHold'
    <3>1. ASSUME NEW q \in Issuers, NEW y \in Year,
                 issuing'[q].phase = "prepared", issuing'[q].year = y
          PROVE  issuing'[q].n \in 1..Count(y)' + 1
      <4>1. q # r
        BY <3>1, <2>4, <2>5
      <4>2. issuing[q].n \in 1..Count(y) + 1 /\ issuing'[q] = issuing[q]
        BY <3>1, <4>1, <2>5 DEF InvoiceInv, CountsHold
      <4>3. Count(y) \in Nat /\ Count(y)' \in Nat /\ Count(y) <= Count(y)'
        BY <2>2
      <4> QED  BY <4>2, <4>3
    <3>2. ASSUME NEW q \in Issuers, AtRow(q)'
          PROVE  invoice'[issuing'[q].visit] # NoInvoice
      <4>1. CASE q = r
        BY <4>1, <1>2, <2>3, <2>4, <2>5
      <4>2. CASE q # r
        <5>1. AtRow(q) /\ issuing'[q] = issuing[q]
          BY <3>2, <4>2, <2>5 DEF AtRow
        <5>2. issuing[q].visit \in Visits /\ invoice[issuing[q].visit] # NoInvoice
          BY <5>1 DEF InvoiceInv, InvoiceTypeOK, CountsHold, AtRow, NoRequest
        <5> QED  BY <5>1, <5>2, <2>3, <2>5
      <4> QED  BY <4>1, <4>2
    <3> QED  BY <3>1, <3>2 DEF CountsHold
  <2>8. InHand'
    <3> SUFFICES ASSUME NEW v \in Visits, invoice'[v] # NoInvoice
                 PROVE  \/ v \in recorded' \/ issueFaults' > 0
                        \/ \E q \in Issuers : issuing'[q].visit = v /\ AtRow(q)'
      BY DEF InHand
    <3>1. CASE v = i.visit
      BY <3>1, <2>4, <2>5 DEF AtRow
    <3>2. CASE v # i.visit
      <4>1. v \in recorded \/ issueFaults > 0 \/ \E q \in Issuers : issuing[q].visit = v /\ AtRow(q)
        BY <3>2, <2>5 DEF InvoiceInv, InHand
      <4>2. CASE v \in recorded \/ issueFaults > 0
        BY <4>2, <1>1
      <4>3. CASE \E q \in Issuers : issuing[q].visit = v /\ AtRow(q)
        <5>1. PICK q \in Issuers : issuing[q].visit = v /\ AtRow(q)
          BY <4>3
        <5>2. q # r
          BY <5>1, <3>2
        <5>3. issuing'[q].visit = v /\ AtRow(q)'
          BY <5>1, <5>2, <2>5 DEF AtRow
        <5> QED  BY <5>3
      <4> QED  BY <4>1, <4>2, <4>3
    <3> QED  BY <3>1, <3>2
  <2> QED  BY <2>2, <2>6, <2>7, <2>8 DEF InvoiceInv
<1> QED  BY <1>4, <1>5

LEMMA RenderKeeps ==
  ASSUME InvoiceInv, NEW r \in Issuers, Render(r)
  PROVE  InvoiceInv'
<1> DEFINE new == [issuing[r] EXCEPT !.phase = "rendered"]
<1>1. /\ issuing[r].phase = "inserted" /\ issuing' = [issuing EXCEPT ![r] = new]
      /\ rendered' \in {rendered, rendered \cup {issuing[r].visit}}
      /\ invoice' = invoice /\ recorded' = recorded
      /\ year' = year /\ issueFaults' = issueFaults
  BY DEF Render
<1>2. issuing[r] \in [visit : Visits, year : Year, n : Nat,
                      phase : {"looked", "prepared", "inserted", "rendered"}]
  BY <1>1 DEF InvoiceInv, InvoiceTypeOK, NoRequest, Year
<1>3. /\ new \in [visit : Visits, year : Year, n : Nat,
                  phase : {"looked", "prepared", "inserted", "rendered"}]
      /\ new.visit = issuing[r].visit /\ new.phase = "rendered"
  BY <1>2
<1> HIDE DEF new
<1>4. InvoiceTypeOK'
  BY <1>1, <1>2, <1>3 DEF InvoiceInv, InvoiceTypeOK, Year
<1>5. \A q \in Issuers : issuing'[q] = IF q = r THEN new ELSE issuing[q]
  BY <1>1 DEF InvoiceInv, InvoiceTypeOK
<1>6. \A q \in Issuers : issuing'[q].visit = issuing[q].visit /\ (AtRow(q)' <=> AtRow(q))
  BY <1>1, <1>3, <1>5 DEF AtRow
<1>7. CountsHold'
  BY <1>1, <1>3, <1>5, <1>6, SameRows DEF InvoiceInv, CountsHold
<1>8. InHand'
  BY <1>1, <1>6 DEF InvoiceInv, InHand
<1> QED  BY <1>1, <1>4, <1>7, <1>8, GaplessIfSame DEF InvoiceInv

\* The last step of a request, and the end of one that died.
LEMMA EndKeeps ==
  ASSUME InvoiceInv, NEW r \in Issuers, RecordInvoice(r) \/ FailIssue(r)
  PROVE  InvoiceInv'
<1>1. /\ issuing' = [issuing EXCEPT ![r] = NoRequest]
      /\ invoice' = invoice /\ rendered' = rendered /\ year' = year
      /\ issuing[r] # NoRequest
  BY DEF RecordInvoice, FailIssue, NoRequest
<1>2. issuing[r].visit \in Visits /\ issueFaults \in Nat
  BY <1>1 DEF InvoiceInv, InvoiceTypeOK
<1>3. \/ recorded' = recorded \cup {issuing[r].visit} /\ issueFaults' = issueFaults
      \/ recorded' = recorded /\ issueFaults' = issueFaults + 1
  BY DEF RecordInvoice, FailIssue
<1>4. InvoiceTypeOK'
  BY <1>1, <1>2, <1>3 DEF InvoiceInv, InvoiceTypeOK
<1>5. \A q \in Issuers : issuing'[q] = IF q = r THEN NoRequest ELSE issuing[q]
  BY <1>1 DEF InvoiceInv, InvoiceTypeOK
<1>6. CountsHold'
  BY <1>1, <1>5, SameRows DEF InvoiceInv, CountsHold, AtRow, NoRequest
<1>7. InHand'
  <2> SUFFICES ASSUME NEW v \in Visits, invoice[v] # NoInvoice
               PROVE  \/ v \in recorded' \/ issueFaults' > 0
                      \/ \E q \in Issuers : issuing'[q].visit = v /\ AtRow(q)'
    BY <1>1 DEF InHand
  <2>1. v \in recorded \/ issueFaults > 0 \/ \E q \in Issuers : issuing[q].visit = v /\ AtRow(q)
    BY DEF InvoiceInv, InHand
  <2>2. CASE v \in recorded \/ issueFaults > 0
    BY <2>2, <1>2, <1>3
  <2>3. CASE \E q \in Issuers : issuing[q].visit = v /\ AtRow(q)
    <3>1. PICK q \in Issuers : issuing[q].visit = v /\ AtRow(q)
      BY <2>3
    <3>2. CASE q = r
      BY <3>1, <3>2, <1>2, <1>3
    <3>3. CASE q # r
      BY <3>1, <3>3, <1>5 DEF AtRow
    <3> QED  BY <3>2, <3>3
  <2> QED  BY <2>1, <2>2, <2>3
<1> QED  BY <1>1, <1>4, <1>6, <1>7, GaplessIfSame DEF InvoiceInv

LEMMA IdleKeeps ==
  ASSUME InvoiceInv, NewYear \/ UNCHANGED invoiceVars
  PROVE  InvoiceInv'
<1>1. /\ invoice' = invoice /\ issuing' = issuing /\ rendered' = rendered
      /\ recorded' = recorded /\ issueFaults' = issueFaults
  BY DEF NewYear, invoiceVars
<1>2. year' \in Year
  BY InvoiceConstants DEF NewYear, invoiceVars, InvoiceInv, InvoiceTypeOK, InvoiceConstants, Year
<1>3. InvoiceTypeOK'
  BY <1>1, <1>2 DEF InvoiceInv, InvoiceTypeOK, Year
<1>4. CountsHold' /\ InHand'
  BY <1>1, SameRows DEF InvoiceInv, CountsHold, InHand, AtRow
<1> QED  BY <1>1, <1>3, <1>4, GaplessIfSame DEF InvoiceInv

LEMMA StepHolds == InvoiceInv /\ [InvoiceNext]_invoiceVars => InvoiceInv'
<1> SUFFICES ASSUME InvoiceInv, [InvoiceNext]_invoiceVars PROVE InvoiceInv'
  OBVIOUS
<1>1. CASE \E r \in Issuers, v \in Visits : StartIssue(r, v)
  BY <1>1, StartKeeps
<1>2. CASE \E r \in Issuers : Prepare(r)
  BY <1>2, PrepareKeeps
<1>3. CASE \E r \in Issuers : InsertInvoice(r)
  BY <1>3, InsertKeeps
<1>4. CASE \E r \in Issuers : Render(r)
  BY <1>4, RenderKeeps
<1>5. CASE \E r \in Issuers : RecordInvoice(r) \/ FailIssue(r)
  BY <1>5, EndKeeps
<1>6. CASE NewYear \/ UNCHANGED invoiceVars
  BY <1>6, IdleKeeps
<1> QED  BY <1>1, <1>2, <1>3, <1>4, <1>5, <1>6 DEF InvoiceNext

\* However requests for invoices interleave, die or straddle the turn of the
\* year, each year's numbers are 1 to the number of its invoices, and what was
\* issued reaches the log unless its request died.
THEOREM InvoicesAlwaysSound == InvoiceSpec => []InvoicesAreSound
<1>1. InvoiceSpec => []InvoiceInv
  BY InitHolds, StepHolds, PTL DEF InvoiceSpec
<1>2. InvoiceInv => InvoicesAreSound
  BY DEF InvoiceInv, InvoicesAreSound, InHand, IssuedIsRecorded
<1> QED  BY <1>1, <1>2, PTL
-----------------------------------------------------------------------------
(* The audit log. *)

\* A row as append and the redaction write it.
IsRow(r) ==
  /\ r = [seq |-> r.seq, prev |-> r.prev, hash |-> r.hash, payload |-> r.payload,
          redacted |-> r.redacted]
  /\ r.redacted \in BOOLEAN

\* Row i follows from the rows before it.
FollowsAt(rows, i) ==
  /\ IsRow(rows[i])
  /\ rows[i].seq = i
  /\ rows[i].prev = IF i = 1 THEN Genesis.hash ELSE rows[i - 1].hash
  /\ rows[i].redacted \/ rows[i].hash = Hash(rows[i].prev, i, rows[i].payload)

Linked(rows) == \A i \in 1..Len(rows) : FollowsAt(rows, i)

Tables == \E S : chain \in Seq(S) /\ mine \in [Writers -> Seq(S)]

\* What the next commit would leave is a chain as well: that is what an open
\* transaction owes to the lock.
AuditInv ==
  /\ Tables
  /\ lock \in Writers \cup {NoWriter} /\ tampered \in BOOLEAN
  /\ \A w \in Writers : mine[w] # <<>> => lock = w
  /\ Linked(chain) /\ Len(chain) <= MaxRows
  /\ \A w \in Writers : Linked(chain \o mine[w]) /\ Len(chain) + Len(mine[w]) <= MaxRows

\* A chain stays one when a row is added that names its newest row's hash.
LEMMA LinkedExtends ==
  ASSUME NEW S, NEW s \in Seq(S), NEW r, Linked(s), IsRow(r), r.seq = Len(s) + 1,
         r.prev = IF s = <<>> THEN Genesis.hash ELSE s[Len(s)].hash,
         r.hash = Hash(r.prev, r.seq, r.payload)
  PROVE  Linked(s \o <<r>>)
<1> DEFINE T == S \cup {r}
           t == s \o <<r>>
<1>1. s \in Seq(T) /\ <<r>> \in Seq(T)
  <2>1. s \in Seq(T)  BY SeqMonotonic, S \subseteq T
  <2>2. <<r>> \in Seq(T)  OBVIOUS
  <2> QED  BY <2>1, <2>2
<1>2. /\ Len(t) = Len(s) + 1 /\ Len(s) \in Nat
      /\ \A i \in 1..Len(s) : t[i] = s[i]
      /\ t[Len(s) + 1] = r
  BY <1>1
<1>3. s = <<>> <=> Len(s) = 0
  BY <1>1, EmptySeq
<1> HIDE DEF t, T
<1>4. ASSUME NEW i \in 1..Len(t)
      PROVE  FollowsAt(t, i)
  <2>1. CASE i \in 1..Len(s)
    <3>1. t[i] = s[i] /\ (i # 1 => i - 1 \in 1..Len(s) /\ t[i - 1] = s[i - 1])
      BY <1>2, <2>1
    <3>2. FollowsAt(s, i)
      BY <2>1 DEF Linked
    <3> QED  BY <3>1, <3>2 DEF FollowsAt
  <2>2. CASE i = Len(s) + 1
    <3>1. t[i] = r
      BY <1>2, <2>2
    <3>2. r.prev = IF i = 1 THEN Genesis.hash ELSE t[i - 1].hash
      <4>1. CASE i = 1
        BY <4>1, <2>2, <1>2, <1>3
      <4>2. CASE i # 1
        <5>1. i - 1 = Len(s) /\ i - 1 \in 1..Len(s) /\ s # <<>>
          BY <4>2, <2>2, <1>2, <1>3
        <5> QED  BY <5>1, <4>2, <1>2
      <4> QED  BY <4>1, <4>2
    <3> QED  BY <3>1, <3>2, <2>2 DEF FollowsAt
  <2> QED  BY <2>1, <2>2, <1>2
<1> QED  BY <1>4 DEF Linked, t

\* The rows of a transaction that has none are nothing.
LEMMA EmptyConcat ==
  ASSUME NEW S, NEW s \in Seq(S)
  PROVE  s \o <<>> = s
BY ConcatEmptySeq

\* A row added to what a transaction has written is added to what it sees.
LEMMA AssociatesRow ==
  ASSUME NEW S, NEW s \in Seq(S), NEW t \in Seq(S), NEW r \in S
  PROVE  s \o (t \o <<r>>) = (s \o t) \o <<r>>
<1>1. <<r>> \in Seq(S)
  OBVIOUS
<1> QED  BY <1>1, ConcatAssociative

LEMMA InvInit == AuditInit => AuditInv
<1> SUFFICES ASSUME AuditInit PROVE AuditInv
  OBVIOUS
<1>1. chain \in Seq({}) /\ mine \in [Writers -> Seq({})] /\ Len(chain) = 0
  BY DEF AuditInit
<1>2. \A w \in Writers : chain \o mine[w] = <<>> /\ Len(mine[w]) = 0
  BY EmptyConcat, EmptySeq DEF AuditInit
<1>3. Linked(<<>>)
  BY DEF Linked
<1>4. Tables
  BY <1>1 DEF Tables
<1>5. \A w \in Writers : Linked(chain \o mine[w])
  BY <1>2, <1>3
<1>6. Len(chain) <= MaxRows /\ \A w \in Writers : Len(chain) + Len(mine[w]) <= MaxRows
  BY <1>1, <1>2, AuditConstants DEF AuditConstants
<1> QED  BY <1>3, <1>4, <1>5, <1>6 DEF AuditInit, AuditInv

LEMMA AppendKeeps ==
  ASSUME AuditInv, NEW w \in Writers, NEW c \in Subjects, AppendRow(w, c)
  PROVE  AuditInv'
<1>1. PICK S : chain \in Seq(S) /\ mine \in [Writers -> Seq(S)]
  BY DEF AuditInv, Tables
<1> DEFINE seen == chain \o mine[w]
           seq == ChainHead(w).seq + 1
           row == [seq |-> seq, prev |-> ChainHead(w).hash,
                   hash |-> Hash(ChainHead(w).hash, seq, Names(c)),
                   payload |-> Names(c), redacted |-> FALSE]
           T == S \cup {row}
<1>2. /\ lock \in {NoWriter, w} /\ lock' = w /\ chain' = chain /\ tampered' = tampered
      /\ mine' = [mine EXCEPT ![w] = mine[w] \o <<row>>]
      /\ Len(chain) + Len(mine[w]) < MaxRows
  BY DEF AppendRow
<1>3. \A v \in Writers : v # w => mine[v] = <<>>
  BY <1>2, AuditConstants DEF AuditInv, AuditConstants, NoWriter
<1>4. seen \in Seq(S) /\ Linked(seen) /\ mine[w] \in Seq(S)
  BY <1>1 DEF AuditInv
<1>5. chain \in Seq(T) /\ mine[w] \in Seq(T) /\ <<row>> \in Seq(T)
  BY <1>1, SeqMonotonic, S \subseteq T
<1>6. mine' \in [Writers -> Seq(T)]
  <2> SUFFICES ASSUME NEW v \in Writers PROVE mine'[v] \in Seq(T)
    BY <1>1, <1>2
  <2>1. CASE v = w
    <3>1. mine[w] \o <<row>> \in Seq(T)
      BY <1>5, ConcatProperties
    <3> HIDE DEF row, T
    <3> QED  BY <2>1, <3>1, <1>1, <1>2
  <2>2. CASE v # w
    <3>1. mine[v] \in Seq(T)
      BY <1>1, SeqMonotonic, S \subseteq T
    <3> HIDE DEF row, T
    <3> QED  BY <2>2, <3>1, <1>1, <1>2
  <2> QED  BY <2>1, <2>2
<1>7. Linked(seen \o <<row>>)
  <2>1. IsRow(row) /\ row.hash = Hash(row.prev, row.seq, row.payload)
    BY DEF IsRow
  <2>2. /\ row.seq = Len(seen) + 1
        /\ row.prev = IF seen = <<>> THEN Genesis.hash ELSE seen[Len(seen)].hash
    <3>1. CASE seen = <<>>
      BY <3>1, <1>4, EmptySeq DEF ChainHead, Genesis
    <3>2. CASE seen # <<>>
      <4>1. Len(seen) \in 1..Len(seen)
        BY <3>2, <1>4, EmptySeq
      <4>2. seen[Len(seen)].seq = Len(seen)
        BY <4>1, <1>4 DEF Linked, FollowsAt
      <4>3. ChainHead(w) = [seq |-> seen[Len(seen)].seq, hash |-> seen[Len(seen)].hash]
        BY <3>2 DEF ChainHead, HeadOf
      <4> QED  BY <3>2, <4>2, <4>3
    <3> QED  BY <3>1, <3>2
  <2> HIDE DEF row, seen
  <2> QED  BY <2>1, <2>2, <1>4, LinkedExtends
<1>8. chain \o (mine[w] \o <<row>>) = seen \o <<row>>
  <2>1. row \in T
    OBVIOUS
  <2>2. chain \in Seq(T) /\ mine[w] \in Seq(T)
    BY <1>5
  <2> HIDE DEF row, T
  <2>3. \A s, t \in Seq(T) : s \o (t \o <<row>>) = (s \o t) \o <<row>>
    BY <2>1, AssociatesRow
  <2> QED  BY <2>2, <2>3
<1>9. Len(mine[w] \o <<row>>) = Len(mine[w]) + 1 /\ Len(mine[w]) \in Nat /\ Len(chain) \in Nat
  BY <1>5, ConcatProperties, LenProperties
<1> HIDE DEF row, seen, seq
<1>10. \A v \in Writers : /\ Linked(chain' \o mine'[v])
                          /\ Len(chain') + Len(mine'[v]) <= MaxRows
                          /\ mine'[v] # <<>> => lock' = v
  <2> SUFFICES ASSUME NEW v \in Writers
               PROVE  /\ Linked(chain' \o mine'[v])
                      /\ Len(chain') + Len(mine'[v]) <= MaxRows
                      /\ mine'[v] # <<>> => lock' = v
    OBVIOUS
  <2>1. CASE v = w
    <3>1. mine'[v] = mine[w] \o <<row>>
      BY <2>1, <1>1, <1>2
    <3>2. Linked(chain' \o mine'[v])
      BY <2>1, <3>1, <1>2, <1>7, <1>8
    <3>3. Len(chain') + Len(mine'[v]) <= MaxRows
      BY <2>1, <3>1, <1>2, <1>9, AuditConstants DEF AuditConstants
    <3> QED  BY <2>1, <3>2, <3>3, <1>2
  <2>2. CASE v # w
    <3>1. mine'[v] = mine[v]
      BY <2>2, <1>1, <1>2
    <3> QED  BY <2>2, <3>1, <1>2, <1>3 DEF AuditInv
  <2> QED  BY <2>1, <2>2
<1>11. Tables'
  BY <1>5, <1>6, <1>2 DEF Tables
<1> QED  BY <1>2, <1>10, <1>11 DEF AuditInv

LEMMA CommitKeeps ==
  ASSUME AuditInv, NEW w \in Writers, CommitAppends(w)
  PROVE  AuditInv'
<1>1. PICK S : chain \in Seq(S) /\ mine \in [Writers -> Seq(S)]
  BY DEF AuditInv, Tables
<1>2. /\ lock = w /\ lock' = NoWriter /\ chain' = chain \o mine[w] /\ tampered' = tampered
      /\ mine' = [mine EXCEPT ![w] = <<>>]
  BY DEF CommitAppends
<1>3. \A v \in Writers : v # w => mine[v] = <<>>
  BY <1>2 DEF AuditInv
<1>4. \A v \in Writers : mine'[v] = <<>>
  BY <1>1, <1>2, <1>3
<1>5. chain' \in Seq(S) /\ mine' \in [Writers -> Seq(S)]
  <2>1. chain' \in Seq(S)
    BY <1>1, <1>2, ConcatProperties
  <2>2. mine' \in [Writers -> Seq(S)]
    BY <1>1, <1>2, EmptySeq
  <2> QED  BY <2>1, <2>2
<1>6. Linked(chain') /\ Len(chain') <= MaxRows /\ Len(chain') \in Nat
  BY <1>1, <1>2, ConcatProperties, LenProperties DEF AuditInv
<1>7. chain' \o <<>> = chain' /\ Len(<<>>) = 0
  BY <1>5, EmptyConcat, EmptySeq
<1>8. \A v \in Writers : Linked(chain' \o mine'[v])
  BY <1>4, <1>6, <1>7
<1>9. \A v \in Writers : Len(chain') + Len(mine'[v]) <= MaxRows
  BY <1>4, <1>6, <1>7
<1> QED  BY <1>2, <1>4, <1>5, <1>6, <1>8, <1>9 DEF AuditInv, Tables

LEMMA RollBackKeeps ==
  ASSUME AuditInv, NEW w \in Writers, RollBack(w)
  PROVE  AuditInv'
<1>1. PICK S : chain \in Seq(S) /\ mine \in [Writers -> Seq(S)]
  BY DEF AuditInv, Tables
<1>2. /\ lock = w /\ lock' = NoWriter /\ chain' = chain /\ tampered' = tampered
      /\ mine' = [mine EXCEPT ![w] = <<>>]
  BY DEF RollBack
<1>3. \A v \in Writers : mine'[v] = <<>>
  BY <1>1, <1>2 DEF AuditInv
<1>4. mine' \in [Writers -> Seq(S)]
  BY <1>1, <1>2, EmptySeq
<1>5. Len(chain) <= MaxRows /\ Len(chain) \in Nat
  BY <1>1, LenProperties DEF AuditInv
<1>6. chain \o <<>> = chain /\ Len(<<>>) = 0
  BY <1>1, EmptyConcat, EmptySeq
<1>7. \A v \in Writers : Linked(chain' \o mine'[v])
  BY <1>2, <1>3, <1>6 DEF AuditInv
<1>8. \A v \in Writers : Len(chain') + Len(mine'[v]) <= MaxRows
  BY <1>2, <1>3, <1>5, <1>6
<1> QED  BY <1>1, <1>2, <1>3, <1>4, <1>5, <1>7, <1>8 DEF AuditInv, Tables

\* What the redaction writes over a row.
LEMMA RedactedFollows ==
  ASSUME NEW r, IsRow(r)
  PROVE  /\ IsRow(RedactedRow(r)) /\ RedactedRow(r).redacted = TRUE
         /\ RedactedRow(r).seq = r.seq /\ RedactedRow(r).prev = r.prev
         /\ RedactedRow(r).hash = r.hash
<1> DEFINE p == Pseudonym(r.payload.about)
<1>1. RedactedRow(r) = [seq |-> r.seq, prev |-> r.prev, hash |-> r.hash, payload |-> p,
                        redacted |-> TRUE]
  <2>1. PICK a, b, c, d, e : r = [seq |-> a, prev |-> b, hash |-> c, payload |-> d, redacted |-> e]
    BY DEF IsRow
  <2>2. RedactedRow(r) = [r EXCEPT !.payload = p, !.redacted = TRUE]
    BY DEF RedactedRow
  <2>3. a = r.seq /\ b = r.prev /\ c = r.hash
    BY <2>1
  <2> HIDE DEF p
  <2> QED  BY <2>1, <2>2, <2>3
<1> HIDE DEF p
<1> QED  BY <1>1 DEF IsRow

\* The redaction leaves each row its place and both its hashes.
LEMMA RedactShape ==
  ASSUME AuditInv, NEW c \in Subjects, Redact(c)
  PROVE  /\ \E S : chain' \in Seq(S)
         /\ Len(chain') = Len(chain) /\ Len(chain) \in Nat
         /\ \A i \in 1..Len(chain) :
              /\ IsRow(chain'[i]) /\ chain'[i].seq = chain[i].seq
              /\ chain'[i].prev = chain[i].prev /\ chain'[i].hash = chain[i].hash
              /\ chain'[i] = chain[i] \/ chain'[i].redacted = TRUE
              /\ chain[i].redacted => chain'[i].redacted
<1>1. PICK S : chain \in Seq(S)
  BY DEF AuditInv, Tables
<1> DEFINE New(i) == IF chain[i].payload.about = c THEN RedactedRow(chain[i]) ELSE chain[i]
           T == {New(i) : i \in 1..Len(chain)}
<1>2. chain' = [i \in 1..Len(chain) |-> New(i)]
  BY DEF Redact
<1>3. Len(chain) \in Nat
  BY <1>1, LenProperties
<1>4. chain' \in Seq(T) /\ Len(chain') = Len(chain)
  <2>1. chain' \in [1..Len(chain) -> T]
    BY <1>2
  <2> QED  BY <2>1, <1>3
<1>5. ASSUME NEW i \in 1..Len(chain)
      PROVE  /\ IsRow(chain'[i]) /\ chain'[i].seq = chain[i].seq
             /\ chain'[i].prev = chain[i].prev /\ chain'[i].hash = chain[i].hash
             /\ chain'[i] = chain[i] \/ chain'[i].redacted = TRUE
             /\ chain[i].redacted => chain'[i].redacted
  <2>1. IsRow(chain[i])
    BY DEF AuditInv, Linked, FollowsAt
  <2>2. chain'[i] = New(i)
    BY <1>2
  <2>3. CASE chain[i].payload.about = c
    BY <2>1, <2>2, <2>3, RedactedFollows
  <2>4. CASE chain[i].payload.about # c
    BY <2>1, <2>2, <2>4
  <2> QED  BY <2>3, <2>4
<1> QED  BY <1>3, <1>4, <1>5

LEMMA RedactKeeps ==
  ASSUME AuditInv, NEW c \in Subjects, Redact(c)
  PROVE  AuditInv'
<1>1. /\ \A w \in Writers : mine[w] = <<>>
      /\ mine' = mine /\ lock' = lock /\ tampered' = tampered
  BY DEF Redact
<1>2. PICK S : chain' \in Seq(S)
  BY RedactShape
<1>3. Len(chain') = Len(chain) /\ Len(chain) \in Nat
  BY RedactShape
<1>7. Linked(chain')
  <2> SUFFICES ASSUME NEW i \in 1..Len(chain') PROVE FollowsAt(chain', i)
    BY DEF Linked
  <2>0. i \in 1..Len(chain) /\ (i # 1 => i - 1 \in 1..Len(chain))
    BY <1>3
  <2>1. i \in 1..Len(chain) /\ FollowsAt(chain, i) /\ (i # 1 => i - 1 \in 1..Len(chain))
    BY <2>0 DEF AuditInv, Linked
  <2>2. chain'[i].prev = IF i = 1 THEN Genesis.hash ELSE chain'[i - 1].hash
    BY <2>1, RedactShape DEF FollowsAt
  <2>3. chain'[i].redacted \/ chain'[i].hash = Hash(chain'[i].prev, i, chain'[i].payload)
    BY <2>1, RedactShape DEF FollowsAt
  <2> QED  BY <2>1, <2>2, <2>3, RedactShape DEF FollowsAt
<1>4. mine' \in [Writers -> Seq(S)]
  <2>1. PICK S0 : mine \in [Writers -> Seq(S0)]
    BY DEF AuditInv, Tables
  <2>2. mine = [w \in Writers |-> <<>>]
    BY <2>1, <1>1
  <2>3. <<>> \in Seq(S)
    BY EmptySeq
  <2> QED  BY <2>2, <2>3, <1>1
<1>5. chain' \o <<>> = chain' /\ Len(<<>>) = 0
  BY <1>2, EmptyConcat, EmptySeq
<1>6. \A w \in Writers : Linked(chain' \o mine'[w])
  BY <1>1, <1>5, <1>7
<1>8. Len(chain') <= MaxRows /\ \A w \in Writers : Len(chain') + Len(mine'[w]) <= MaxRows
  BY <1>1, <1>3 DEF AuditInv
<1> QED  BY <1>1, <1>2, <1>4, <1>6, <1>7, <1>8 DEF AuditInv, Tables

\* The reads and the cache disturb nothing the invariant speaks of.
LEMMA ReadsKeep ==
  ASSUME AuditInv, ForgetHead \/ CheckTail \/ UNCHANGED auditVars
  PROVE  AuditInv'
<1>1. /\ chain' = chain /\ mine' = mine /\ lock' = lock
      /\ tampered' = tampered \/ tampered' = ~TailVerifies(chain)
  BY DEF ForgetHead, CheckTail, auditVars
<1>2. tampered' \in BOOLEAN
  BY <1>1 DEF AuditInv
<1> QED  BY <1>1, <1>2 DEF AuditInv, Tables

LEMMA InvStep == AuditInv /\ [AuditNext]_auditVars => AuditInv'
<1> SUFFICES ASSUME AuditInv, [AuditNext]_auditVars PROVE AuditInv'
  OBVIOUS
<1>1. CASE \E w \in Writers : CommitAppends(w)
  BY <1>1, CommitKeeps
<1>2. CASE \E w \in Writers : RollBack(w)
  BY <1>2, RollBackKeeps
<1>3. CASE \E w \in Writers, c \in Subjects : AppendRow(w, c)
  BY <1>3, AppendKeeps
<1>4. CASE \E c \in Subjects : Redact(c)
  BY <1>4, RedactKeeps
<1>5. CASE ForgetHead \/ CheckTail \/ UNCHANGED auditVars
  BY <1>5, ReadsKeep
<1> QED  BY <1>1, <1>2, <1>3, <1>4, <1>5 DEF AuditNext

LEMMA InvVerifies == AuditInv => ChainVerifies
<1> SUFFICES ASSUME AuditInv PROVE ChainVerifies
  OBVIOUS
<1>1. PICK S : chain \in Seq(S) /\ mine \in [Writers -> Seq(S)]
  BY DEF AuditInv, Tables
<1>2. \A i \in 1..Len(chain) : FollowsAt(chain, i)
  BY DEF AuditInv, Linked
<1>3. Len(chain) \in 0..MaxRows
  BY <1>1 DEF AuditInv
<1> QED  BY <1>2, <1>3 DEF AuditInv, ChainVerifies, AuditTypeOK, Verifies, FollowsAt, ContentMatches

\* Whatever transactions interleave or roll back, whatever Redis holds and
\* whatever is erased, a full verification of the shop's log passes.
THEOREM ChainAlwaysVerifies == AuditSpec => []ChainVerifies
<1>1. AuditSpec => []AuditInv
  BY InvInit, InvStep, PTL DEF AuditSpec
<1> QED  BY <1>1, InvVerifies, PTL

\* No row of the log is ever removed, moved or rehashed.
THEOREM HistoryAlwaysStands == AuditSpec => HistoryStands
<1> DEFINE Stands == /\ Len(chain') >= Len(chain)
                     /\ \A i \in 1..Len(chain) :
                          /\ chain'[i].hash = chain[i].hash /\ chain'[i].prev = chain[i].prev
                          /\ chain[i].redacted => chain'[i].redacted
<1>1. AuditInv /\ [AuditNext]_auditVars => [Stands]_auditVars
  <2> SUFFICES ASSUME AuditInv, AuditNext PROVE Stands
    OBVIOUS
  <2>1. PICK S : chain \in Seq(S) /\ mine \in [Writers -> Seq(S)]
    BY DEF AuditInv, Tables
  <2>2. Len(chain) \in Nat
    BY <2>1
  <2>3. CASE chain' = chain
    BY <2>2, <2>3
  <2>4. CASE \E w \in Writers : CommitAppends(w)
    <3>1. PICK w \in Writers : chain' = chain \o mine[w]
      BY <2>4 DEF CommitAppends
    <3>2. /\ Len(chain') = Len(chain) + Len(mine[w]) /\ Len(mine[w]) \in Nat
          /\ \A i \in 1..Len(chain) : chain'[i] = chain[i]
      BY <2>1, <3>1, ConcatProperties, LenProperties
    <3> QED  BY <2>2, <3>2
  <2>5. CASE \E c \in Subjects : Redact(c)
    <3>1. PICK c \in Subjects : Redact(c)
      BY <2>5
    <3>2. /\ Len(chain') = Len(chain)
          /\ \A i \in 1..Len(chain) :
               /\ chain'[i].prev = chain[i].prev /\ chain'[i].hash = chain[i].hash
               /\ chain[i].redacted => chain'[i].redacted
      BY <3>1, RedactShape
    <3> QED  BY <2>2, <3>2
  <2> QED  BY <2>3, <2>4, <2>5 DEF AuditNext, AppendRow, RollBack, ForgetHead, CheckTail
<1>2. AuditSpec => []AuditInv
  BY InvInit, InvStep, PTL DEF AuditSpec
<1> QED  BY <1>1, <1>2, PTL DEF AuditSpec, HistoryStands
-----------------------------------------------------------------------------
(* The requests for a customer's data. *)

Status == {"none", "RECEIVED", "VERIFIED", "APPROVED", "SCHEDULED", "RUNNING", "COMPLETED",
           "CANCELLED", "REJECTED"}
Execution == [wish : Wishes, phase : {"read", "running"}]
Executed == [wish : Wishes, phase : {"done"}, rows : Nat]

ErasureTypes ==
  /\ dsr \in [Wishes -> Status] /\ due \in [Erasers -> SUBSET Wishes]
  /\ eraser \in [Erasers -> Execution \cup Executed \cup {NoExecution}]
  /\ personal \in Nat /\ purged \in [Wishes -> Nat] /\ cascades \in [Wishes -> Nat]
  /\ DOMAIN report = Wishes

AtWork(e, q) == eraser[e].phase # "idle" /\ eraser[e].wish = q

\* A status, a place in a pass and an execution each rest on the checks before it.
ChecksWereMade ==
  /\ \A q \in Wishes :
       /\ dsr[q] \in {"VERIFIED", "APPROVED", "SCHEDULED", "RUNNING", "COMPLETED"} => q \in verified
       /\ dsr[q] \in {"APPROVED", "RUNNING", "COMPLETED"} => q \in matured
       /\ \A e \in Erasers : AtWork(e, q) => q \in verified /\ q \in matured
  /\ \A e \in Erasers : due[e] \subseteq matured

\* What was withdrawn before anyone read it stays withdrawn and unread.
WithdrawalHolds ==
  \A q \in withdrawn \ overtook :
    dsr[q] \in {"CANCELLED", "REJECTED"} /\ \A e \in Erasers : ~AtWork(e, q)

\* The one cascade of a deletion has taken what its execution will report.
CascadesAreCounted ==
  \A q \in Deletions :
    /\ cascades[q] = 0 => purged[q] = 0
    /\ \A e \in Erasers : eraser[e].phase = "done" /\ eraser[e].wish = q =>
         cascades[q] > 0 /\ (cascades[q] = 1 => eraser[e].rows = purged[q])

ErasureInv == ErasureTypes /\ ChecksWereMade /\ WithdrawalHolds /\ CascadesAreCounted /\ ErasureIsSound

LEMMA ErasureInitInv == ErasureInit => ErasureInv
<1>1. SUFFICES ASSUME ErasureInit PROVE ErasureInv OBVIOUS
<1>2. \A q \in Wishes : dsr[q] = "none" /\ cascades[q] = 0 /\ purged[q] = 0 BY <1>1 DEF ErasureInit
<1>3. \A e \in Erasers : eraser[e] = NoExecution /\ due[e] = {} BY <1>1 DEF ErasureInit
<1>4. \A e \in Erasers : eraser[e].phase = "idle" BY <1>3 DEF NoExecution
<1>5. ErasureTypes BY <1>1 DEF ErasureInit, ErasureTypes, Status
<1>6. ChecksWereMade BY <1>2, <1>3, <1>4 DEF ChecksWereMade, AtWork
<1>7. WithdrawalHolds BY <1>1 DEF ErasureInit, WithdrawalHolds
<1>8. CascadesAreCounted BY <1>2, <1>4, ErasureConstants DEF CascadesAreCounted
<1>9. ErasureIsSound BY <1>2, ErasureConstants DEF ErasureIsSound, ErasureIsAuthorised, ReportIsTrue
<1>10. QED BY <1>5, <1>6, <1>7, <1>8, <1>9 DEF ErasureInv

\* A step at the counter moves one request, and what it moves it to rests on its
\* own check; what was withdrawn unread it leaves withdrawn.
LEMMA CounterMoves ==
  ASSUME ErasureInv, NEW q \in Wishes, NEW s \in Status \ {"RUNNING", "COMPLETED"},
         dsr' = [dsr EXCEPT ![q] = s], UNCHANGED <<due, eraser, personal, purged, cascades, report>>,
         verified \subseteq verified', matured \subseteq matured',
         s \in {"VERIFIED", "APPROVED", "SCHEDULED"} => q \in verified',
         s = "APPROVED" => q \in matured',
         s \notin {"CANCELLED", "REJECTED"} => dsr[q] \notin {"CANCELLED", "REJECTED"},
         \/ UNCHANGED <<withdrawn, overtook>>
         \/ /\ s = "CANCELLED"
            /\ withdrawn' = IF cascades[q] = 0 THEN withdrawn \cup {q} ELSE withdrawn
            /\ overtook' = IF Reads(q) # {} THEN overtook \cup {q} ELSE overtook
  PROVE  ErasureInv'
<1>1. dsr' \in [Wishes -> Status] /\ dsr'[q] = s /\ \A p \in Wishes \ {q} : dsr'[p] = dsr[p]
  BY DEF ErasureInv, ErasureTypes
<1>2. ErasureTypes' BY <1>1 DEF ErasureInv, ErasureTypes
<1>3. \A e \in Erasers : \A p : AtWork(e, p)' <=> AtWork(e, p) BY DEF AtWork
<1>4. ChecksWereMade' BY <1>1, <1>3 DEF ErasureInv, ChecksWereMade
<1>5. CascadesAreCounted' BY DEF ErasureInv, CascadesAreCounted
<1>6. ReportIsTrue' BY <1>1, ErasureConstants DEF ErasureInv, ErasureIsSound, ReportIsTrue
<1>7. WithdrawalHolds'
  <2>1. SUFFICES ASSUME NEW p \in withdrawn' \ overtook'
        PROVE dsr'[p] \in {"CANCELLED", "REJECTED"} /\ \A e \in Erasers : ~AtWork(e, p)
    BY <1>3 DEF WithdrawalHolds
  <2>2. CASE p \in withdrawn \ overtook
    <3>1. dsr[p] \in {"CANCELLED", "REJECTED"} /\ \A e \in Erasers : ~AtWork(e, p)
      BY <2>2 DEF ErasureInv, WithdrawalHolds
    <3>2. p \in Wishes \/ dsr' [p] = dsr[p] BY <1>1 DEF ErasureInv, ErasureTypes
    <3>3. p # q => dsr'[p] = dsr[p] BY DEF ErasureInv, ErasureTypes
    <3>4. QED BY <1>1, <3>1, <3>3
  <2>3. CASE p = q /\ s = "CANCELLED" /\ Reads(q) = {}
    BY <1>1, <2>3 DEF Reads, AtWork
  <2>4. QED BY <2>1, <2>2, <2>3
<1>8. ErasureIsAuthorised'
  <2>1. SUFFICES ASSUME NEW p \in Wishes, cascades[p] > 0
        PROVE p \in verified' /\ p \in matured' /\ (p \in withdrawn' => p \in overtook')
    BY DEF ErasureIsAuthorised
  <2>2. p \in verified /\ p \in matured /\ (p \in withdrawn => p \in overtook)
    BY <2>1 DEF ErasureInv, ErasureIsSound, ErasureIsAuthorised
  <2>3. QED BY <2>1, <2>2
<1>9. QED BY <1>2, <1>4, <1>5, <1>6, <1>7, <1>8 DEF ErasureInv, ErasureIsSound

LEMMA CounterInv ==
  ASSUME ErasureInv, NEW q \in Wishes,
         \/ Raise(q) \/ Verify(q) \/ Approve(q, TRUE) \/ Approve(q, FALSE) \/ Cancel(q) \/ Reject(q)
  PROVE  ErasureInv'
<1>1. CASE Raise(q) BY <1>1, CounterMoves DEF Raise, Status, requestVars, countVars, counterVars
<1>2. CASE Verify(q) BY <1>2, CounterMoves DEF Verify, Status, requestVars, countVars, counterVars
<1>3. ASSUME NEW waived \in BOOLEAN, Approve(q, waived) PROVE ErasureInv'
  <2>1. dsr[q] = "VERIFIED" /\ q \in verified
    BY <1>3 DEF Approve, MayApprove, ErasureInv, ChecksWereMade
  <2>2. CASE waived \/ q \notin Deletions
    BY <1>3, <2>1, <2>2, CounterMoves DEF Approve, Status, countVars, counterVars
  <2>3. CASE ~(waived \/ q \notin Deletions)
    BY <1>3, <2>1, <2>3, CounterMoves DEF Approve, Status, countVars, counterVars
  <2>4. QED BY <2>2, <2>3
<1>4. CASE Cancel(q) BY <1>4, CounterMoves DEF Cancel, Status, requestVars, countVars
<1>5. CASE Reject(q) BY <1>5, CounterMoves DEF Reject, Status, requestVars, countVars, counterVars
<1>6. QED BY <1>1, <1>2, <1>3, <1>4, <1>5

LEMMA QuietInv ==
  ASSUME ErasureInv, (\E q \in Wishes : GraceElapses(q)) \/ NewRow \/ UNCHANGED erasureVars
  PROVE  ErasureInv'
<1>1. UNCHANGED <<dsr, verified, due, eraser, purged, cascades, report, withdrawn, overtook>>
      /\ matured \subseteq matured' /\ personal' \in Nat
  BY DEF GraceElapses, NewRow, erasureVars, requestVars, countVars, counterVars, ErasureInv, ErasureTypes
<1>2. ErasureTypes' BY <1>1 DEF ErasureInv, ErasureTypes
<1>3. ChecksWereMade' /\ WithdrawalHolds' /\ CascadesAreCounted'
  BY <1>1 DEF ErasureInv, ChecksWereMade, WithdrawalHolds, CascadesAreCounted, AtWork
<1>4. ErasureIsSound' BY <1>1 DEF ErasureInv, ErasureIsSound, ErasureIsAuthorised, ReportIsTrue
<1>5. QED BY <1>2, <1>3, <1>4 DEF ErasureInv

\* An eraser takes a request, passes it on to its next phase, or lets it go.
LEMMA EraserMoves ==
  ASSUME ErasureInv, NEW e \in Erasers, NEW x \in Execution \cup Executed \cup {NoExecution},
         eraser' = [eraser EXCEPT ![e] = x], due' \in [Erasers -> SUBSET Wishes],
         dsr' \in [Wishes -> Status], personal' \in Nat,
         purged' \in [Wishes -> Nat], cascades' \in [Wishes -> Nat], DOMAIN report' = Wishes
  PROVE  /\ ErasureTypes' /\ eraser'[e] = x
         /\ \A f \in Erasers \ {e} : eraser'[f] = eraser[f]
         /\ \A f \in Erasers \ {e} : \A q : AtWork(f, q)' <=> AtWork(f, q)
  BY DEF ErasureInv, ErasureTypes, AtWork

LEMMA WorkOf ==
  ASSUME ErasureInv, NEW e \in Erasers, eraser[e].phase # "idle"
  PROVE  /\ eraser[e].wish \in Wishes /\ AtWork(e, eraser[e].wish)
         /\ eraser[e].phase = "done" => eraser[e].rows \in Nat
  BY DEF ErasureInv, ErasureTypes, Execution, Executed, NoExecution, AtWork

LEMMA PassInv == ASSUME ErasureInv, NEW e \in Erasers, StartPass(e) PROVE ErasureInv'
<1>1. UNCHANGED <<dsr, verified, matured, eraser, personal, purged, cascades, report, withdrawn, overtook>>
  BY DEF StartPass, requestVars, countVars, counterVars
<1>2. due' = [due EXCEPT ![e] = {q \in Wishes : dsr[q] \in DueStatuses /\ q \in matured}]
  BY DEF StartPass
<1>3. due' \in [Erasers -> SUBSET Wishes] /\ \A f \in Erasers : due'[f] \subseteq matured
  BY <1>2 DEF ErasureInv, ErasureTypes, ChecksWereMade
<1>4. ErasureTypes' /\ ChecksWereMade' BY <1>1, <1>3 DEF ErasureInv, ErasureTypes, ChecksWereMade, AtWork
<1>5. WithdrawalHolds' /\ CascadesAreCounted' BY <1>1 DEF ErasureInv, WithdrawalHolds, CascadesAreCounted, AtWork
<1>6. ErasureIsSound' BY <1>1 DEF ErasureInv, ErasureIsSound, ErasureIsAuthorised, ReportIsTrue
<1>7. QED BY <1>4, <1>5, <1>6 DEF ErasureInv

LEMMA ReadInv == ASSUME ErasureInv, NEW e \in Erasers, ReadDue(e) PROVE ErasureInv'
<1>1. PICK q \in due[e] :
        /\ eraser[e] = NoExecution /\ due' = [due EXCEPT ![e] = due[e] \ {q}]
        /\ IF dsr[q] \in DueStatuses /\ q \notin detached
             THEN eraser' = [eraser EXCEPT ![e] = [wish |-> q, phase |-> "read"]]
             ELSE UNCHANGED eraser
  BY DEF ReadDue
<1>2. UNCHANGED <<dsr, verified, matured, personal, purged, cascades, report, withdrawn, overtook>>
  BY DEF ReadDue, requestVars, countVars, counterVars
<1>3. q \in Wishes /\ q \in matured BY <1>1 DEF ErasureInv, ErasureTypes, ChecksWereMade
<1>4. due' \in [Erasers -> SUBSET Wishes] /\ \A f \in Erasers : due'[f] \subseteq matured
  BY <1>1 DEF ErasureInv, ErasureTypes, ChecksWereMade
<1>5. ErasureIsSound' BY <1>2 DEF ErasureInv, ErasureIsSound, ErasureIsAuthorised, ReportIsTrue
<1>6. CASE eraser' = eraser
  <2>1. ErasureTypes' /\ ChecksWereMade' BY <1>2, <1>4, <1>6 DEF ErasureInv, ErasureTypes, ChecksWereMade, AtWork
  <2>2. WithdrawalHolds' /\ CascadesAreCounted'
    BY <1>2, <1>6 DEF ErasureInv, WithdrawalHolds, CascadesAreCounted, AtWork
  <2>3. QED BY <1>5, <2>1, <2>2 DEF ErasureInv
<1>7. CASE dsr[q] \in DueStatuses /\ eraser' = [eraser EXCEPT ![e] = [wish |-> q, phase |-> "read"]]
  <2> DEFINE x == [wish |-> q, phase |-> "read"]
  <2>1. x \in Execution BY <1>3 DEF Execution
  <2>2. ErasureTypes' /\ eraser'[e] = x /\ (\A f \in Erasers \ {e} : eraser'[f] = eraser[f])
        /\ \A f \in Erasers \ {e} : \A p : AtWork(f, p)' <=> AtWork(f, p)
    BY <1>2, <1>4, <1>7, <2>1, EraserMoves DEF ErasureInv, ErasureTypes
  <2>3. \A p : AtWork(e, p)' <=> p = q BY <2>2 DEF AtWork
  <2>4. q \in verified BY <1>3, <1>7 DEF ErasureInv, ChecksWereMade, DueStatuses
  <2>5. ChecksWereMade' BY <1>2, <1>3, <1>4, <2>2, <2>3, <2>4 DEF ErasureInv, ChecksWereMade
  <2>6. q \notin withdrawn \ overtook
    <3>1. dsr[q] \notin {"CANCELLED", "REJECTED"} BY <1>7 DEF DueStatuses
    <3>2. QED BY <3>1 DEF ErasureInv, WithdrawalHolds
  <2>7. WithdrawalHolds' BY <1>2, <2>2, <2>3, <2>6 DEF ErasureInv, WithdrawalHolds
  <2>8. CascadesAreCounted' BY <1>2, <2>2 DEF ErasureInv, CascadesAreCounted
  <2>9. QED BY <1>5, <2>2, <2>5, <2>7, <2>8 DEF ErasureInv
<1>8. QED BY <1>1, <1>6, <1>7

LEMMA RunningInv == ASSUME ErasureInv, NEW e \in Erasers, MarkRunning(e) PROVE ErasureInv'
<1> DEFINE q == eraser[e].wish
           x == [eraser[e] EXCEPT !.phase = "running"]
<1>1. UNCHANGED <<verified, matured, due, personal, purged, cascades, report, withdrawn, overtook>>
      /\ eraser[e].phase = "read" /\ dsr' = [dsr EXCEPT ![q] = "RUNNING"]
  BY DEF MarkRunning, requestVars, countVars, counterVars
<1>2. q \in Wishes /\ AtWork(e, q) BY <1>1, WorkOf
<1>3. eraser[e] \in Execution BY <1>1 DEF ErasureInv, ErasureTypes, Executed, NoExecution
<1>4. x \in Execution /\ eraser' = [eraser EXCEPT ![e] = x] BY <1>3 DEF MarkRunning, Execution, ErasureInv, ErasureTypes
<1>5. dsr' \in [Wishes -> Status] /\ dsr'[q] = "RUNNING" /\ \A p \in Wishes \ {q} : dsr'[p] = dsr[p]
  BY <1>1, <1>2 DEF ErasureInv, ErasureTypes, Status
<1>6. ErasureTypes' /\ eraser'[e] = x /\ (\A f \in Erasers \ {e} : eraser'[f] = eraser[f])
      /\ \A f \in Erasers \ {e} : \A p : AtWork(f, p)' <=> AtWork(f, p)
  BY <1>1, <1>4, <1>5, EraserMoves DEF ErasureInv, ErasureTypes
<1>7. eraser'[e].phase = "running" /\ eraser'[e].wish = q BY <1>3, <1>6 DEF Execution
<1>8. \A p : AtWork(e, p)' <=> AtWork(e, p) BY <1>1, <1>7 DEF AtWork
<1>9. q \in verified /\ q \in matured /\ q \notin withdrawn \ overtook
  BY <1>2 DEF ErasureInv, ChecksWereMade, WithdrawalHolds
<1>10. ChecksWereMade' BY <1>1, <1>5, <1>6, <1>8, <1>9 DEF ErasureInv, ChecksWereMade
<1>11. WithdrawalHolds'
  <2>1. \A p : p # q => dsr'[p] = dsr[p] BY <1>1 DEF ErasureInv, ErasureTypes
  <2>2. QED BY <1>1, <1>6, <1>8, <1>9, <2>1 DEF ErasureInv, WithdrawalHolds
<1>12. CascadesAreCounted'
  <2>1. \A f \in Erasers : eraser'[f].phase = "done" => f # e /\ eraser'[f] = eraser[f] BY <1>6, <1>7
  <2>2. QED BY <1>1, <2>1 DEF ErasureInv, CascadesAreCounted
<1>13. ErasureIsSound'
  BY <1>1, <1>5, ErasureConstants DEF ErasureInv, ErasureIsSound, ErasureIsAuthorised, ReportIsTrue
<1>14. QED BY <1>6, <1>10, <1>11, <1>12, <1>13 DEF ErasureInv

LEMMA CascadeInv == ASSUME ErasureInv, NEW e \in Erasers, Cascade(e) PROVE ErasureInv'
<1> DEFINE q == eraser[e].wish
           x == [wish |-> q, phase |-> "done", rows |-> personal]
<1>1. UNCHANGED <<dsr, verified, matured, due, report, withdrawn, overtook>>
      /\ eraser[e].phase = "running" /\ q \in Deletions /\ personal' = 0
      /\ purged' = [purged EXCEPT ![q] = purged[q] + personal]
      /\ cascades' = [cascades EXCEPT ![q] = cascades[q] + 1]
      /\ eraser' = [eraser EXCEPT ![e] = x]
  BY DEF Cascade, requestVars, counterVars
<1>2. q \in Wishes /\ AtWork(e, q) BY <1>1, WorkOf
<1>3. personal \in Nat /\ purged[q] \in Nat /\ cascades[q] \in Nat BY <1>2 DEF ErasureInv, ErasureTypes
<1>4. /\ purged' \in [Wishes -> Nat] /\ purged'[q] = purged[q] + personal
      /\ cascades' \in [Wishes -> Nat] /\ cascades'[q] = cascades[q] + 1
      /\ \A p \in Wishes \ {q} : purged'[p] = purged[p] /\ cascades'[p] = cascades[p]
  BY <1>1, <1>2, <1>3 DEF ErasureInv, ErasureTypes
<1>5. x \in Executed BY <1>2, <1>3 DEF Executed
<1>6. ErasureTypes' /\ eraser'[e] = x /\ (\A f \in Erasers \ {e} : eraser'[f] = eraser[f])
      /\ \A f \in Erasers \ {e} : \A p : AtWork(f, p)' <=> AtWork(f, p)
  BY <1>1, <1>4, <1>5, EraserMoves DEF ErasureInv, ErasureTypes
<1>7. eraser'[e].phase = "done" /\ eraser'[e].wish = q /\ eraser'[e].rows = personal BY <1>6
<1> HIDE DEF x
<1>8. \A p : AtWork(e, p)' <=> AtWork(e, p) BY <1>1, <1>7 DEF AtWork
<1>9. q \in verified /\ q \in matured /\ q \notin withdrawn \ overtook
  BY <1>2 DEF ErasureInv, ChecksWereMade, WithdrawalHolds
<1> HIDE DEF q
<1>10. ChecksWereMade' BY <1>1, <1>6, <1>8 DEF ErasureInv, ChecksWereMade
<1>11. WithdrawalHolds' BY <1>1, <1>6, <1>8 DEF ErasureInv, WithdrawalHolds
<1>12. CascadesAreCounted'
  <2>1. SUFFICES ASSUME NEW p \in Deletions
        PROVE /\ cascades'[p] = 0 => purged'[p] = 0
              /\ \A f \in Erasers : eraser'[f].phase = "done" /\ eraser'[f].wish = p =>
                   cascades'[p] > 0 /\ (cascades'[p] = 1 => eraser'[f].rows = purged'[p])
    BY DEF CascadesAreCounted
  <2>2. p \in Wishes BY ErasureConstants
  <2>3. CASE p # q BY <1>4, <1>6, <1>7, <2>2, <2>3 DEF ErasureInv, CascadesAreCounted
  <2>4. CASE p = q
    <3>1. cascades[q] = 0 => purged[q] = 0 BY <2>4 DEF ErasureInv, CascadesAreCounted
    <3>2. \A f \in Erasers \ {e} : eraser'[f].phase = "done" /\ eraser'[f].wish = q => cascades[q] > 0
      BY <1>6, <2>4 DEF ErasureInv, CascadesAreCounted
    <3>3. QED BY <1>3, <1>4, <1>7, <2>4, <3>1, <3>2
  <2>5. QED BY <2>3, <2>4
<1>13. ErasureIsSound'
  <2>1. \A p \in Wishes : cascades'[p] > 0 => p = q \/ cascades[p] > 0 BY <1>4
  <2>2. ErasureIsAuthorised' BY <1>1, <1>9, <2>1 DEF ErasureInv, ErasureIsSound, ErasureIsAuthorised
  <2>3. ASSUME NEW p \in Deletions, dsr[p] = "COMPLETED"
        PROVE cascades'[p] > 0 /\ (cascades'[p] = 1 => report[p] = purged'[p])
    <3>1. cascades[p] > 0 /\ (cascades[p] = 1 => report[p] = purged[p])
      BY <2>3 DEF ErasureInv, ErasureIsSound, ReportIsTrue
    <3>2. p \in Wishes BY ErasureConstants
    <3>3. QED BY <1>3, <1>4, <3>1, <3>2
  <2>4. QED BY <1>1, <2>2, <2>3 DEF ErasureIsSound, ReportIsTrue
<1>14. QED BY <1>6, <1>10, <1>11, <1>12, <1>13 DEF ErasureInv

LEMMA ExportInv == ASSUME ErasureInv, NEW e \in Erasers, Export(e) PROVE ErasureInv'
<1> DEFINE q == eraser[e].wish
           x == [wish |-> q, phase |-> "done", rows |-> 0]
<1>1. UNCHANGED <<dsr, verified, matured, due, personal, purged, cascades, report, withdrawn, overtook>>
      /\ eraser[e].phase = "running" /\ q \notin Deletions /\ eraser' = [eraser EXCEPT ![e] = x]
  BY DEF Export, requestVars, countVars, counterVars
<1>2. q \in Wishes /\ AtWork(e, q) BY <1>1, WorkOf
<1>3. x \in Executed BY <1>2 DEF Executed
<1>4. ErasureTypes' /\ eraser'[e] = x /\ (\A f \in Erasers \ {e} : eraser'[f] = eraser[f])
      /\ \A f \in Erasers \ {e} : \A p : AtWork(f, p)' <=> AtWork(f, p)
  BY <1>1, <1>3, EraserMoves DEF ErasureInv, ErasureTypes
<1>5. eraser'[e].phase = "done" /\ eraser'[e].wish = q BY <1>4
<1>6. \A p : AtWork(e, p)' <=> AtWork(e, p) BY <1>1, <1>5 DEF AtWork
<1>7. ChecksWereMade' /\ WithdrawalHolds'
  BY <1>1, <1>4, <1>6 DEF ErasureInv, ChecksWereMade, WithdrawalHolds
<1>8. CascadesAreCounted' BY <1>1, <1>4, <1>5 DEF ErasureInv, CascadesAreCounted
<1>9. ErasureIsSound' BY <1>1 DEF ErasureInv, ErasureIsSound, ErasureIsAuthorised, ReportIsTrue
<1>10. QED BY <1>4, <1>7, <1>8, <1>9 DEF ErasureInv

\* An eraser lets go of its request, having completed it or not.
LEMMA LetGoInv == ASSUME ErasureInv, NEW e \in Erasers, Complete(e) \/ FailExecution(e) PROVE ErasureInv'
<1> DEFINE q == eraser[e].wish
<1>1. UNCHANGED <<verified, matured, personal, purged, cascades, withdrawn, overtook>>
      /\ eraser' = [eraser EXCEPT ![e] = NoExecution] /\ eraser[e] # NoExecution
  BY DEF Complete, FailExecution, requestVars, countVars, counterVars, NoExecution
<1>2. due' \in [Erasers -> SUBSET Wishes] /\ \A f \in Erasers : due'[f] \subseteq due[f]
  BY DEF Complete, FailExecution, ErasureInv, ErasureTypes
<1>3. eraser[e].phase # "idle"
  BY <1>1 DEF ErasureInv, ErasureTypes, Execution, Executed
<1>4. q \in Wishes /\ AtWork(e, q) BY <1>3, WorkOf
<1>5. q \in verified /\ q \in matured /\ q \notin withdrawn \ overtook
  BY <1>4 DEF ErasureInv, ChecksWereMade, WithdrawalHolds
<1>6. UNCHANGED <<dsr, report>>
      \/ (eraser[e].phase = "done" /\ dsr' = [dsr EXCEPT ![q] = "COMPLETED"]
          /\ report' = [report EXCEPT ![q] = eraser[e].rows])
  BY DEF Complete, FailExecution, ReportOf, countVars
<1>7. dsr' \in [Wishes -> Status] /\ (\A p : p # q => dsr'[p] = dsr[p])
      /\ (dsr'[q] = dsr[q] \/ dsr'[q] = "COMPLETED")
  <2>1. dsr \in [Wishes -> Status] /\ "COMPLETED" \in Status BY DEF ErasureInv, ErasureTypes, Status
  <2>2. CASE dsr' = dsr BY <2>1, <2>2
  <2>3. CASE dsr' = [dsr EXCEPT ![q] = "COMPLETED"] BY <1>4, <2>1, <2>3
  <2>4. QED BY <1>6, <2>2, <2>3
<1>7a. DOMAIN report' = Wishes BY <1>6 DEF ErasureInv, ErasureTypes
<1>8. ErasureTypes' /\ eraser'[e] = NoExecution /\ (\A f \in Erasers \ {e} : eraser'[f] = eraser[f])
      /\ \A f \in Erasers \ {e} : \A p : AtWork(f, p)' <=> AtWork(f, p)
  BY <1>1, <1>2, <1>7, <1>7a, EraserMoves DEF ErasureInv, ErasureTypes
<1>9. eraser'[e].phase = "idle" /\ \A p : ~AtWork(e, p)' BY <1>8 DEF AtWork, NoExecution
<1>10. ChecksWereMade'
  BY <1>1, <1>2, <1>5, <1>7, <1>8, <1>9 DEF ErasureInv, ChecksWereMade
<1>11. WithdrawalHolds' BY <1>1, <1>5, <1>7, <1>8, <1>9 DEF ErasureInv, WithdrawalHolds
<1>12. CascadesAreCounted' BY <1>1, <1>8, <1>9 DEF ErasureInv, CascadesAreCounted
<1>13. ReportIsTrue'
  <2>1. CASE UNCHANGED <<dsr, report>> BY <1>1, <2>1 DEF ErasureInv, ErasureIsSound, ReportIsTrue
  <2>2. CASE eraser[e].phase = "done" /\ dsr' = [dsr EXCEPT ![q] = "COMPLETED"]
             /\ report' = [report EXCEPT ![q] = eraser[e].rows]
    <3>1. \A p \in Deletions \ {q} : report'[p] = report[p] /\ dsr'[p] = dsr[p]
      <4>1. \A p \in Deletions : p \in Wishes BY ErasureConstants
      <4>2. QED BY <1>7, <2>2, <4>1
    <3>2. q \in Deletions => cascades[q] > 0 /\ (cascades[q] = 1 => eraser[e].rows = purged[q])
      BY <2>2 DEF ErasureInv, CascadesAreCounted
    <3>3. q \in Deletions => report'[q] = eraser[e].rows
      <4>1. DOMAIN report = Wishes BY DEF ErasureInv, ErasureTypes
      <4>2. QED BY <1>4, <2>2, <4>1
    <3>4. QED BY <1>1, <3>1, <3>2, <3>3 DEF ErasureInv, ErasureIsSound, ReportIsTrue
  <2>3. QED BY <1>6, <2>1, <2>2
<1>14. ErasureIsAuthorised' BY <1>1 DEF ErasureInv, ErasureIsSound, ErasureIsAuthorised
<1>15. QED BY <1>8, <1>10, <1>11, <1>12, <1>13, <1>14 DEF ErasureInv, ErasureIsSound

LEMMA ErasureStepInv == ASSUME ErasureInv, [ErasureNext]_erasureVars PROVE ErasureInv'
  BY QuietInv, CounterInv, PassInv, ReadInv, RunningInv, CascadeInv, ExportInv, LetGoInv
  DEF ErasureNext, Executing

\* Whoever asks, cancels, rejects and executes at once, and whatever fails in
\* between, a cascade runs only for a request that was verified and whose time
\* had come, and a deletion's report counts what its one cascade took.
THEOREM ErasureAlwaysSound == ErasureSpec => []ErasureIsSound
<1>1. ErasureInv => ErasureIsSound BY DEF ErasureInv
<1>2. QED BY <1>1, ErasureInitInv, ErasureStepInv, PTL DEF ErasureSpec
=============================================================================
