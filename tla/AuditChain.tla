----------------------------- MODULE AuditChain -----------------------------
(***************************************************************************)
(* The hash-chained audit log of one shop (AuditService, verifyAuditChain, *)
(* the integrity job of the workers, and the erasure that rewrites         *)
(* payloads).                                                              *)
(*                                                                         *)
(* Every state change of the program appends inside its own transaction,   *)
(* so several are open at once.  The first append of a transaction takes   *)
(* the shop's advisory lock, which the transaction keeps to its end; the   *)
(* head cached in Redis is written before anybody knows whether the        *)
(* transaction commits.                                                    *)
(***************************************************************************)
EXTENDS Naturals, Sequences

CONSTANTS
  Writers,   \* transactions that append
  Subjects,  \* the customers the rows are about
  TailSize,  \* how many rows the integrity job looks at
  MaxRows    \* bound on the rows of the table, uncommitted ones included

ASSUME AuditConstants ==
  /\ TailSize \in Nat \ {0} /\ MaxRows \in Nat
  /\ "none" \notin Writers

VARIABLES
  chain,    \* audit_events, by seq, as committed
  mine,     \* mine[w]: the rows w's open transaction has inserted
  lock,     \* the transaction that has the shop's advisory lock
  cached,   \* the head in Redis: its seq and hash
  tampered  \* the integrity job has reported a broken chain

auditVars == <<chain, mine, lock, cached, tampered>>

NoWriter == "none"
Genesis == [seq |-> 0, hash |-> "genesis"]

\* computeAuditHash: equal for equal predecessors and facts, and for no others.
Hash(prev, seq, payload) == <<prev, seq, payload>>

\* A payload as it was written names its subject; a rewritten one does not.
Names(c) == [about |-> c, named |-> TRUE]
Pseudonym(c) == [about |-> c, named |-> FALSE]

AuditInit ==
  /\ chain = <<>> /\ mine = [w \in Writers |-> <<>>]
  /\ lock = NoWriter /\ cached = Genesis /\ tampered = FALSE
-----------------------------------------------------------------------------
(* append, and the transaction around it. *)

HeadOf(rows) == [seq |-> rows[Len(rows)].seq, hash |-> rows[Len(rows)].hash]

\* Mutant: an append in O(1), from the head in Redis.
HeadFromCache(w) == cached

\* loadHead: the table as the transaction sees it; the cache is compared, not used.
ChainHead(w) == LET seen == chain \o mine[w] IN IF seen = <<>> THEN Genesis ELSE HeadOf(seen)

\* The unique index on (shop, seq) is behind it; what it refuses rolls back.
AppendRow(w, c) ==
  LET seq == ChainHead(w).seq + 1
      row == [seq |-> seq, prev |-> ChainHead(w).hash,
              hash |-> Hash(ChainHead(w).hash, seq, Names(c)),
              payload |-> Names(c), redacted |-> FALSE] IN
  /\ lock \in {NoWriter, w}
  /\ Len(chain) + Len(mine[w]) < MaxRows
  /\ \A i \in 1..Len(chain) : chain[i].seq # seq
  /\ mine' = [mine EXCEPT ![w] = mine[w] \o <<row>>]
  /\ lock' = w
  /\ cached' = [seq |-> seq, hash |-> row.hash]
  /\ UNCHANGED <<chain, tampered>>

CommitAppends(w) ==
  /\ lock = w
  /\ chain' = chain \o mine[w]
  /\ mine' = [mine EXCEPT ![w] = <<>>]
  /\ lock' = NoWriter
  /\ UNCHANGED <<cached, tampered>>

\* Whatever else the transaction did has failed; Redis is not told.
RollBack(w) ==
  /\ lock = w
  /\ mine' = [mine EXCEPT ![w] = <<>>]
  /\ lock' = NoWriter
  /\ UNCHANGED <<chain, cached, tampered>>

\* The key expires, or a restore has refreshHeadCache read the table.
ForgetHead ==
  /\ cached' \in {Genesis} \cup (IF chain = <<>> THEN {} ELSE {HeadOf(chain)})
  /\ UNCHANGED <<chain, mine, lock, tampered>>
-----------------------------------------------------------------------------
(* The two verifiers, the job and the erasure. *)

ContentMatches(row) == row.hash = Hash(row.prev, row.seq, row.payload)

\* verifyAuditChain
Verifies(rows) ==
  \A i \in 1..Len(rows) :
    /\ rows[i].seq = i
    /\ rows[i].prev = IF i = 1 THEN Genesis.hash ELSE rows[i - 1].hash
    /\ ContentMatches(rows[i]) \/ rows[i].redacted

NewestRows(rows) ==
  IF Len(rows) <= TailSize THEN rows ELSE SubSeq(rows, Len(rows) - TailSize + 1, Len(rows))

\* verifyTail
TailVerifies(rows) ==
  LET tail == NewestRows(rows) IN
  \A i \in 1..Len(tail) :
    /\ i > 1 => tail[i].prev = tail[i - 1].hash
    /\ ContentMatches(tail[i])

\* Every event of the shop; a break throws, and the event's job fails with it.
CheckTail ==
  /\ tampered' = ~TailVerifies(chain)
  /\ UNCHANGED <<chain, mine, lock, cached>>

\* Mutant: the row is hashed anew with its payload.
RehashedRow(row) ==
  [row EXCEPT !.payload = Pseudonym(row.payload.about), !.redacted = TRUE,
              !.hash = Hash(row.prev, row.seq, Pseudonym(row.payload.about))]

RedactedRow(row) == [row EXCEPT !.payload = Pseudonym(row.payload.about), !.redacted = TRUE]

\* redact_audit_payloads.  Disabling the trigger locks the table against inserts,
\* so no transaction with uncommitted rows is open.
Redact(c) ==
  /\ \A w \in Writers : mine[w] = <<>>
  /\ \E i \in 1..Len(chain) : chain[i].payload = Names(c)
  /\ chain' = [i \in 1..Len(chain) |->
       IF chain[i].payload.about = c THEN RedactedRow(chain[i]) ELSE chain[i]]
  /\ UNCHANGED <<mine, lock, cached, tampered>>

AuditNext ==
  \/ \E w \in Writers : CommitAppends(w) \/ RollBack(w) \/ \E c \in Subjects : AppendRow(w, c)
  \/ ForgetHead \/ CheckTail
  \/ \E c \in Subjects : Redact(c)

AuditSpec == AuditInit /\ [][AuditNext]_auditVars
-----------------------------------------------------------------------------
(* Properties. *)

AuditTypeOK ==
  /\ Len(chain) \in 0..MaxRows
  /\ lock \in Writers \cup {NoWriter}
  /\ \A w \in Writers : mine[w] # <<>> => lock = w
  /\ tampered \in BOOLEAN

\* A full verification passes, whatever transactions interleave, roll back
\* after Redis has their head, or rewrite payloads: every row, in its place,
\* names the hash of the one before.
ChainVerifies ==
  /\ AuditTypeOK
  /\ \A i \in 1..Len(chain) :
       /\ chain[i].seq = i
       /\ chain[i].prev = IF i = 1 THEN Genesis.hash ELSE chain[i - 1].hash
       /\ chain[i].redacted \/ chain[i].hash = Hash(chain[i].prev, i, chain[i].payload)
  /\ Verifies(chain)

\* No committed row is ever taken out, moved or given another hash, so a
\* verification of last year's rows gives today the answer it gave then.
HistoryStands ==
  [][/\ Len(chain') >= Len(chain)
     /\ \A i \in 1..Len(chain) :
          /\ chain'[i].hash = chain[i].hash /\ chain'[i].prev = chain[i].prev
          /\ chain[i].redacted => chain'[i].redacted]_auditVars

\* The comment on the entry the verifiers read: the flag is carried through, or
\* "a lawfully redacted row reads as tampering".
ErasureIsNotTampering == tampered => ~Verifies(chain)
=============================================================================
