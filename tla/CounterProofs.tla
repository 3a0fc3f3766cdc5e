---------------------------- MODULE CounterProofs ----------------------------
(***************************************************************************)
(* The counter, for any number of visits, drafts, workers and advisors:    *)
(* how a visit's customer is asked about it, how a draft becomes a card,   *)
(* and how often and how close the customer is written to afterwards.      *)
(***************************************************************************)
EXTENDS FeedbackAsk, Intake, Retention, FiniteSetTheorems, TLAPS
-----------------------------------------------------------------------------
(* The feedback asks. *)

AskClaim == [of : Visited, reminder : BOOLEAN, late : {FALSE}]
Asker == [left : SUBSET AskClaim, of : Visited \cup {"none"}, reminder : BOOLEAN,
          phase : {"idle", "sending", "marking"}, late : {FALSE}]
Request == [status : {"none", "SCHEDULED", "ASKED", "ANSWERED", "EXPIRED"}, asked : BOOLEAN,
            reminded : BOOLEAN, sentiment : {"none", "POSITIVE", "NEUTRAL", "NEGATIVE"}]

FeedbackTypes ==
  /\ feedback \in [Visited -> Request]
  /\ asking \in [Sentinels -> Asker]
  /\ asks \in [Visited -> [ask : Nat, reminder : Nat]]
  /\ unheard \in [Visited -> Nat] /\ review \in [Visited -> Nat] /\ askFaults \in Nat

ClaimOf(f, k) == [of |-> f, reminder |-> k, late |-> FALSE]
Holds(w, f, k) ==
  \/ asking[w].phase = "sending" /\ asking[w].of = f /\ asking[w].reminder = k
  \/ ClaimOf(f, k) \in asking[w].left
Marks(w, f, k) == asking[w].phase = "marking" /\ asking[w].of = f /\ asking[w].reminder = k

Holders(f, k) == {w \in Sentinels : Holds(w, f, k)}
Markers(f, k) == {w \in Sentinels : Marks(w, f, k)}
Sent(f, k) == IF k THEN asks[f].reminder ELSE asks[f].ask
Marked(f, k) == IF k THEN feedback[f].reminded ELSE feedback[f].asked

\* A pass has a request once.
OneClaim(w) ==
  /\ \A c, d \in asking[w].left : c.of = d.of => c = d
  /\ asking[w].phase # "idle" =>
       asking[w].of \in Visited /\ \A c \in asking[w].left : c.of # asking[w].of

\* What was sent is about to be marked, has been marked, or was cut off; and the
\* workers that may still send have each claimed before the mark.
Counted(f, k) ==
  /\ Sent(f, k) + Cardinality(Holders(f, k)) <= Cardinality(Sentinels) + askFaults
  /\ ~Marked(f, k) => Sent(f, k) <= Cardinality(Markers(f, k)) + askFaults

FeedbackInv ==
  /\ FeedbackTypes
  /\ \A w \in Sentinels : OneClaim(w)
  /\ \A f \in Visited : unheard[f] = 0 /\ review[f] <= 1 /\ (~Answered(f) => review[f] = 0)
  /\ \A f \in Visited, k \in BOOLEAN : Counted(f, k)

LEMMA SentinelsFinite ==
  ASSUME NEW A \in SUBSET Sentinels
  PROVE  IsFiniteSet(A) /\ Cardinality(A) \in Nat /\ Cardinality(A) <= Cardinality(Sentinels)
         /\ Cardinality(Sentinels) \in Nat
  BY FeedbackConstants, FS_Subset, FS_CardinalityType

\* One worker more or less.
LEMMA OneWorker ==
  ASSUME NEW w \in Sentinels, NEW A \in SUBSET Sentinels, NEW B \in SUBSET Sentinels,
         \A v \in Sentinels \ {w} : v \in A <=> v \in B
  PROVE  /\ Cardinality(A) \in Nat /\ Cardinality(B) \in Nat
         /\ w \in A /\ w \in B => Cardinality(B) = Cardinality(A)
         /\ w \notin A /\ w \notin B => Cardinality(B) = Cardinality(A)
         /\ w \in A /\ w \notin B => Cardinality(B) = Cardinality(A) - 1
         /\ w \notin A /\ w \in B => Cardinality(B) = Cardinality(A) + 1
<1>1. Cardinality(A) \in Nat /\ Cardinality(B) \in Nat /\ IsFiniteSet(A) /\ IsFiniteSet(B) BY SentinelsFinite
<1>2. (w \in A <=> w \in B) => A = B OBVIOUS
<1>3. ASSUME w \in A, w \notin B PROVE Cardinality(B) = Cardinality(A) - 1
  <2>1. B = A \ {w} BY <1>3
  <2>2. QED BY <1>1, <1>3, <2>1, FS_RemoveElement
<1>4. ASSUME w \notin A, w \in B PROVE Cardinality(B) = Cardinality(A) + 1
  <2>1. B = A \cup {w} BY <1>4
  <2>2. QED BY <1>1, <1>4, <2>1, FS_AddElement
<1>5. QED BY <1>1, <1>2, <1>3, <1>4

LEMMA TwoGroups ==
  ASSUME NEW A \in SUBSET Sentinels, NEW B \in SUBSET Sentinels, A \cap B = {}
  PROVE  /\ Cardinality(A) \in Nat /\ Cardinality(B) \in Nat /\ Cardinality(Sentinels) \in Nat
         /\ Cardinality(A) + Cardinality(B) <= Cardinality(Sentinels)
<1>1. IsFiniteSet(A) /\ IsFiniteSet(B) /\ Cardinality(A) \in Nat /\ Cardinality(B) \in Nat
      /\ Cardinality(A \cup B) \in Nat /\ Cardinality(A \cup B) <= Cardinality(Sentinels)
      /\ Cardinality(Sentinels) \in Nat
  BY SentinelsFinite
<1>2. Cardinality(A \cap B) = 0 BY FS_EmptySet
<1>3. Cardinality(A \cup B) = Cardinality(A) + Cardinality(B) - Cardinality(A \cap B) BY <1>1, FS_Union
<1>4. QED BY <1>1, <1>2, <1>3

LEMMA HoldersAndMarkers ==
  ASSUME FeedbackInv, NEW f \in Visited, NEW k \in BOOLEAN
  PROVE  /\ Holders(f, k) \in SUBSET Sentinels /\ Markers(f, k) \in SUBSET Sentinels
         /\ Cardinality(Holders(f, k)) \in Nat /\ Cardinality(Markers(f, k)) \in Nat
         /\ Holders(f, k) \cap Markers(f, k) = {}
         /\ Cardinality(Holders(f, k)) + Cardinality(Markers(f, k)) <= Cardinality(Sentinels)
         /\ Cardinality(Sentinels) \in Nat /\ Sent(f, k) \in Nat /\ askFaults \in Nat
<1>1. Holders(f, k) \in SUBSET Sentinels /\ Markers(f, k) \in SUBSET Sentinels BY DEF Holders, Markers
<1>2. ASSUME NEW w \in Sentinels, Marks(w, f, k) PROVE ~Holds(w, f, k)
  BY <1>2 DEF FeedbackInv, OneClaim, Marks, Holds, ClaimOf
<1>3. Holders(f, k) \cap Markers(f, k) = {} BY <1>2 DEF Holders, Markers
<1>4. Sent(f, k) \in Nat /\ askFaults \in Nat BY DEF FeedbackInv, FeedbackTypes, Sent
<1>5. QED BY <1>1, <1>3, <1>4, TwoGroups

LEMMA FeedbackInitInv == FeedbackInit => FeedbackInv
<1>1. SUFFICES ASSUME FeedbackInit PROVE FeedbackInv OBVIOUS
<1>2. NotAsking \in Asker /\ NoRequest \in Request BY DEF NotAsking, Asker, NoRequest, Request
<1>3. FeedbackTypes
  <2>1. asks \in [Visited -> [ask : Nat, reminder : Nat]] BY <1>1 DEF FeedbackInit
  <2>2. QED BY <1>1, <1>2, <2>1 DEF FeedbackInit, FeedbackTypes
<1>4. \A w \in Sentinels : asking[w] = NotAsking BY <1>1 DEF FeedbackInit
<1>5. ASSUME NEW f \in Visited, NEW k \in BOOLEAN PROVE Counted(f, k)
  <2>1. Holders(f, k) = {} /\ Markers(f, k) = {} BY <1>4 DEF Holders, Markers, Holds, Marks, NotAsking
  <2>2. Sent(f, k) = 0 /\ askFaults = 0 BY <1>1 DEF FeedbackInit, Sent
  <2>3. Cardinality(Holders(f, k)) = 0 /\ Cardinality(Markers(f, k)) = 0 BY <2>1, FS_EmptySet
  <2>4. Cardinality(Sentinels) \in Nat BY SentinelsFinite
  <2>5. QED BY <2>2, <2>3, <2>4 DEF Counted
<1>6. QED BY <1>1, <1>3, <1>4, <1>5 DEF FeedbackInit, FeedbackInv, OneClaim, NotAsking

\* The steps of the visit and of the customer: no claim moves, and no mark is lost.
LEMMA AsksStand ==
  ASSUME FeedbackInv, UNCHANGED <<asking, asks, unheard, askFaults>>,
         feedback' \in [Visited -> Request], review' \in [Visited -> Nat],
         \A f \in Visited : /\ feedback'[f].asked = feedback[f].asked
                            /\ feedback'[f].reminded = feedback[f].reminded
                            /\ review'[f] <= 1 /\ (~Answered(f)' => review'[f] = 0)
  PROVE  FeedbackInv'
<1>1. FeedbackTypes' BY DEF FeedbackInv, FeedbackTypes
<1>2. \A w \in Sentinels : OneClaim(w)' BY DEF FeedbackInv, OneClaim
<1>3. ASSUME NEW f \in Visited, NEW k \in BOOLEAN PROVE Counted(f, k)'
  <2>1. Holders(f, k)' = Holders(f, k) /\ Markers(f, k)' = Markers(f, k)
    BY DEF Holders, Markers, Holds, Marks
  <2>2. Sent(f, k)' = Sent(f, k) /\ (Marked(f, k)' <=> Marked(f, k)) BY DEF Sent, Marked
  <2>3. Counted(f, k) BY DEF FeedbackInv
  <2>4. QED BY <2>1, <2>2, <2>3 DEF Counted
<1>4. QED BY <1>1, <1>2, <1>3 DEF FeedbackInv

LEMMA VisitInv ==
  ASSUME FeedbackInv,
         \/ \E f \in Visited : ScheduleAsk(f) \/ AskFallsDue(f) \/ AskGoesStale(f)
         \/ \E w \in Sentinels : ExpireAsks(w)
         \/ \E f \in Visited, s \in {"POSITIVE", "NEUTRAL", "NEGATIVE"}, r \in BOOLEAN : AnswerAsk(f, s, r)
         \/ UNCHANGED feedbackVars
  PROVE  FeedbackInv'
<1>1. ASSUME NEW f \in Visited, ScheduleAsk(f) PROVE FeedbackInv'
  <2>1. feedback' = [feedback EXCEPT ![f] = [feedback[f] EXCEPT !.status = "SCHEDULED"]]
        /\ feedback[f] \in Request
    BY <1>1 DEF ScheduleAsk, FeedbackInv, FeedbackTypes
  <2>2. [feedback[f] EXCEPT !.status = "SCHEDULED"] \in Request BY <2>1 DEF Request
  <2>3. feedback' \in [Visited -> Request] BY <2>1, <2>2 DEF FeedbackInv, FeedbackTypes
  <2>4. \A g \in Visited : /\ feedback'[g].asked = feedback[g].asked
                           /\ feedback'[g].reminded = feedback[g].reminded
                           /\ (Answered(g)' <=> Answered(g))
    BY <2>1 DEF FeedbackInv, FeedbackTypes, Answered, Request
  <2>5. QED BY <1>1, <2>3, <2>4, AsksStand DEF ScheduleAsk, FeedbackInv, FeedbackTypes
<1>2. CASE UNCHANGED <<feedback, asking, asks, unheard, review, askFaults>>
  BY <1>2, AsksStand DEF FeedbackInv, FeedbackTypes, Answered
<1>3. ASSUME NEW w \in Sentinels, ExpireAsks(w) PROVE FeedbackInv'
  <2>1. feedback' = [f \in Visited |->
          IF Silent(f) THEN [feedback[f] EXCEPT !.status = "EXPIRED"] ELSE feedback[f]]
    BY <1>3 DEF ExpireAsks
  <2>2. ASSUME NEW f \in Visited
        PROVE  /\ feedback'[f] \in Request /\ feedback'[f].asked = feedback[f].asked
               /\ feedback'[f].reminded = feedback[f].reminded /\ (Answered(f)' <=> Answered(f))
    <3>1. feedback[f] \in Request /\ feedback'[f] \in {feedback[f], [feedback[f] EXCEPT !.status = "EXPIRED"]}
      BY <2>1 DEF FeedbackInv, FeedbackTypes
    <3>2. QED BY <3>1 DEF Request, Answered
  <2>3. feedback' \in [Visited -> Request] BY <2>1, <2>2
  <2>4. QED BY <1>3, <2>2, <2>3, AsksStand DEF ExpireAsks, FeedbackInv, FeedbackTypes
<1>4. ASSUME NEW f \in Visited, NEW s \in {"POSITIVE", "NEUTRAL", "NEGATIVE"}, NEW r \in BOOLEAN,
             AnswerAsk(f, s, r)
      PROVE  FeedbackInv'
  <2> DEFINE y == [feedback[f] EXCEPT !.status = "ANSWERED", !.sentiment = s]
  <2>1. feedback' = [feedback EXCEPT ![f] = y] /\ feedback[f] \in Request
    BY <1>4 DEF AnswerAsk, FeedbackInv, FeedbackTypes
  <2>2. y \in Request /\ y.sentiment # "none" /\ y.asked = feedback[f].asked /\ y.reminded = feedback[f].reminded
    BY <2>1 DEF Request
  <2>3. feedback' \in [Visited -> Request] /\ feedback'[f] = y /\ \A g \in Visited \ {f} : feedback'[g] = feedback[g]
    BY <2>1, <2>2 DEF FeedbackInv, FeedbackTypes
  <2>4. review[f] = 0 /\ review \in [Visited -> Nat]
    BY <1>4 DEF AnswerAsk, FirstAnswer, FeedbackInv, FeedbackTypes
  <2>5. review' \in [Visited -> Nat] /\ review'[f] <= 1 /\ \A g \in Visited \ {f} : review'[g] = review[g]
    BY <1>4, <2>4 DEF AnswerAsk
  <2> HIDE DEF y
  <2>6. \A g \in Visited : /\ feedback'[g].asked = feedback[g].asked
                           /\ feedback'[g].reminded = feedback[g].reminded
                           /\ review'[g] <= 1 /\ (~Answered(g)' => review'[g] = 0)
    BY <2>2, <2>3, <2>5 DEF FeedbackInv, Answered
  <2>7. QED BY <1>4, <2>3, <2>5, <2>6, AsksStand DEF AnswerAsk
<1>5. QED BY <1>1, <1>2, <1>3, <1>4 DEF AskFallsDue, AskGoesStale, feedbackVars

OthersStay(w) == \A v \in Sentinels \ {w} : asking'[v] = asking[v]

\* One worker's claims move.
LEMMA AskerMoves ==
  ASSUME FeedbackInv, NEW w \in Sentinels, NEW x \in Asker, asking' = [asking EXCEPT ![w] = x]
  PROVE  /\ asking' \in [Sentinels -> Asker] /\ asking'[w] = x /\ OthersStay(w)
         /\ \A v \in Sentinels \ {w} : OneClaim(v)'
<1>1. asking' \in [Sentinels -> Asker] /\ asking'[w] = x
      /\ \A v \in Sentinels \ {w} : asking'[v] = asking[v]
  BY DEF FeedbackInv, FeedbackTypes
<1>2. QED BY <1>1 DEF OneClaim, OthersStay, FeedbackInv

\* The counts of one kind of ask, when one worker's part in it changes.
LEMMA CountMoves ==
  ASSUME NEW w \in Sentinels, NEW f \in Visited, NEW k \in BOOLEAN, OthersStay(w)
  PROVE  /\ (Holds(w, f, k)' <=> Holds(w, f, k))
              => Cardinality(Holders(f, k))' = Cardinality(Holders(f, k))
         /\ Holds(w, f, k) /\ ~Holds(w, f, k)'
              => Cardinality(Holders(f, k))' = Cardinality(Holders(f, k)) - 1
         /\ (Marks(w, f, k)' <=> Marks(w, f, k))
              => Cardinality(Markers(f, k))' = Cardinality(Markers(f, k))
         /\ Marks(w, f, k)' /\ ~Marks(w, f, k)
              => Cardinality(Markers(f, k))' = Cardinality(Markers(f, k)) + 1
         /\ ~Marks(w, f, k)' /\ Marks(w, f, k)
              => Cardinality(Markers(f, k))' = Cardinality(Markers(f, k)) - 1
<1> DEFINE A == Holders(f, k)
           B == Markers(f, k)
<1>1. A \in SUBSET Sentinels /\ A' \in SUBSET Sentinels /\ B \in SUBSET Sentinels /\ B' \in SUBSET Sentinels
  BY DEF Holders, Markers
<1>2. \A v \in Sentinels \ {w} : (v \in A <=> v \in A') /\ (v \in B <=> v \in B')
  BY DEF OthersStay, Holders, Markers, Holds, Marks
<1>3. /\ w \in A <=> Holds(w, f, k)
      /\ w \in A' <=> Holds(w, f, k)'
      /\ w \in B <=> Marks(w, f, k)
      /\ w \in B' <=> Marks(w, f, k)'
  BY DEF Holders, Markers
<1> HIDE DEF A, B
<1>4. /\ w \in A /\ w \in A' => Cardinality(A') = Cardinality(A)
      /\ w \notin A /\ w \notin A' => Cardinality(A') = Cardinality(A)
      /\ w \in A /\ w \notin A' => Cardinality(A') = Cardinality(A) - 1
  BY <1>1, <1>2, OneWorker
<1>5. /\ w \in B /\ w \in B' => Cardinality(B') = Cardinality(B)
      /\ w \notin B /\ w \notin B' => Cardinality(B') = Cardinality(B)
      /\ w \in B /\ w \notin B' => Cardinality(B') = Cardinality(B) - 1
      /\ w \notin B /\ w \in B' => Cardinality(B') = Cardinality(B) + 1
  BY <1>1, <1>2, OneWorker
<1>6. QED BY <1>3, <1>4, <1>5 DEF A, B

LEMMA ClaimAsksInv == ASSUME FeedbackInv, NEW w \in Sentinels, ClaimAsks(w) PROVE FeedbackInv'
<1> DEFINE due == {f \in Visited : DueAsk(f)}
           L == {ClaimOf(f, feedback[f].asked) : f \in due}
           x == [NotAsking EXCEPT !.left = L]
<1>1. asking[w] = NotAsking /\ UNCHANGED <<feedback, asks, unheard, review, askFaults>> BY DEF ClaimAsks
<1>2. \A f \in due : Answered(f) = FALSE BY DEF DueAsk, Answered
<1>3. L \in SUBSET AskClaim
  <2>1. \A f \in Visited : feedback[f].asked \in BOOLEAN BY DEF FeedbackInv, FeedbackTypes, Request
  <2>2. \A f \in Visited, k \in BOOLEAN : ClaimOf(f, k) \in AskClaim BY DEF ClaimOf, AskClaim
  <2>3. \A f \in due : f \in Visited /\ ClaimOf(f, feedback[f].asked) \in AskClaim BY <2>1, <2>2
  <2>4. QED BY <2>3
<1>4. asking' = [asking EXCEPT ![w] = x] /\ x \in Asker
  <2>1. {[of |-> f, reminder |-> feedback[f].asked, late |-> Answered(f)] : f \in due} = L
    BY <1>2 DEF ClaimOf
  <2>2. asking' = [asking EXCEPT ![w].left = L] BY <2>1 DEF ClaimAsks
  <2>3. asking' = [asking EXCEPT ![w] = x] BY <1>1, <2>2 DEF FeedbackInv, FeedbackTypes, NotAsking
  <2>4. x \in Asker BY <1>3 DEF NotAsking, Asker
  <2>5. QED BY <2>3, <2>4
<1>5. x.left = L /\ x.phase = "idle" BY DEF NotAsking
<1> HIDE DEF x
<1>6. /\ asking' \in [Sentinels -> Asker] /\ asking'[w] = x /\ OthersStay(w)
      /\ \A v \in Sentinels \ {w} : OneClaim(v)'
  BY <1>4, AskerMoves
<1>7. OneClaim(w)'
  <2>1. ASSUME NEW f \in due, NEW g \in due, ClaimOf(f, feedback[f].asked).of = ClaimOf(g, feedback[g].asked).of
        PROVE  f = g
    BY <2>1 DEF ClaimOf
  <2>2. \A c, d \in L : c.of = d.of => c = d BY <2>1
  <2>3. QED BY <1>5, <1>6, <2>2 DEF OneClaim
<1>8. FeedbackTypes' BY <1>1, <1>6 DEF FeedbackInv, FeedbackTypes
<1>9. ASSUME NEW f \in Visited, NEW k \in BOOLEAN PROVE Counted(f, k)'
  <2>1. ~Holds(w, f, k) /\ ~Marks(w, f, k) /\ ~Marks(w, f, k)'
    BY <1>1, <1>5, <1>6 DEF Holds, Marks, NotAsking
  <2>2. ASSUME Holds(w, f, k)' PROVE ~Marked(f, k)
    <3>1. ClaimOf(f, k) \in L BY <1>5, <1>6, <2>2 DEF Holds
    <3>2. PICK g \in due : ClaimOf(f, k) = ClaimOf(g, feedback[g].asked) BY <3>1
    <3>3. ClaimOf(f, k).of = ClaimOf(g, feedback[g].asked).of
          /\ ClaimOf(f, k).reminder = ClaimOf(g, feedback[g].asked).reminder
      BY <3>2
    <3>4. f = g /\ k = feedback[g].asked BY <3>3 DEF ClaimOf
    <3>5. QED BY <3>4 DEF DueAsk, Marked
  <2>3. Sent(f, k)' = Sent(f, k) /\ Marked(f, k)' = Marked(f, k) /\ askFaults' = askFaults
    BY <1>1 DEF Sent, Marked
  <2>4. Counted(f, k) BY DEF FeedbackInv
  <2> DEFINE H == Cardinality(Holders(f, k))
             M == Cardinality(Markers(f, k))
             G == Cardinality(Holders(f, k))'
             N == Cardinality(Markers(f, k))'
             S == Cardinality(Sentinels)
  <2>5. H \in Nat /\ M \in Nat /\ S \in Nat /\ Sent(f, k) \in Nat /\ askFaults \in Nat /\ H + M <= S
    BY HoldersAndMarkers
  <2>6. N = M BY <1>6, <2>1, CountMoves
  <2>7. CASE ~Holds(w, f, k)'
    <3>1. G = H BY <1>6, <2>1, <2>7, CountMoves
    <3>2. QED BY <2>3, <2>4, <2>6, <3>1 DEF Counted
  <2>8. CASE Holds(w, f, k)'
    <3>1. Holders(f, k)' \cap Markers(f, k) = {}
      <4>1. w \notin Markers(f, k) BY <2>1 DEF Markers
      <4>2. \A v \in Sentinels \ {w} : v \in Holders(f, k)' <=> v \in Holders(f, k)
        BY <1>6 DEF OthersStay, Holders, Holds
      <4>3. Holders(f, k) \cap Markers(f, k) = {} BY HoldersAndMarkers
      <4>4. Holders(f, k)' \subseteq Sentinels BY DEF Holders
      <4>5. QED BY <4>1, <4>2, <4>3, <4>4
    <3>2. Holders(f, k)' \in SUBSET Sentinels /\ Markers(f, k) \in SUBSET Sentinels BY DEF Holders, Markers
    <3>3. G \in Nat /\ G + M <= S BY <3>1, <3>2, TwoGroups
    <3>4. Sent(f, k) <= M + askFaults BY <2>2, <2>4, <2>8 DEF Counted
    <3>5. Sent(f, k) + G <= S + askFaults
      <4> HIDE DEF G, M, S
      <4> QED BY <2>5, <3>3, <3>4
    <3>6. QED BY <2>3, <2>6, <3>4, <3>5 DEF Counted
  <2>9. QED BY <2>7, <2>8
<1>10. QED BY <1>1, <1>6, <1>7, <1>8, <1>9 DEF FeedbackInv, Answered

LEMMA TakeAskInv == ASSUME FeedbackInv, NEW w \in Sentinels, TakeAsk(w) PROVE FeedbackInv'
<1>1. PICK c \in asking[w].left :
        /\ asking[w].phase = "idle"
        /\ asking' = [asking EXCEPT ![w] = [left |-> asking[w].left \ {c}, of |-> c.of,
                                            reminder |-> c.reminder, phase |-> "sending", late |-> c.late]]
  BY DEF TakeAsk
<1> DEFINE x == [left |-> asking[w].left \ {c}, of |-> c.of,
                 reminder |-> c.reminder, phase |-> "sending", late |-> c.late]
<1>2. UNCHANGED <<feedback, asks, unheard, review, askFaults>> BY DEF TakeAsk
<1>3. asking[w] \in Asker /\ c \in AskClaim BY <1>1 DEF FeedbackInv, FeedbackTypes, Asker
<1>4. x \in Asker BY <1>3 DEF Asker, AskClaim
<1>5. x.left = asking[w].left \ {c} /\ x.of = c.of /\ x.reminder = c.reminder /\ x.phase = "sending"
  OBVIOUS
<1>6. c = ClaimOf(c.of, c.reminder) BY <1>3 DEF AskClaim, ClaimOf
<1>7. asking' = [asking EXCEPT ![w] = x] BY <1>1
<1> HIDE DEF x
<1>8. /\ asking' \in [Sentinels -> Asker] /\ asking'[w] = x /\ OthersStay(w)
      /\ \A v \in Sentinels \ {w} : OneClaim(v)'
  BY <1>4, <1>7, AskerMoves
<1>9. OneClaim(w)'
  BY <1>1, <1>3, <1>5, <1>8 DEF OneClaim, FeedbackInv, AskClaim
<1>10. FeedbackTypes' BY <1>2, <1>8 DEF FeedbackInv, FeedbackTypes
<1>11. ASSUME NEW f \in Visited, NEW k \in BOOLEAN PROVE Counted(f, k)'
  <2>1. ~Marks(w, f, k) /\ ~Marks(w, f, k)' BY <1>1, <1>5, <1>8 DEF Marks
  <2>2. Holds(w, f, k)' <=> Holds(w, f, k)
    <3>1. Holds(w, f, k) <=> ClaimOf(f, k) \in asking[w].left BY <1>1 DEF Holds
    <3>2. Holds(w, f, k)' <=> (c.of = f /\ c.reminder = k) \/ ClaimOf(f, k) \in asking[w].left \ {c}
      BY <1>5, <1>8 DEF Holds
    <3>3. c = ClaimOf(f, k) <=> c.of = f /\ c.reminder = k BY <1>6 DEF ClaimOf
    <3>4. QED BY <1>1, <3>1, <3>2, <3>3
  <2>3. Cardinality(Holders(f, k))' = Cardinality(Holders(f, k))
        /\ Cardinality(Markers(f, k))' = Cardinality(Markers(f, k))
    BY <1>8, <2>1, <2>2, CountMoves
  <2>4. Sent(f, k)' = Sent(f, k) /\ Marked(f, k)' = Marked(f, k) /\ Counted(f, k)
    BY <1>2 DEF Sent, Marked, FeedbackInv
  <2>5. QED BY <1>2, <2>3, <2>4 DEF Counted
<1>12. QED BY <1>2, <1>8, <1>9, <1>10, <1>11 DEF FeedbackInv, Answered

LEMMA SendAskInv ==
  ASSUME FeedbackInv, NEW w \in Sentinels, NEW arrives \in BOOLEAN, SendAsk(w, arrives)
  PROVE  FeedbackInv'
<1> DEFINE a == asking[w]
           x == [a EXCEPT !.phase = "marking"]
<1>1. a \in Asker /\ a.phase = "sending" /\ OneClaim(w) BY DEF SendAsk, FeedbackInv, FeedbackTypes
<1>2. a.of \in Visited /\ a.reminder \in BOOLEAN /\ a.late = FALSE /\ \A c \in a.left : c.of # a.of
  BY <1>1 DEF OneClaim, Asker
<1>3. UNCHANGED <<feedback, unheard, review, askFaults>> BY <1>2 DEF SendAsk
<1>4. asking' = [asking EXCEPT ![w] = x] /\ x \in Asker
  BY <1>1 DEF SendAsk, Asker, FeedbackInv, FeedbackTypes
<1>5. x.left = a.left /\ x.of = a.of /\ x.reminder = a.reminder /\ x.phase = "marking"
  BY <1>1 DEF Asker
<1> HIDE DEF x
<1>6. /\ asking' \in [Sentinels -> Asker] /\ asking'[w] = x /\ OthersStay(w)
      /\ \A v \in Sentinels \ {w} : OneClaim(v)'
  BY <1>4, AskerMoves
<1>7. OneClaim(w)' BY <1>1, <1>2, <1>5, <1>6 DEF OneClaim
<1>8. asks' \in [Visited -> [ask : Nat, reminder : Nat]]
      /\ \A f \in Visited, k \in BOOLEAN :
           Sent(f, k)' = Sent(f, k) \/ (Sent(f, k)' = Sent(f, k) + 1 /\ f = a.of /\ k = a.reminder)
  <2>1. asks[a.of] \in [ask : Nat, reminder : Nat] BY <1>2 DEF FeedbackInv, FeedbackTypes
  <2>2. CASE ~arrives BY <2>2 DEF SendAsk, Sent, FeedbackInv, FeedbackTypes
  <2>3. CASE arrives /\ a.reminder
    <3> DEFINE y == [asks[a.of] EXCEPT !.reminder = asks[a.of].reminder + 1]
    <3>1. asks' = [asks EXCEPT ![a.of] = y]
      BY <2>3 DEF SendAsk, FeedbackInv, FeedbackTypes
    <3>2. y \in [ask : Nat, reminder : Nat] /\ y.ask = asks[a.of].ask
          /\ y.reminder = asks[a.of].reminder + 1
      BY <2>1
    <3> HIDE DEF y
    <3>3. asks' \in [Visited -> [ask : Nat, reminder : Nat]] /\ asks'[a.of] = y
          /\ \A f \in Visited \ {a.of} : asks'[f] = asks[f]
      BY <1>2, <3>1, <3>2 DEF FeedbackInv, FeedbackTypes
    <3>4. QED BY <2>3, <3>2, <3>3 DEF Sent
  <2>4. CASE arrives /\ ~a.reminder
    <3> DEFINE y == [asks[a.of] EXCEPT !.ask = asks[a.of].ask + 1]
    <3>1. asks' = [asks EXCEPT ![a.of] = y]
      BY <2>4 DEF SendAsk, FeedbackInv, FeedbackTypes
    <3>2. y \in [ask : Nat, reminder : Nat] /\ y.reminder = asks[a.of].reminder
          /\ y.ask = asks[a.of].ask + 1
      BY <2>1
    <3> HIDE DEF y
    <3>3. asks' \in [Visited -> [ask : Nat, reminder : Nat]] /\ asks'[a.of] = y
          /\ \A f \in Visited \ {a.of} : asks'[f] = asks[f]
      BY <1>2, <3>1, <3>2 DEF FeedbackInv, FeedbackTypes
    <3>4. QED BY <1>2, <2>4, <3>2, <3>3 DEF Sent
  <2>5. QED BY <2>2, <2>3, <2>4
<1>9. FeedbackTypes' BY <1>3, <1>6, <1>8 DEF FeedbackInv, FeedbackTypes
<1>10. ASSUME NEW f \in Visited, NEW k \in BOOLEAN PROVE Counted(f, k)'
  <2> DEFINE H == Cardinality(Holders(f, k))
             M == Cardinality(Markers(f, k))
             G == Cardinality(Holders(f, k))'
             N == Cardinality(Markers(f, k))'
             S == Cardinality(Sentinels)
  <2>1. H \in Nat /\ M \in Nat /\ S \in Nat /\ Sent(f, k) \in Nat /\ askFaults \in Nat /\ H + M <= S
    BY HoldersAndMarkers
  <2>2. Counted(f, k) /\ Marked(f, k)' = Marked(f, k) BY <1>3 DEF FeedbackInv, Marked
  <2>3. ClaimOf(f, k) \in a.left => a.of # f BY <1>2 DEF ClaimOf
  <2>4. CASE f = a.of /\ k = a.reminder
    <3>1. Holds(w, f, k) /\ ~Holds(w, f, k)' /\ ~Marks(w, f, k) /\ Marks(w, f, k)'
      BY <1>1, <1>5, <1>6, <2>3, <2>4 DEF Holds, Marks
    <3>2. G = H - 1 /\ N = M + 1 BY <1>6, <3>1, CountMoves
    <3>3. Sent(f, k)' = Sent(f, k) \/ Sent(f, k)' = Sent(f, k) + 1 BY <1>8
    <3>4. Sent(f, k)' + G <= S + askFaults
      <4>1. Sent(f, k) + H <= S + askFaults BY <2>2 DEF Counted
      <4> HIDE DEF G, H, S
      <4>2. QED BY <2>1, <3>2, <3>3, <4>1
    <3>5. ASSUME ~Marked(f, k)' PROVE Sent(f, k)' <= N + askFaults
      <4>1. Sent(f, k) <= M + askFaults BY <2>2, <3>5 DEF Counted
      <4> HIDE DEF M, N
      <4>2. QED BY <2>1, <3>2, <3>3, <4>1
    <3>6. QED BY <1>3, <3>4, <3>5 DEF Counted
  <2>5. CASE ~(f = a.of /\ k = a.reminder)
    <3>1. (Holds(w, f, k)' <=> Holds(w, f, k)) /\ ~Marks(w, f, k) /\ ~Marks(w, f, k)'
      BY <1>1, <1>5, <1>6, <2>5 DEF Holds, Marks
    <3>2. G = H /\ N = M BY <1>6, <3>1, CountMoves
    <3>3. Sent(f, k)' = Sent(f, k) BY <1>8, <2>5
    <3>4. QED BY <1>3, <2>2, <3>2, <3>3 DEF Counted
  <2>6. QED BY <2>4, <2>5
<1>11. QED BY <1>3, <1>6, <1>7, <1>9, <1>10 DEF FeedbackInv, Answered

LEMMA MarkAskedInv == ASSUME FeedbackInv, NEW w \in Sentinels, MarkAsked(w) PROVE FeedbackInv'
<1> DEFINE a == asking[w]
           x == [NotAsking EXCEPT !.left = a.left]
           b == feedback[a.of]
           y == [status |-> "ASKED", asked |-> b.asked \/ ~a.reminder,
                 reminded |-> b.reminded \/ a.reminder, sentiment |-> b.sentiment]
<1>1. a \in Asker /\ a.phase = "marking" /\ OneClaim(w) BY DEF MarkAsked, FeedbackInv, FeedbackTypes
<1>2. a.of \in Visited /\ a.reminder \in BOOLEAN /\ \A c \in a.left : c.of # a.of
  BY <1>1 DEF OneClaim, Asker
<1>3. UNCHANGED <<asks, unheard, review, askFaults>> /\ asking' = [asking EXCEPT ![w] = x]
      /\ feedback' = [feedback EXCEPT ![a.of] = y]
  BY DEF MarkAsked
<1>4. x \in Asker /\ x.left = a.left /\ x.phase = "idle" BY <1>1 DEF Asker, NotAsking
<1>5. b \in Request BY <1>2 DEF FeedbackInv, FeedbackTypes
<1>6. y \in Request /\ y.sentiment = b.sentiment
      /\ (y.asked <=> b.asked \/ ~a.reminder) /\ (y.reminded <=> b.reminded \/ a.reminder)
  <2>1. PICK p \in BOOLEAN : p = (b.asked \/ ~a.reminder) OBVIOUS
  <2>2. PICK q \in BOOLEAN : q = (b.reminded \/ a.reminder) OBVIOUS
  <2>3. y = [status |-> "ASKED", asked |-> p, reminded |-> q, sentiment |-> b.sentiment] BY <2>1, <2>2
  <2>4. QED BY <1>5, <2>1, <2>2, <2>3 DEF Request
<1> HIDE DEF x, y
<1>7. feedback' \in [Visited -> Request] /\ feedback'[a.of] = y
      /\ \A f \in Visited \ {a.of} : feedback'[f] = feedback[f]
  BY <1>2, <1>3, <1>6 DEF FeedbackInv, FeedbackTypes
<1>8. /\ asking' \in [Sentinels -> Asker] /\ asking'[w] = x /\ OthersStay(w)
      /\ \A v \in Sentinels \ {w} : OneClaim(v)'
  BY <1>3, <1>4, AskerMoves
<1>9. OneClaim(w)' BY <1>1, <1>4, <1>8 DEF OneClaim
<1>10. FeedbackTypes' BY <1>3, <1>7, <1>8 DEF FeedbackInv, FeedbackTypes
<1>11. \A f \in Visited : Answered(f)' <=> Answered(f) BY <1>6, <1>7 DEF Answered
<1>12. ASSUME NEW f \in Visited, NEW k \in BOOLEAN PROVE Counted(f, k)'
  <2> DEFINE H == Cardinality(Holders(f, k))
             M == Cardinality(Markers(f, k))
             G == Cardinality(Holders(f, k))'
             N == Cardinality(Markers(f, k))'
  <2>1. Counted(f, k) /\ Sent(f, k)' = Sent(f, k) /\ (Marked(f, k) => Marked(f, k)')
    BY <1>3, <1>6, <1>7 DEF FeedbackInv, Sent, Marked
  <2>2. Holds(w, f, k)' <=> Holds(w, f, k) BY <1>1, <1>4, <1>8 DEF Holds
  <2>3. G = H BY <1>8, <2>2, CountMoves
  <2>4. ~Marks(w, f, k)' BY <1>4, <1>8 DEF Marks
  <2>5. CASE f = a.of /\ k = a.reminder
    <3>1. Marked(f, k)' BY <1>2, <1>6, <1>7, <2>5 DEF Marked
    <3>2. QED BY <1>3, <2>1, <2>3, <3>1 DEF Counted
  <2>6. CASE ~(f = a.of /\ k = a.reminder)
    <3>1. ~Marks(w, f, k) BY <2>6 DEF Marks
    <3>2. N = M BY <1>8, <2>4, <3>1, CountMoves
    <3>3. QED BY <1>3, <2>1, <2>3, <3>2 DEF Counted
  <2>7. QED BY <2>5, <2>6
<1>13. QED BY <1>3, <1>8, <1>9, <1>10, <1>11, <1>12 DEF FeedbackInv

\* A request put back unasked is one hold less, and nothing else.
LEMMA NoThreadInv == ASSUME FeedbackInv, NEW w \in Sentinels, NoThread(w) PROVE FeedbackInv'
<1> DEFINE a == asking[w]
           x == [NotAsking EXCEPT !.left = a.left]
<1>1. a \in Asker /\ a.phase = "sending" /\ OneClaim(w) BY DEF NoThread, FeedbackInv, FeedbackTypes
<1>2. UNCHANGED <<feedback, asks, unheard, review, askFaults>> /\ asking' = [asking EXCEPT ![w] = x]
  BY DEF NoThread
<1>3. /\ x \in Asker /\ x.left = a.left /\ x.phase = "idle" /\ x.late = FALSE
  BY <1>1 DEF NotAsking, Asker
<1> HIDE DEF x
<1>4. /\ asking' \in [Sentinels -> Asker] /\ asking'[w] = x /\ OthersStay(w)
      /\ \A v \in Sentinels \ {w} : OneClaim(v)'
  BY <1>2, <1>3, AskerMoves
<1>5. OneClaim(w)' BY <1>1, <1>3, <1>4 DEF OneClaim
<1>6. FeedbackTypes' BY <1>2, <1>4 DEF FeedbackInv, FeedbackTypes
<1>7. ASSUME NEW f \in Visited, NEW k \in BOOLEAN PROVE Counted(f, k)'
  <2> DEFINE H == Cardinality(Holders(f, k))
             M == Cardinality(Markers(f, k))
             G == Cardinality(Holders(f, k))'
             N == Cardinality(Markers(f, k))'
             S == Cardinality(Sentinels)
  <2>1. H \in Nat /\ M \in Nat /\ S \in Nat /\ Sent(f, k) \in Nat /\ askFaults \in Nat
    BY HoldersAndMarkers
  <2>2. Counted(f, k) /\ Sent(f, k)' = Sent(f, k) /\ Marked(f, k)' = Marked(f, k)
    BY <1>2 DEF FeedbackInv, Sent, Marked
  <2>3. /\ Holds(w, f, k)' => Holds(w, f, k)
        /\ ~Marks(w, f, k) /\ ~Marks(w, f, k)'
    BY <1>1, <1>3, <1>4 DEF Holds, Marks
  <2>4. (G = H \/ G = H - 1) /\ N = M BY <1>4, <2>3, CountMoves
  <2>5. Sent(f, k) + G <= S + askFaults
    <3>1. Sent(f, k) + H <= S + askFaults BY <2>2 DEF Counted
    <3> HIDE DEF G, H, S
    <3>2. QED BY <2>1, <2>4, <3>1
  <2>6. ASSUME ~Marked(f, k) PROVE Sent(f, k) <= N + askFaults
    BY <2>2, <2>4, <2>6 DEF Counted
  <2>7. QED BY <1>2, <2>2, <2>5, <2>6 DEF Counted
<1>8. QED BY <1>2, <1>3, <1>4, <1>5, <1>6, <1>7 DEF FeedbackInv, Answered

LEMMA CutOffInv == ASSUME FeedbackInv, NEW w \in Sentinels, AskCutOff(w) PROVE FeedbackInv'
<1>1. UNCHANGED <<feedback, asks, unheard, review>> /\ asking' = [asking EXCEPT ![w] = NotAsking]
      /\ askFaults' = askFaults + 1
  BY DEF AskCutOff
<1>2. NotAsking \in Asker BY DEF NotAsking, Asker
<1>3. /\ asking' \in [Sentinels -> Asker] /\ asking'[w] = NotAsking /\ OthersStay(w)
      /\ \A v \in Sentinels \ {w} : OneClaim(v)'
  BY <1>1, <1>2, AskerMoves
<1>4. OneClaim(w)' BY <1>3 DEF OneClaim, NotAsking
<1>5. FeedbackTypes' BY <1>1, <1>3 DEF FeedbackInv, FeedbackTypes
<1>6. ASSUME NEW f \in Visited, NEW k \in BOOLEAN PROVE Counted(f, k)'
  <2> DEFINE H == Cardinality(Holders(f, k))
             M == Cardinality(Markers(f, k))
             G == Cardinality(Holders(f, k))'
             N == Cardinality(Markers(f, k))'
             S == Cardinality(Sentinels)
  <2>1. H \in Nat /\ M \in Nat /\ S \in Nat /\ Sent(f, k) \in Nat /\ askFaults \in Nat
    BY HoldersAndMarkers
  <2>2. Counted(f, k) /\ Sent(f, k)' = Sent(f, k) /\ Marked(f, k)' = Marked(f, k)
    BY <1>1 DEF FeedbackInv, Sent, Marked
  <2>3. ~Holds(w, f, k)' /\ ~Marks(w, f, k)' BY <1>3 DEF Holds, Marks, NotAsking
  <2>4. (G = H \/ G = H - 1) /\ (N = M \/ N = M - 1) BY <1>3, <2>3, CountMoves
  <2>5. Sent(f, k) + G <= S + askFaults + 1
    <3>1. Sent(f, k) + H <= S + askFaults BY <2>2 DEF Counted
    <3> HIDE DEF G, H, S
    <3>2. QED BY <2>1, <2>4, <3>1
  <2>6. ASSUME ~Marked(f, k) PROVE Sent(f, k) <= N + (askFaults + 1)
    <3>1. Sent(f, k) <= M + askFaults BY <2>2, <2>6 DEF Counted
    <3> HIDE DEF M, N
    <3>2. QED BY <2>1, <2>4, <3>1
  <2>7. Sent(f, k) + G <= S + (askFaults + 1)
    <3> HIDE DEF G, S
    <3> QED BY <2>1, <2>5
  <2>8. QED BY <1>1, <2>2, <2>6, <2>7 DEF Counted
<1>7. QED BY <1>1, <1>3, <1>4, <1>5, <1>6 DEF FeedbackInv, Answered

LEMMA FeedbackStepInv == ASSUME FeedbackInv, [FeedbackNext]_feedbackVars PROVE FeedbackInv'
  BY VisitInv, ClaimAsksInv, TakeAskInv, SendAskInv, NoThreadInv, MarkAskedInv, CutOffInv DEF FeedbackNext, Asking

\* However many workers pass over the requests at once, a customer is asked and
\* reminded at most once for each of them and each fault, never by a pass that
\* begins after the answer, and asked for a review at most once.
THEOREM AsksAlwaysFair == FeedbackSpec => []AsksAreFair
<1>1. ASSUME FeedbackInv PROVE AsksAreFair
  <2>1. ASSUME NEW f \in Visited, NEW k \in BOOLEAN
        PROVE  Sent(f, k) <= Cardinality(Sentinels) + askFaults
    <3> DEFINE H == Cardinality(Holders(f, k))
               S == Cardinality(Sentinels)
    <3>1. H \in Nat /\ S \in Nat /\ Sent(f, k) \in Nat /\ askFaults \in Nat BY <1>1, HoldersAndMarkers
    <3>2. Sent(f, k) + H <= S + askFaults BY <1>1 DEF FeedbackInv, Counted
    <3> HIDE DEF H
    <3>3. QED BY <3>1, <3>2
  <2>2. ASSUME NEW f \in Visited
        PROVE  /\ asks[f].ask <= Cardinality(Sentinels) + askFaults
               /\ asks[f].reminder <= Cardinality(Sentinels) + askFaults
    <3>1. Sent(f, TRUE) = asks[f].reminder /\ Sent(f, FALSE) = asks[f].ask BY DEF Sent
    <3>2. QED BY <2>1, <3>1
  <2>3. QED BY <1>1, <2>2 DEF FeedbackInv, AsksAreFair, AskedOncePerPass, AnswerEndsTheAsk
<1>2. QED BY <1>1, FeedbackInitInv, FeedbackStepInv, PTL DEF FeedbackSpec
-----------------------------------------------------------------------------
(* The drafts of the counter. *)

Draft == [status : {"none", "AWAITING_CONFIRMATION", "CONFIRMED", "DISCARDED"}, content : Nat, code : Nat]
Visit == [code : Nat, draft : Drafts, content : Nat, state : {"DRAFT", "OPEN"}]
Confirmation == [at : {"idle", "locked", "resolved", "numbered", "opening"}, draft : Drafts \cup {"none"},
                 fresh : BOOLEAN, code : Nat, content : Nat]

IntakeTypes ==
  /\ draft \in [Drafts -> Draft]
  /\ visits \subseteq Visit /\ IsFiniteSet(visits)
  /\ confirming \in [Confirmers -> Confirmation]
  /\ \A k \in Confirmers : confirming[k].at # "idle" => confirming[k].draft \in Drafts

CodesAreUnique == \A v, w \in visits : v.code = w.code => v = w

\* A transaction has its draft to itself and unchanged, and the next code with it.
LocksHold ==
  /\ \A k \in Confirmers : InTransaction(k) =>
       /\ draft[confirming[k].draft].status = "AWAITING_CONFIRMATION"
       /\ draft[confirming[k].draft].content = confirming[k].content
  /\ \A j, k \in Confirmers :
       InTransaction(j) /\ InTransaction(k) /\ confirming[j].draft = confirming[k].draft => j = k
  /\ \A j, k \in Confirmers : HoldsCodes(j) /\ HoldsCodes(k) => j = k
  /\ \A k \in Confirmers : HoldsCodes(k) => confirming[k].code = LastCode + 1

IntakeInv == IntakeTypes /\ CodesAreUnique /\ LocksHold /\ OneCardPerDraft /\ CodesAreContiguous

\* The last code is the number of cards, until four digits are used up.
LEMMA LastCodeIs ==
  ASSUME NEW n \in Nat, Codes = 1..n, n <= LastPadded + 1
  PROVE  LastCode = IF n <= LastPadded THEN n ELSE LastPadded
<1>1. LastPadded \in Nat /\ LastPadded >= 1 BY IntakeConstants
<1>2. CASE n = 0
  <2>1. Codes = {} BY <1>2
  <2>2. QED BY <1>1, <1>2, <2>1 DEF LastCode
<1>3. CASE n >= LastPadded
  <2>1. LastPadded \in Codes BY <1>1, <1>3
  <2>2. LastCode = LastPadded BY <2>1 DEF LastCode
  <2>3. QED BY <1>1, <1>3, <2>2
<1>4. CASE n > 0 /\ n < LastPadded
  <2> DEFINE padded == {c \in Codes : c <= LastPadded}
  <2>1. Codes # {} /\ LastPadded \notin Codes BY <1>1, <1>4
  <2>2. n \in padded /\ \A x \in padded : x <= n BY <1>1, <1>4
  <2>3. \A c \in padded : c \in Nat BY <1>1
  <2>4. LastCode = CHOOSE c \in padded : \A x \in padded : x <= c BY <2>1 DEF LastCode
  <2> HIDE DEF padded
  <2>5. LastCode \in padded /\ \A x \in padded : x <= LastCode BY <2>2, <2>4
  <2>6. LastCode \in Nat /\ n <= LastCode /\ LastCode <= n BY <2>2, <2>3, <2>5
  <2>7. QED BY <1>1, <1>4, <2>6
<1>5. QED BY <1>1, <1>2, <1>3, <1>4

LEMMA LastCodeNow ==
  ASSUME IntakeInv
  PROVE  /\ Cardinality(visits) \in Nat /\ LastCode \in Nat
         /\ LastCode = IF Cardinality(visits) <= LastPadded THEN Cardinality(visits) ELSE LastPadded
  BY LastCodeIs, FS_CardinalityType, IntakeConstants DEF IntakeInv, IntakeTypes, CodesAreContiguous

LEMMA IntakeInitInv == IntakeInit => IntakeInv
<1>1. SUFFICES ASSUME IntakeInit PROVE IntakeInv OBVIOUS
<1>2. visits = {} /\ IsFiniteSet(visits) /\ Cardinality(visits) = 0 /\ Codes = {}
  BY <1>1, FS_EmptySet DEF IntakeInit, Codes
<1>3. \A k \in Confirmers : confirming[k] = NotConfirming BY <1>1 DEF IntakeInit
<1>4. NoDraft \in Draft /\ NotConfirming \in Confirmation BY DEF NoDraft, Draft, NotConfirming, Confirmation
<1>5. IntakeTypes BY <1>1, <1>2, <1>3, <1>4 DEF IntakeInit, IntakeTypes, NotConfirming
<1>6. LocksHold BY <1>3 DEF LocksHold, InTransaction, HoldsCodes, NotConfirming
<1>7. CodesAreContiguous
  <2>1. 1..0 = {} OBVIOUS
  <2>2. QED BY <1>2, <2>1, IntakeConstants DEF CodesAreContiguous
<1>8. QED BY <1>2, <1>5, <1>6, <1>7 DEF IntakeInv, CodesAreUnique, OneCardPerDraft

\* A draft no transaction holds, and no card came of unless it stays what it is, moves.
LEMMA DraftMoves ==
  ASSUME IntakeInv, NEW d \in Drafts, NEW y \in Draft, draft' = [draft EXCEPT ![d] = y],
         UNCHANGED <<visits, confirming>>,
         \A k \in Confirmers : InTransaction(k) => confirming[k].draft # d,
         \/ draft[d].status \notin {"CONFIRMED", "DISCARDED"}
         \/ y.content = draft[d].content /\ y.status = "DISCARDED"
  PROVE  IntakeInv'
<1>1. draft' \in [Drafts -> Draft] /\ draft'[d] = y /\ \A e \in Drafts \ {d} : draft'[e] = draft[e]
  BY DEF IntakeInv, IntakeTypes
<1>2. IntakeTypes' BY <1>1 DEF IntakeInv, IntakeTypes
<1>3. CodesAreUnique' /\ CodesAreContiguous'
  BY DEF IntakeInv, CodesAreUnique, CodesAreContiguous, Codes
<1>4. LastCode' = LastCode BY DEF LastCode, Codes
<1>5. \A k \in Confirmers : InTransaction(k) => confirming[k].draft \in Drafts
  BY DEF IntakeInv, IntakeTypes, InTransaction
<1>6. LocksHold' BY <1>1, <1>4, <1>5 DEF IntakeInv, LocksHold, InTransaction, HoldsCodes
<1>7. OneCardPerDraft'
  <2>1. ASSUME NEW v \in visits
        PROVE v.content = draft'[v.draft].content /\ draft'[v.draft].status \in {"CONFIRMED", "DISCARDED"}
    <3>1. v.draft \in Drafts BY DEF IntakeInv, IntakeTypes, Visit
    <3>2. v.content = draft[v.draft].content /\ draft[v.draft].status \in {"CONFIRMED", "DISCARDED"}
      BY DEF IntakeInv, OneCardPerDraft
    <3>3. QED BY <1>1, <3>1, <3>2
  <2>2. QED BY <2>1 DEF IntakeInv, OneCardPerDraft
<1>8. QED BY <1>2, <1>3, <1>6, <1>7 DEF IntakeInv

LEMMA DraftInv ==
  ASSUME IntakeInv, NEW d \in Drafts, RecordDraft(d) \/ Correct(d) \/ DiscardDraft(d) PROVE IntakeInv'
<1>1. draft[d] \in Draft /\ draft[d].content \in Nat BY DEF IntakeInv, IntakeTypes, Draft
<1>2. CASE RecordDraft(d)
  <2>1. draft' = [draft EXCEPT ![d] = [draft[d] EXCEPT !.status = "AWAITING_CONFIRMATION"]]
    BY <1>2 DEF RecordDraft, IntakeInv, IntakeTypes
  <2>2. [draft[d] EXCEPT !.status = "AWAITING_CONFIRMATION"] \in Draft BY <1>1 DEF Draft
  <2>3. draft[d].status = "none" BY <1>2 DEF RecordDraft, NoDraft
  <2>4. \A k \in Confirmers : InTransaction(k) => confirming[k].draft # d
    BY <2>3 DEF IntakeInv, LocksHold
  <2>5. QED BY <1>2, <2>1, <2>2, <2>3, <2>4, DraftMoves DEF RecordDraft
<1>3. CASE Correct(d)
  <2>1. draft' = [draft EXCEPT ![d] = [draft[d] EXCEPT !.content = draft[d].content + 1]]
    BY <1>3 DEF Correct, IntakeInv, IntakeTypes
  <2>2. [draft[d] EXCEPT !.content = draft[d].content + 1] \in Draft BY <1>1 DEF Draft
  <2>3. QED BY <1>3, <2>1, <2>2, DraftMoves DEF Correct, MayCorrect, RowLocked
<1>4. CASE DiscardDraft(d)
  <2> DEFINE y == [draft[d] EXCEPT !.status = "DISCARDED", !.code = 0]
  <2>1. draft' = [draft EXCEPT ![d] = y] BY <1>4 DEF DiscardDraft, IntakeInv, IntakeTypes
  <2>2. y \in Draft /\ y.content = draft[d].content /\ y.status = "DISCARDED" BY <1>1 DEF Draft
  <2>3. QED BY <1>4, <2>1, <2>2, DraftMoves DEF DiscardDraft, RowLocked
<1>5. QED BY <1>2, <1>3, <1>4

\* A confirmation moves, with the locks its new place holds; nothing is written.
LEMMA ConfirmationMoves ==
  ASSUME IntakeInv, NEW k \in Confirmers, NEW x \in Confirmation, confirming' = [confirming EXCEPT ![k] = x],
         UNCHANGED <<draft, visits>>,
         x.at # "idle" => x.draft \in Drafts,
         x.at \in {"locked", "resolved", "numbered"} =>
           /\ draft[x.draft].status = "AWAITING_CONFIRMATION" /\ draft[x.draft].content = x.content
           /\ \A j \in Confirmers \ {k} : InTransaction(j) => confirming[j].draft # x.draft,
         x.at = "numbered" => x.code = LastCode + 1 /\ \A j \in Confirmers \ {k} : ~HoldsCodes(j)
  PROVE  IntakeInv'
<1>1. confirming' \in [Confirmers -> Confirmation] /\ confirming'[k] = x
      /\ \A j \in Confirmers \ {k} : confirming'[j] = confirming[j]
  BY DEF IntakeInv, IntakeTypes
<1>2. IntakeTypes' BY <1>1 DEF IntakeInv, IntakeTypes
<1>3. CodesAreUnique' /\ CodesAreContiguous' /\ OneCardPerDraft' /\ LastCode' = LastCode
  BY DEF IntakeInv, CodesAreUnique, CodesAreContiguous, Codes, OneCardPerDraft, LastCode
<1>4. LocksHold'
  <2>1. \A j \in Confirmers \ {k} : (InTransaction(j)' <=> InTransaction(j)) /\ (HoldsCodes(j)' <=> HoldsCodes(j))
    BY <1>1 DEF InTransaction, HoldsCodes
  <2>2. (InTransaction(k)' <=> x.at \in {"locked", "resolved", "numbered"})
        /\ (HoldsCodes(k)' <=> x.at = "numbered")
    BY <1>1 DEF InTransaction, HoldsCodes
  <2>3. \A j \in Confirmers : InTransaction(j)' =>
          /\ draft[confirming'[j].draft].status = "AWAITING_CONFIRMATION"
          /\ draft[confirming'[j].draft].content = confirming'[j].content
    BY <1>1, <2>1, <2>2 DEF IntakeInv, LocksHold
  <2>4. \A i, j \in Confirmers :
          InTransaction(i)' /\ InTransaction(j)' /\ confirming'[i].draft = confirming'[j].draft => i = j
    BY <1>1, <2>1, <2>2 DEF IntakeInv, LocksHold
  <2>5. \A i, j \in Confirmers : HoldsCodes(i)' /\ HoldsCodes(j)' => i = j
    BY <2>1, <2>2 DEF IntakeInv, LocksHold
  <2>6. \A j \in Confirmers : HoldsCodes(j)' => confirming'[j].code = LastCode + 1
    BY <1>1, <2>1, <2>2 DEF IntakeInv, LocksHold
  <2>7. QED BY <1>3, <2>3, <2>4, <2>5, <2>6 DEF LocksHold
<1>5. QED BY <1>2, <1>3, <1>4 DEF IntakeInv

LEMMA LetGo ==
  ASSUME IntakeInv, NEW k \in Confirmers, confirming' = [confirming EXCEPT ![k] = NotConfirming],
         UNCHANGED <<draft, visits>>
  PROVE  IntakeInv'
<1>1. NotConfirming \in Confirmation /\ NotConfirming.at = "idle" BY DEF NotConfirming, Confirmation
<1>2. QED BY <1>1, ConfirmationMoves

LEMMA LockDraftInv ==
  ASSUME IntakeInv, NEW k \in Confirmers, NEW d \in Drafts, NEW fresh \in BOOLEAN, LockDraft(k, d, fresh)
  PROVE  IntakeInv'
<1> DEFINE x == [at |-> "locked", draft |-> d, fresh |-> fresh, code |-> 0, content |-> draft[d].content]
<1>1. confirming' = [confirming EXCEPT ![k] = x] /\ UNCHANGED <<draft, visits>>
      /\ ~RowLocked(d) /\ draft[d].status = "AWAITING_CONFIRMATION"
  BY DEF LockDraft, DraftUnlocked
<1>2. x \in Confirmation BY DEF Confirmation, IntakeInv, IntakeTypes, Draft
<1>3. \A j \in Confirmers \ {k} : InTransaction(j) => confirming[j].draft # d BY <1>1 DEF RowLocked
<1>4. x.at = "locked" /\ x.draft = d /\ x.content = draft[d].content OBVIOUS
<1> HIDE DEF x
<1>5. QED BY <1>1, <1>2, <1>3, <1>4, ConfirmationMoves

LEMMA GoOnInv ==
  ASSUME IntakeInv, NEW k \in Confirmers, ResolveEntities(k) \/ TakeCode(k) PROVE IntakeInv'
<1> DEFINE c == confirming[k]
<1>1. c \in Confirmation /\ c.at \in {"locked", "resolved"} /\ InTransaction(k) /\ c.draft \in Drafts
  BY DEF ResolveEntities, TakeCode, InTransaction, IntakeInv, IntakeTypes
<1>2. draft[c.draft].status = "AWAITING_CONFIRMATION" /\ draft[c.draft].content = c.content
      /\ \A j \in Confirmers \ {k} : InTransaction(j) => confirming[j].draft # c.draft
  BY <1>1 DEF IntakeInv, LocksHold
<1>3. CASE ResolveEntities(k)
  <2> DEFINE x == [c EXCEPT !.at = "resolved"]
  <2>1. confirming' = [confirming EXCEPT ![k] = x] BY <1>3 DEF ResolveEntities, IntakeInv, IntakeTypes
  <2>2. x \in Confirmation /\ x.at = "resolved" /\ x.draft = c.draft /\ x.content = c.content
    BY <1>1 DEF Confirmation
  <2> HIDE DEF x
  <2>3. UNCHANGED <<draft, visits>> BY <1>3 DEF ResolveEntities
  <2>4. /\ draft[x.draft].status = "AWAITING_CONFIRMATION" /\ draft[x.draft].content = x.content
        /\ \A j \in Confirmers \ {k} : InTransaction(j) => confirming[j].draft # x.draft
    BY <1>2, <2>2
  <2>5. x.draft \in Drafts /\ x.at # "numbered" BY <1>1, <2>2
  <2> HIDE DEF c
  <2>6. QED BY <2>1, <2>2, <2>3, <2>4, <2>5, ConfirmationMoves
<1>4. CASE TakeCode(k)
  <2> DEFINE x == [c EXCEPT !.at = "numbered", !.code = LastCode + 1]
  <2>1. confirming' = [confirming EXCEPT ![k] = x] BY <1>4 DEF TakeCode, IntakeInv, IntakeTypes
  <2>2. LastCode + 1 \in Nat BY LastCodeNow
  <2>3. x \in Confirmation /\ x.at = "numbered" /\ x.draft = c.draft /\ x.content = c.content
        /\ x.code = LastCode + 1
    BY <1>1, <2>2 DEF Confirmation
  <2> HIDE DEF x
  <2>4. \A j \in Confirmers \ {k} : ~HoldsCodes(j) BY <1>4 DEF TakeCode, CodesFree
  <2>5. UNCHANGED <<draft, visits>> BY <1>4 DEF TakeCode
  <2>6. /\ draft[x.draft].status = "AWAITING_CONFIRMATION" /\ draft[x.draft].content = x.content
        /\ \A j \in Confirmers \ {k} : InTransaction(j) => confirming[j].draft # x.draft
    BY <1>2, <2>3
  <2>7. x.draft \in Drafts BY <1>1, <2>3
  <2> HIDE DEF c
  <2>8. QED BY <2>1, <2>3, <2>4, <2>5, <2>6, <2>7, ConfirmationMoves
<1>5. QED BY <1>3, <1>4

LEMMA CommitInv == ASSUME IntakeInv, NEW k \in Confirmers, CommitConfirmation(k) PROVE IntakeInv'
<1> DEFINE c == confirming[k]
           n == Cardinality(visits)
           v == [code |-> c.code, draft |-> c.draft, content |-> c.content, state |-> "DRAFT"]
           x == [c EXCEPT !.at = "opening"]
           y == [draft[c.draft] EXCEPT !.status = "CONFIRMED", !.code = c.code]
<1>1. CASE c.code \in Codes
  BY <1>1, LetGo DEF CommitConfirmation
<1>2. CASE c.code \notin Codes
  <2>1. c.at = "numbered" /\ c \in Confirmation /\ c.draft \in Drafts /\ InTransaction(k) /\ HoldsCodes(k)
    BY DEF CommitConfirmation, InTransaction, HoldsCodes, IntakeInv, IntakeTypes
  <2>2. visits' = visits \cup {v} /\ confirming' = [confirming EXCEPT ![k] = x]
        /\ draft' = [draft EXCEPT ![c.draft] = y]
    BY <1>2, <2>1 DEF CommitConfirmation, Settled, IntakeInv, IntakeTypes
  <2>3. draft[c.draft] \in Draft /\ draft[c.draft].content = c.content
        /\ draft[c.draft].status = "AWAITING_CONFIRMATION"
    BY <2>1 DEF IntakeInv, IntakeTypes, LocksHold
  <2>4. c.code \in Nat /\ c.content \in Nat BY <2>1 DEF Confirmation
  <2>5. /\ v \in Visit /\ v.code = c.code /\ v.draft = c.draft /\ v.content = c.content
        /\ x \in Confirmation /\ x.at = "opening" /\ x.draft = c.draft
        /\ y \in Draft /\ y.status = "CONFIRMED" /\ y.content = c.content
    BY <2>1, <2>3, <2>4 DEF Visit, Confirmation, Draft
  <2> HIDE DEF v, x, y
  <2>6. n \in Nat /\ n <= LastPadded /\ c.code = n + 1
    <3>1. c.code = LastCode + 1 BY <2>1 DEF IntakeInv, LocksHold
    <3>2. Codes = 1..n /\ n <= LastPadded + 1 BY DEF IntakeInv, CodesAreContiguous
    <3>3. LastPadded \in Nat BY IntakeConstants
    <3> HIDE DEF n
    <3>4. n \in Nat /\ LastCode = IF n <= LastPadded THEN n ELSE LastPadded BY LastCodeNow DEF n
    <3>5. QED BY <1>2, <3>1, <3>2, <3>3, <3>4
  <2>7. \A w \in visits : w.code # v.code BY <1>2, <2>5 DEF Codes
  <2>8. \A w \in visits : w.draft # v.draft BY <2>3, <2>5 DEF IntakeInv, OneCardPerDraft
  <2>9. Cardinality(visits)' = n + 1 /\ IsFiniteSet(visits')
    <3>1. v \notin visits BY <2>7
    <3>2. IsFiniteSet(visits) BY DEF IntakeInv, IntakeTypes
    <3>3. QED BY <2>2, <3>1, <3>2, FS_AddElement
  <2>10. /\ draft' \in [Drafts -> Draft] /\ draft'[c.draft] = y
         /\ \A d \in Drafts \ {c.draft} : draft'[d] = draft[d]
         /\ confirming' \in [Confirmers -> Confirmation] /\ confirming'[k] = x
         /\ \A j \in Confirmers \ {k} : confirming'[j] = confirming[j]
    BY <2>1, <2>2, <2>5 DEF IntakeInv, IntakeTypes
  <2>11. IntakeTypes' BY <2>1, <2>2, <2>5, <2>9, <2>10 DEF IntakeInv, IntakeTypes
  <2>12. CodesAreUnique' BY <2>2, <2>7 DEF IntakeInv, CodesAreUnique
  <2>13. CodesAreContiguous'
    <3>1. Codes' = Codes \cup {n + 1} BY <2>2, <2>5, <2>6 DEF Codes
    <3>2. Codes = 1..n BY DEF IntakeInv, CodesAreContiguous
    <3>3. LastPadded \in Nat BY IntakeConstants
    <3> HIDE DEF n
    <3>4. Codes' = 1..(n + 1) /\ n + 1 <= LastPadded + 1 BY <2>6, <3>1, <3>2, <3>3
    <3>5. QED BY <2>9, <3>4 DEF CodesAreContiguous
  <2>14. OneCardPerDraft'
    <3>1. ASSUME NEW w \in visits'
          PROVE  w.content = draft'[w.draft].content /\ draft'[w.draft].status \in {"CONFIRMED", "DISCARDED"}
      <4>1. CASE w = v BY <2>5, <2>10, <4>1
      <4>2. CASE w \in visits
        <5>1. w.draft \in Drafts \ {c.draft} BY <2>5, <2>8, <4>2 DEF IntakeInv, IntakeTypes, Visit
        <5>2. QED BY <2>10, <4>2, <5>1 DEF IntakeInv, OneCardPerDraft
      <4>3. QED BY <2>2, <4>1, <4>2
    <3>2. \A w, u \in visits' : u.draft = w.draft => u = w
      BY <2>2, <2>8 DEF IntakeInv, OneCardPerDraft
    <3>3. QED BY <3>1, <3>2 DEF OneCardPerDraft
  <2>15. LocksHold'
    <3>1. \A j \in Confirmers : InTransaction(j)' => j # k /\ InTransaction(j)
      BY <2>5, <2>10 DEF InTransaction
    <3>2. \A j \in Confirmers : InTransaction(j)' => confirming[j].draft \in Drafts \ {c.draft}
      BY <2>1, <3>1 DEF IntakeInv, IntakeTypes, LocksHold, InTransaction
    <3>3. \A j \in Confirmers : ~HoldsCodes(j)'
      BY <2>1, <2>5, <2>10 DEF IntakeInv, LocksHold, HoldsCodes
    <3>4. QED BY <2>10, <3>1, <3>2, <3>3 DEF IntakeInv, LocksHold
  <2>16. QED BY <2>11, <2>12, <2>13, <2>14, <2>15 DEF IntakeInv
<1>3. QED BY <1>1, <1>2

LEMMA OpenCardInv ==
  ASSUME IntakeInv, NEW k \in Confirmers, NEW fails \in BOOLEAN, OpenCard(k, fails) PROVE IntakeInv'
<1> DEFINE c == confirming[k]
           f == [v \in visits |-> IF v.code = c.code /\ ~fails THEN [v EXCEPT !.state = "OPEN"] ELSE v]
<1>1. visits' = {f[v] : v \in visits} /\ confirming' = [confirming EXCEPT ![k] = NotConfirming]
      /\ draft' = draft
  BY DEF OpenCard
<1>2. ASSUME NEW v \in visits
      PROVE  f[v] \in Visit /\ f[v].code = v.code /\ f[v].draft = v.draft /\ f[v].content = v.content
  <2>1. v \in Visit BY DEF IntakeInv, IntakeTypes
  <2>2. f[v] = v \/ f[v] = [v EXCEPT !.state = "OPEN"] OBVIOUS
  <2>3. QED BY <2>1, <2>2 DEF Visit
<1>3. DOMAIN f = visits /\ \A v \in visits : f[v] \in visits' BY <1>1
<1>4. \A u \in visits' : \E v \in visits : u = f[v] BY <1>1
<1>5. f \in [visits -> visits'] BY <1>1
<1> HIDE DEF f
<1>6. \A v, w \in visits : f[v] = f[w] => v = w BY <1>2 DEF IntakeInv, CodesAreUnique
<1>7. IsFiniteSet(visits') /\ Cardinality(visits') = Cardinality(visits)
  <2>1. f \in Surjection(visits, visits') BY <1>4, <1>5 DEF Surjection
  <2>2. f \in Injection(visits, visits') BY <1>5, <1>6 DEF Injection, IsInjective
  <2>3. IsFiniteSet(visits) BY DEF IntakeInv, IntakeTypes
  <2>4. QED BY <2>1, <2>2, <2>3, FS_Surjection
<1>8. Codes' = Codes
  <2>1. ASSUME NEW u \in visits' PROVE u.code \in Codes
    <3>1. PICK v \in visits : u = f[v] BY <1>4
    <3>2. QED BY <1>2, <3>1 DEF Codes
  <2>2. ASSUME NEW v \in visits PROVE v.code \in Codes'
    <3>1. f[v] \in visits' /\ f[v].code = v.code BY <1>2, <1>3
    <3>2. QED BY <3>1 DEF Codes
  <2>3. QED BY <2>1, <2>2 DEF Codes
<1>9. CodesAreContiguous' BY <1>7, <1>8 DEF IntakeInv, CodesAreContiguous
<1>10. CodesAreUnique'
  <2>1. SUFFICES ASSUME NEW u \in visits', NEW w \in visits', u.code = w.code PROVE u = w
    BY DEF CodesAreUnique
  <2>2. PICK a \in visits, b \in visits : u = f[a] /\ w = f[b] BY <1>4
  <2>3. QED BY <1>2, <2>1, <2>2 DEF IntakeInv, CodesAreUnique
<1>11. OneCardPerDraft'
  <2>1. ASSUME NEW u \in visits', NEW w \in visits', u.draft = w.draft PROVE u = w
    <3>1. PICK a \in visits, b \in visits : u = f[a] /\ w = f[b] BY <1>4
    <3>2. QED BY <1>2, <2>1, <3>1 DEF IntakeInv, OneCardPerDraft
  <2>2. ASSUME NEW u \in visits'
        PROVE u.content = draft[u.draft].content /\ draft[u.draft].status \in {"CONFIRMED", "DISCARDED"}
    <3>1. PICK a \in visits : u = f[a] BY <1>4
    <3>2. QED BY <1>2, <3>1 DEF IntakeInv, OneCardPerDraft
  <2>3. QED BY <1>1, <2>1, <2>2 DEF OneCardPerDraft
<1>12. /\ confirming' \in [Confirmers -> Confirmation] /\ confirming'[k] = NotConfirming
       /\ \A j \in Confirmers \ {k} : confirming'[j] = confirming[j]
  <2>1. NotConfirming \in Confirmation BY DEF NotConfirming, Confirmation
  <2>2. QED BY <1>1, <2>1 DEF IntakeInv, IntakeTypes
<1>13. IntakeTypes'
  <2>1. visits' \subseteq Visit BY <1>2, <1>4
  <2>2. QED BY <1>1, <1>7, <1>12, <2>1 DEF IntakeInv, IntakeTypes, NotConfirming
<1>14. LocksHold'
  <2>1. LastCode' = LastCode BY <1>8 DEF LastCode
  <2>2. ~InTransaction(k)' /\ ~HoldsCodes(k)' BY <1>12 DEF InTransaction, HoldsCodes, NotConfirming
  <2>3. \A j \in Confirmers \ {k} : (InTransaction(j)' <=> InTransaction(j)) /\ (HoldsCodes(j)' <=> HoldsCodes(j))
    BY <1>12 DEF InTransaction, HoldsCodes
  <2>4. QED BY <1>1, <1>12, <2>1, <2>2, <2>3 DEF IntakeInv, LocksHold
<1>15. QED BY <1>9, <1>10, <1>11, <1>13, <1>14 DEF IntakeInv

LEMMA IntakeStepInv == ASSUME IntakeInv, [IntakeNext]_intakeVars PROVE IntakeInv'
<1>1. CASE UNCHANGED intakeVars
  BY <1>1 DEF intakeVars, IntakeInv, IntakeTypes, CodesAreUnique, LocksHold, InTransaction, HoldsCodes, LastCode,
              Codes, OneCardPerDraft, CodesAreContiguous
<1>2. ASSUME NEW k \in Confirmers, AbortConfirmation(k) \/ RefuseConfirmation(k) PROVE IntakeInv'
  BY <1>2, LetGo DEF AbortConfirmation, RefuseConfirmation
<1>3. QED
  BY <1>1, <1>2, DraftInv, LockDraftInv, GoOnInv, CommitInv, OpenCardInv DEF IntakeNext, Confirming

\* For any drafts and any number of advisors who confirm, correct and discard at
\* once: a draft becomes one card at most, the card says what the draft last
\* said, and the codes of the cards have no gaps.
THEOREM IntakeAlwaysSound == IntakeSpec => []IntakeIsSound
<1>1. IntakeInv => IntakeIsSound BY DEF IntakeInv, IntakeIsSound
<1>2. QED BY <1>1, IntakeInitInv, IntakeStepInv, PTL DEF IntakeSpec
-----------------------------------------------------------------------------
(* The touches.  Passes are counted by what they are at work on and how far   *)
(* they are: a step of one pass moves it from one class to another.           *)

PassOn(ts, phases) == [of : ts, number : Nat, phase : phases]
\* A pass becomes another, or goes on to its next phase.
Becomes(s, r) == round' = [round EXCEPT ![s] = r]
Goes(s, x) == round' = [round EXCEPT ![s].phase = x]

Passes(Q) == {s \in Scanners : round[s] \in Q}
Count(Q) == Cardinality(Passes(Q))

InChannel == PassOn(Things, {"sending"})
\* Past the claim and not past the channel: what no freeze stops without a reader.
Underway == PassOn(Things, {"claimed", "sending"})
Accepted == PassOn(Things, {"accepted"})
Planned(i) == PassOn({i}, {"planned"})
\* Claimed, and not yet known to have reached the customer.
Unsent(i) == PassOn({i}, {"claimed", "sending", "blocked"})

Numbers(i) == {n \in 1 .. MaxPitches : <<i, n>> \in keys}
Claiming == Phases \ {"planned"}

\* A key is one pass's, and a re-pitch's key is one of the item's numbers.
KeysApart ==
  /\ \A s, r \in Scanners :
       round[s].phase \in Claiming /\ round[r].phase \in Claiming /\ Key(s) = Key(r) => s = r
  /\ \A s \in Scanners : round[s].phase = "settled" => round[s].of \in Items
  /\ \A s \in Scanners : round[s].phase \in Phases /\ round[s].of \in Items =>
                           round[s].number \in 1 .. MaxPitches

\* Every pitch received, held or under way has a number of its own, but for one
\* a fault.
PitchesCounted ==
  \A i \in Items : reached[i] + held[i] + Count(Unsent(i)) <= Cardinality(Numbers(i)) + faults

\* Until a touch has settled the floor keeps nobody; from then on, only the
\* passes in the channel still deliver.  Nobody counts where nobody asks.
FloorCounted ==
  /\ ~wired => near = 0 /\ recent = 0
  /\ recent = 0 => near <= Count(Accepted) + faults
  /\ recent > 0 => near + Count(InChannel) <= Cardinality(Scanners) + faults

\* Only the passes that planned before the item closed may still claim.
ClosedCounted ==
  \A i \in Items :
    /\ status[i] \in Closed => after[i] + Count(Planned(i)) <= Cardinality(Scanners)
    /\ status[i] \notin Closed => after[i] = 0

\* What is delivered after the freeze, and what may be yet.
DeliveriesCounted ==
  /\ wired /\ frozen => sold.pass + Count(InChannel) <= onTheWay
  /\ ~wired /\ frozen => sold.pass + Count(Underway) <= onTheWay

\* The hold is opened once; what a pass delivers afterwards was in the channel,
\* or claimed where the gate does not ask.
FreezeCounted ==
  /\ answer = "asked" => recovery = "idle" /\ ~frozen
  /\ recovery = "answered" => ~frozen
  /\ ~frozen => sold.pass = 0
  /\ DeliveriesCounted
  /\ ComplaintFreezes

TouchInv ==
  /\ RetentionTypeOK /\ KeysApart
  /\ PitchesCounted /\ FloorCounted /\ ClosedCounted /\ FreezeCounted

LEMMA CountType ==
  ASSUME NEW Q
  PROVE  /\ IsFiniteSet(Passes(Q)) /\ Count(Q) \in Nat /\ Cardinality(Scanners) \in Nat
         /\ Count(Q) <= Cardinality(Scanners)
<1>1. Passes(Q) \subseteq Scanners
  BY DEF Passes
<1> QED BY <1>1, RetentionConstants, FS_Subset, FS_CardinalityType DEF Count

LEMMA ClassMoves ==
  ASSUME NEW s \in Scanners, NEW r, round \in [Scanners -> PassOn(Things, Phases) \cup {NoPass}],
         Becomes(s, r), NEW Q
  PROVE  /\ Count(Q)' \in Nat /\ Count(Q) \in Nat
         /\ Count(Q)' = IF round[s] \in Q
                          THEN IF r \in Q THEN Count(Q) ELSE Count(Q) - 1
                          ELSE IF r \in Q THEN Count(Q) + 1 ELSE Count(Q)
<1>1. IsFiniteSet(Passes(Q)) /\ Count(Q) \in Nat
  BY CountType
<1>2. Passes(Q)' = IF r \in Q THEN Passes(Q) \cup {s} ELSE Passes(Q) \ {s}
  BY DEF Passes, Becomes
<1>3. s \in Passes(Q) <=> round[s] \in Q
  BY DEF Passes
<1>4. Count(Q)' = Cardinality(Passes(Q)')
  BY DEF Count
<1>5. CASE r \in Q
  <2>1. Cardinality(Passes(Q) \cup {s}) = IF s \in Passes(Q) THEN Count(Q) ELSE Count(Q) + 1
    BY <1>1, FS_AddElement DEF Count
  <2> QED BY <1>1, <1>2, <1>3, <1>4, <1>5, <2>1
<1>6. CASE r \notin Q
  <2>1. Cardinality(Passes(Q) \ {s}) = IF s \in Passes(Q) THEN Count(Q) - 1 ELSE Count(Q)
    BY <1>1, FS_RemoveElement DEF Count
  <2>2. s \in Passes(Q) => Count(Q) # 0
    BY <1>1, FS_EmptySet DEF Count
  <2> QED BY <1>1, <1>2, <1>3, <1>4, <1>6, <2>1, <2>2
<1> QED BY <1>5, <1>6

\* The passes in the channel and the accepted ones are different passes.
LEMMA ChannelShare ==
  ASSUME TRUE PROVE Count(InChannel) + Count(Accepted) <= Cardinality(Scanners)
<1>1. Passes(InChannel) \cap Passes(Accepted) = {}
  BY DEF Passes, InChannel, Accepted, PassOn
<1>2. Cardinality(Passes(InChannel) \cup Passes(Accepted)) = Count(InChannel) + Count(Accepted)
  <2>1. IsFiniteSet(Passes(InChannel)) /\ IsFiniteSet(Passes(Accepted))
        /\ Count(InChannel) \in Nat /\ Count(Accepted) \in Nat
    BY CountType
  <2>2. Cardinality(Passes(InChannel) \cup Passes(Accepted))
          = Count(InChannel) + Count(Accepted) - Cardinality(Passes(InChannel) \cap Passes(Accepted))
    BY <2>1, FS_Union DEF Count
  <2>3. Cardinality(Passes(InChannel) \cap Passes(Accepted)) = 0
    BY <1>1, FS_EmptySet
  <2> QED BY <2>1, <2>2, <2>3
<1>3. Passes(InChannel) \cup Passes(Accepted) \subseteq Scanners
  BY DEF Passes
<1> QED BY <1>2, <1>3, RetentionConstants, FS_Subset

LEMMA NumbersType ==
  ASSUME NEW i
  PROVE  /\ IsFiniteSet(Numbers(i)) /\ Cardinality(Numbers(i)) \in Nat
         /\ Cardinality(Numbers(i)) <= MaxPitches
<1>1. IsFiniteSet(1 .. MaxPitches) /\ Cardinality(1 .. MaxPitches) = MaxPitches
  BY RetentionConstants, FS_Interval
<1>2. Numbers(i) \subseteq 1 .. MaxPitches
  BY DEF Numbers
<1> QED BY <1>1, <1>2, FS_Subset, FS_CardinalityType

RecoveryPhases == {"idle", "answered", "held", "tasked", "attached", "broken"}

LEMMA TouchInit == Init => TouchInv
<1> SUFFICES ASSUME Init PROVE TouchInv
  OBVIOUS
<1>1. \A s \in Scanners : round[s] = NoPass
  BY DEF Init
<1>2. \A ts, phases : (phases \subseteq Phases) => Count(PassOn(ts, phases)) = 0
  <2>1. ASSUME NEW ts, NEW phases, phases \subseteq Phases PROVE Count(PassOn(ts, phases)) = 0
    <3>1. Passes(PassOn(ts, phases)) = {}
      BY <1>1, <2>1 DEF Passes, PassOn, NoPass, Phases
    <3> QED BY <3>1, FS_EmptySet DEF Count
  <2> QED BY <2>1
<1>3. RetentionTypeOK
  <2>1. /\ status \in [Items -> {"none"} \cup Pitchable \cup Closed]
        /\ count \in [Items -> Nat] /\ after \in [Items -> Nat]
        /\ keys \subseteq Things \X Nat /\ reminded \subseteq Leads
        /\ held \in [Things -> Nat] /\ reached \in [Items -> Nat]
    BY DEF Init
  <2>2. answer \in {"asked", "NEGATIVE"} /\ recovery \in RecoveryPhases
    BY DEF Init, RecoveryPhases
  <2>5. frozen \in BOOLEAN /\ wired \in BOOLEAN
    BY RetentionConstants DEF Init
  <2>6. {recent, near, onTheWay, touches, faults} \subseteq Nat
    <3>1. recent = 0 /\ near = 0 /\ onTheWay = 0 /\ touches = 0 /\ faults = 0
      BY DEF Init
    <3> QED BY <3>1
  <2>3. sold \in [{"pass", "held"} -> Nat]
    BY DEF Init
  <2>4. /\ round \in [Scanners -> PassOn(Things, Phases) \cup {NoPass}]
        /\ \A s \in Scanners : round[s].phase \in Phases \ {"planned"} => Key(s) \in keys
    BY <1>1 DEF Init, NoPass, Phases
  <2> QED BY <2>1, <2>2, <2>3, <2>4, <2>5, <2>6 DEF RetentionTypeOK, PassOn, RecoveryPhases
<1>4. KeysApart
  <2>1. \A s \in Scanners : round[s].phase = "idle"
    BY <1>1 DEF NoPass
  <2> QED BY <2>1 DEF KeysApart, Claiming, Phases
<1>5. PitchesCounted
  <2>1. \A i \in Items : Count(Unsent(i)) = 0 /\ Cardinality(Numbers(i)) \in Nat
    <3>1. {"claimed", "sending", "blocked"} \subseteq Phases
      BY DEF Phases
    <3> QED BY <1>2, <3>1, NumbersType DEF Unsent
  <2>2. faults = 0 /\ \A i \in Items : reached[i] = 0 /\ held[i] = 0
    BY DEF Init, Things
  <2> QED BY <2>1, <2>2 DEF PitchesCounted
<1>6. FloorCounted
  <2>1. Count(Accepted) = 0
    <3>1. {"accepted"} \subseteq Phases
      BY DEF Phases
    <3> QED BY <1>2, <3>1 DEF Accepted
  <2> QED BY <2>1 DEF FloorCounted, Init
<1>7. ClosedCounted
  BY DEF ClosedCounted, Init, Closed
<1>8. FreezeCounted
  BY DEF FreezeCounted, DeliveriesCounted, Init, ComplaintFreezes
<1> QED BY <1>3, <1>4, <1>5, <1>6, <1>7, <1>8 DEF TouchInv

PassType == PassOn(Things, Phases) \cup {NoPass}
OpenPhases == {"claimed", "sending", "blocked"}

\* A pass's class is told by its phase and by what it is at work on.
LEMMA Classes ==
  ASSUME NEW c \in PassType
  PROVE  /\ (c \in InChannel) <=> (c.phase = "sending")
         /\ (c \in Accepted) <=> (c.phase = "accepted")
         /\ (c \in Underway) <=> (c.phase \in {"claimed", "sending"})
         /\ \A i \in Items : (c \in Planned(i)) <=> (c.phase = "planned" /\ c.of = i)
         /\ \A i \in Items : (c \in Unsent(i)) <=> (c.phase \in OpenPhases /\ c.of = i)
<1>1. CASE c = NoPass
  BY <1>1 DEF NoPass, PassOn, InChannel, Accepted, Underway, Planned, Unsent, OpenPhases
<1>2. CASE c \in PassOn(Things, Phases)
  BY <1>2 DEF PassOn, InChannel, Accepted, Underway, Planned, Unsent, OpenPhases
<1> QED BY <1>1, <1>2 DEF PassType

\* What one pass's step does to the count of a class.
LEMMA Share ==
  ASSUME round \in [Scanners -> PassType], NEW s \in Scanners, NEW r \in PassType,
         Becomes(s, r), NEW Q
  PROVE  /\ Count(Q)' \in Nat /\ Count(Q) \in Nat
         /\ (round[s] \in Q <=> r \in Q) => Count(Q)' = Count(Q)
         /\ round[s] \in Q /\ r \notin Q => Count(Q)' = Count(Q) - 1
         /\ round[s] \notin Q /\ r \in Q => Count(Q)' = Count(Q) + 1
<1>1. round \in [Scanners -> PassOn(Things, Phases) \cup {NoPass}]
  BY DEF PassType
<1> QED BY <1>1, ClassMoves

LEMMA ChannelMoves ==
  ASSUME round \in [Scanners -> PassType], NEW s \in Scanners, NEW r \in PassType,
         Becomes(s, r)
  PROVE  /\ Count(InChannel)' \in Nat /\ Count(Accepted)' \in Nat
         /\ (round[s].phase = "sending" <=> r.phase = "sending") => Count(InChannel)' = Count(InChannel)
         /\ round[s].phase = "sending" /\ r.phase # "sending" => Count(InChannel)' = Count(InChannel) - 1
         /\ round[s].phase # "sending" /\ r.phase = "sending" => Count(InChannel)' = Count(InChannel) + 1
         /\ (round[s].phase = "accepted" <=> r.phase = "accepted") => Count(Accepted)' = Count(Accepted)
         /\ round[s].phase = "accepted" /\ r.phase # "accepted" => Count(Accepted)' = Count(Accepted) - 1
         /\ round[s].phase # "accepted" /\ r.phase = "accepted" => Count(Accepted)' = Count(Accepted) + 1
<1>1. round[s] \in PassType
  OBVIOUS
<1>2. /\ Count(InChannel)' \in Nat
      /\ (round[s] \in InChannel <=> r \in InChannel) => Count(InChannel)' = Count(InChannel)
      /\ round[s] \in InChannel /\ r \notin InChannel => Count(InChannel)' = Count(InChannel) - 1
      /\ round[s] \notin InChannel /\ r \in InChannel => Count(InChannel)' = Count(InChannel) + 1
  BY Share
<1>3. /\ Count(Accepted)' \in Nat
      /\ (round[s] \in Accepted <=> r \in Accepted) => Count(Accepted)' = Count(Accepted)
      /\ round[s] \in Accepted /\ r \notin Accepted => Count(Accepted)' = Count(Accepted) - 1
      /\ round[s] \notin Accepted /\ r \in Accepted => Count(Accepted)' = Count(Accepted) + 1
  BY Share
<1> QED BY <1>1, <1>2, <1>3, Classes

LEMMA UnderwayMoves ==
  ASSUME round \in [Scanners -> PassType], NEW s \in Scanners, NEW r \in PassType,
         Becomes(s, r)
  PROVE  /\ Count(Underway)' \in Nat
         /\ (round[s].phase \in {"claimed", "sending"} <=> r.phase \in {"claimed", "sending"})
              => Count(Underway)' = Count(Underway)
         /\ round[s].phase \in {"claimed", "sending"} /\ r.phase \notin {"claimed", "sending"}
              => Count(Underway)' = Count(Underway) - 1
<1> DEFINE U == Underway
<1>1. round[s] \in PassType
  OBVIOUS
<1>2. /\ Count(U)' \in Nat
      /\ (round[s] \in U <=> r \in U) => Count(U)' = Count(U)
      /\ round[s] \in U /\ r \notin U => Count(U)' = Count(U) - 1
  BY Share
<1>3. /\ round[s] \in U <=> round[s].phase \in {"claimed", "sending"}
      /\ r \in U <=> r.phase \in {"claimed", "sending"}
  BY <1>1, Classes
<1> QED BY <1>2, <1>3

LEMMA ItemMoves ==
  ASSUME round \in [Scanners -> PassType], NEW s \in Scanners, NEW r \in PassType,
         Becomes(s, r), NEW i \in Items
  PROVE  /\ Count(Planned(i))' \in Nat /\ Count(Unsent(i))' \in Nat
         /\ ((round[s].phase = "planned" /\ round[s].of = i) <=> (r.phase = "planned" /\ r.of = i))
              => Count(Planned(i))' = Count(Planned(i))
         /\ (round[s].phase = "planned" /\ round[s].of = i) /\ ~(r.phase = "planned" /\ r.of = i)
              => Count(Planned(i))' = Count(Planned(i)) - 1
         /\ ((round[s].phase \in OpenPhases /\ round[s].of = i) <=> (r.phase \in OpenPhases /\ r.of = i))
              => Count(Unsent(i))' = Count(Unsent(i))
         /\ (round[s].phase \in OpenPhases /\ round[s].of = i) /\ ~(r.phase \in OpenPhases /\ r.of = i)
              => Count(Unsent(i))' = Count(Unsent(i)) - 1
         /\ ~(round[s].phase \in OpenPhases /\ round[s].of = i) /\ (r.phase \in OpenPhases /\ r.of = i)
              => Count(Unsent(i))' = Count(Unsent(i)) + 1
<1>1. round[s] \in PassType
  OBVIOUS
<1> DEFINE P == Planned(i)  U == Unsent(i)
<1>2. /\ Count(P)' \in Nat
      /\ (round[s] \in P <=> r \in P) => Count(P)' = Count(P)
      /\ round[s] \in P /\ r \notin P => Count(P)' = Count(P) - 1
  BY Share
<1>3. /\ Count(U)' \in Nat
      /\ (round[s] \in U <=> r \in U) => Count(U)' = Count(U)
      /\ round[s] \in U /\ r \notin U => Count(U)' = Count(U) - 1
      /\ round[s] \notin U /\ r \in U => Count(U)' = Count(U) + 1
  BY Share
<1>4. /\ round[s] \in P <=> (round[s].phase = "planned" /\ round[s].of = i)
      /\ r \in P <=> (r.phase = "planned" /\ r.of = i)
      /\ round[s] \in U <=> (round[s].phase \in OpenPhases /\ round[s].of = i)
      /\ r \in U <=> (r.phase \in OpenPhases /\ r.of = i)
  BY <1>1, Classes
<1> QED BY <1>2, <1>3, <1>4

\* The keys stay apart while one pass goes on, claims a free one, or ends.
LEMMA KeysStay ==
  ASSUME TouchInv, NEW s \in Scanners, NEW r \in PassType, Becomes(s, r),
         r.phase \in Claiming =>
           /\ r.of = round[s].of /\ r.number = round[s].number /\ Key(s) \in keys'
           /\ round[s].phase \in Claiming \/ Key(s) \notin keys,
         r.phase = "settled" => r.of \in Items,
         r.phase \in Phases /\ r.of \in Items => r.number \in 1 .. MaxPitches,
         \A q \in Scanners \ {s} : round[q].phase \in Claiming => Key(q) \in keys'
  PROVE  /\ KeysApart' /\ round' \in [Scanners -> PassType]
         /\ \A q \in Scanners : round'[q].phase \in Claiming => Key(q)' \in keys'
<1>1. \A q \in Scanners : round'[q] = IF q = s THEN r ELSE round[q]
  BY DEF TouchInv, RetentionTypeOK, Becomes
<1>2. round' \in [Scanners -> PassType]
  BY DEF TouchInv, RetentionTypeOK, PassType, PassOn, Becomes
<1>3. \A q \in Scanners : round'[q].phase \in Claiming => Key(q)' = Key(q) /\ Key(q)' \in keys'
  BY <1>1 DEF Key
<1>4. \A q \in Scanners : round[q].phase \in Claiming => Key(q) \in keys
  BY DEF TouchInv, RetentionTypeOK, Claiming
<1>5. ASSUME NEW p \in Scanners, NEW q \in Scanners,
             round'[p].phase \in Claiming, round'[q].phase \in Claiming, Key(p)' = Key(q)'
      PROVE  p = q
  BY <1>1, <1>3, <1>4, <1>5 DEF TouchInv, KeysApart
<1>6. \A q \in Scanners : round'[q].phase = "settled" => round'[q].of \in Items
  BY <1>1 DEF TouchInv, KeysApart
<1>7. \A q \in Scanners : round'[q].phase \in Phases /\ round'[q].of \in Items =>
                            round'[q].number \in 1 .. MaxPitches
  BY <1>1 DEF TouchInv, KeysApart
<1> QED BY <1>2, <1>3, <1>5, <1>6, <1>7 DEF KeysApart

LEMMA CountsStay ==
  ASSUME UNCHANGED round
  PROVE  /\ Count(InChannel)' = Count(InChannel) /\ Count(Accepted)' = Count(Accepted)
         /\ Count(Underway)' = Count(Underway)
         /\ \A i \in Items : Count(Planned(i))' = Count(Planned(i)) /\ Count(Unsent(i))' = Count(Unsent(i))
BY DEF Count, Passes

LEMMA NumbersStay ==
  ASSUME NEW i, UNCHANGED keys
  PROVE  Cardinality(Numbers(i))' = Cardinality(Numbers(i))
BY DEF Numbers

LEMMA CountTypes ==
  /\ Count(InChannel) \in Nat /\ Count(Accepted) \in Nat /\ Cardinality(Scanners) \in Nat
  /\ Count(Underway) \in Nat /\ Count(InChannel) <= Cardinality(Scanners)
  /\ \A i \in Items : Count(Planned(i)) \in Nat /\ Count(Unsent(i)) \in Nat
  /\ \A i \in Items : Count(Planned(i)) <= Cardinality(Scanners) /\ Cardinality(Numbers(i)) \in Nat
BY CountType, NumbersType

\* Planning: a pass that read an open item, or a lead.
LEMMA PlanTouch == ASSUME TouchInv, NEW s \in Scanners, NEW t \in Things, Plan(s, t) PROVE TouchInv'
<1> DEFINE r == [of |-> t, number |-> IF t \in Items THEN count[t] + 1 ELSE 1, phase |-> "planned"]
<1>1. /\ round[s] = NoPass /\ Becomes(s, r)
      /\ UNCHANGED <<wired, status, count, after, keys, reminded, recent, touches, held, answer, recovery,
                     frozen, onTheWay, reached, near, sold, faults>>
  BY DEF Becomes, Plan, ledgerVars, touchVars, complaintVars, customerVars
<1>2. t \in Items => status[t] \in Pitchable /\ count[t] < MaxPitches /\ count[t] \in Nat
  BY DEF Plan, MayRepitch, TouchInv, RetentionTypeOK
<1>3. r \in PassType /\ r.phase = "planned" /\ r.of = t /\ (r.of \in Items => r.number \in 1 .. MaxPitches)
  BY <1>2, RetentionConstants DEF PassType, PassOn, Phases
<1> HIDE DEF r
<1>4. round \in [Scanners -> PassType] /\ round[s].phase = "idle"
  BY <1>1 DEF TouchInv, RetentionTypeOK, PassType, PassOn, NoPass
<1>5. \A q \in Scanners \ {s} : round[q].phase \in Claiming => Key(q) \in keys'
  BY <1>1 DEF TouchInv, RetentionTypeOK, Claiming
<1>6. /\ KeysApart' /\ round' \in [Scanners -> PassType]
      /\ \A q \in Scanners : round'[q].phase \in Claiming => Key(q)' \in keys'
  BY <1>1, <1>3, <1>5, KeysStay DEF Claiming
<1>7. RetentionTypeOK'
  BY <1>1, <1>6 DEF TouchInv, RetentionTypeOK, PassType, PassOn, Claiming
<1>8. Count(InChannel)' = Count(InChannel) /\ Count(Accepted)' = Count(Accepted)
  BY <1>1, <1>3, <1>4, ChannelMoves
<1>12. Count(Underway)' = Count(Underway)
  BY <1>1, <1>3, <1>4, UnderwayMoves
<1>11. \A i \in Items : /\ Count(Unsent(i))' = Count(Unsent(i))
                        /\ i # t => Count(Planned(i))' = Count(Planned(i))
  BY <1>1, <1>3, <1>4, ItemMoves DEF OpenPhases
<1>9. PitchesCounted' /\ FloorCounted' /\ FreezeCounted'
  BY <1>1, <1>8, <1>11, <1>12, NumbersStay DEF TouchInv, PitchesCounted, FloorCounted, FreezeCounted, DeliveriesCounted, ComplaintFreezes
<1>10. ClosedCounted'
  BY <1>1, <1>2, <1>11 DEF TouchInv, ClosedCounted, Pitchable, Closed
<1> QED BY <1>6, <1>7, <1>9, <1>10 DEF TouchInv

\* A pass goes on with what it is at work on.
LEMMA PhaseMoves ==
  ASSUME TouchInv, NEW s \in Scanners, round[s].phase \in Phases, NEW x \in Phases,
         Goes(s, x)
  PROVE  \E r \in PassType :
           /\ Becomes(s, r)
           /\ r.phase = x /\ r.of = round[s].of /\ r.number = round[s].number
<1>1. round[s] \in PassOn(Things, Phases)
  BY DEF TouchInv, RetentionTypeOK, NoPass, PassOn, Phases
<1> DEFINE r == [round[s] EXCEPT !.phase = x]
<1>2. r \in PassType /\ r.phase = x /\ r.of = round[s].of /\ r.number = round[s].number
  BY <1>1 DEF PassType, PassOn
<1>3. Becomes(s, r)
  BY DEF TouchInv, RetentionTypeOK, Goes, Becomes
<1> HIDE DEF r
<1> QED BY <1>2, <1>3

LEMMA RoundType ==
  ASSUME TouchInv
  PROVE  /\ round \in [Scanners -> PassType]
         /\ \A s \in Scanners : round[s].phase \in Claiming => Key(s) \in keys
         /\ \A s \in Scanners : round[s].phase \in Phases => round[s].of \in Things /\ round[s].number \in Nat
BY DEF TouchInv, RetentionTypeOK, PassType, PassOn, NoPass, Phases, Claiming

\* A pass ends without a word: it found nothing to do, or it died.
LEMMA PassEnds ==
  ASSUME TouchInv, NEW s \in Scanners, Becomes(s, NoPass), round[s].phase \in Phases,
         UNCHANGED <<wired, ledgerVars, touchVars, held, complaintVars, customerVars>>,
         \/ faults' = faults /\ round[s].phase # "accepted"
         \/ faults' = faults + 1
  PROVE  TouchInv'
<1>1. UNCHANGED <<wired, status, count, after, keys, reminded, recent, touches, held, answer, recovery,
                  frozen, onTheWay, reached, near, sold>>
  BY DEF ledgerVars, touchVars, complaintVars, customerVars
<1>2. NoPass \in PassType /\ NoPass.phase = "idle"
  BY DEF PassType, NoPass
<1>3. faults \in Nat /\ faults' \in Nat /\ near \in Nat
  BY DEF TouchInv, RetentionTypeOK
<1>4. /\ KeysApart' /\ round' \in [Scanners -> PassType]
      /\ \A q \in Scanners : round'[q].phase \in Claiming => Key(q)' \in keys'
  BY <1>1, <1>2, RoundType, KeysStay DEF Claiming, Phases
<1>5. RetentionTypeOK'
  BY <1>1, <1>3, <1>4 DEF TouchInv, RetentionTypeOK, PassType, PassOn, Claiming
<1>6. /\ Count(InChannel)' <= Count(InChannel) /\ Count(InChannel)' \in Nat /\ Count(Accepted)' \in Nat
      /\ Count(Accepted)' = Count(Accepted) - (IF round[s].phase = "accepted" THEN 1 ELSE 0)
  <2>1. round \in [Scanners -> PassType]
    BY RoundType
  <2> DEFINE a == Count(InChannel)  b == Count(InChannel)'  c == Count(Accepted)  d == Count(Accepted)'
  <2>2. /\ b \in Nat /\ d \in Nat
        /\ round[s].phase # "sending" => b = a
        /\ round[s].phase = "sending" => b = a - 1
        /\ round[s].phase # "accepted" => d = c
        /\ round[s].phase = "accepted" => d = c - 1
    BY <1>2, <2>1, ChannelMoves
  <2>3. a \in Nat /\ c \in Nat
    BY CountTypes
  <2> HIDE DEF a, b, c, d
  <2>4. b <= a /\ d = c - (IF round[s].phase = "accepted" THEN 1 ELSE 0)
    BY <2>2, <2>3
  <2> QED BY <2>2, <2>4 DEF a, b, c, d
<1>12. Count(Underway)' <= Count(Underway) /\ Count(Underway)' \in Nat
  <2>1. round \in [Scanners -> PassType]
    BY RoundType
  <2> DEFINE a == Count(Underway)  b == Count(Underway)'
  <2>2. b \in Nat /\ b \in {a, a - 1}
    BY <1>2, <2>1, UnderwayMoves
  <2>3. a \in Nat
    BY CountTypes
  <2> HIDE DEF a, b
  <2>4. b <= a
    BY <2>2, <2>3
  <2> QED BY <2>2, <2>4 DEF a, b
<1>7. \A i \in Items : /\ Count(Unsent(i))' <= Count(Unsent(i)) /\ Count(Unsent(i))' \in Nat
                       /\ Count(Planned(i))' <= Count(Planned(i)) /\ Count(Planned(i))' \in Nat
  <2>1. round \in [Scanners -> PassType]
    BY RoundType
  <2>2. ASSUME NEW i \in Items
        PROVE  /\ Count(Unsent(i))' <= Count(Unsent(i)) /\ Count(Unsent(i))' \in Nat
               /\ Count(Planned(i))' <= Count(Planned(i)) /\ Count(Planned(i))' \in Nat
    <3> DEFINE a == Count(Unsent(i))  b == Count(Unsent(i))'  c == Count(Planned(i))  d == Count(Planned(i))'
    <3>1. b \in Nat /\ d \in Nat /\ b \in {a, a - 1} /\ d \in {c, c - 1}
      BY <1>2, <2>1, ItemMoves DEF OpenPhases
    <3>2. a \in Nat /\ c \in Nat
      BY CountTypes
    <3> HIDE DEF a, b, c, d
    <3>3. b <= a /\ d <= c
      BY <3>1, <3>2
    <3> QED BY <3>1, <3>3 DEF a, b, c, d
  <2> QED BY <2>2
<1>8. PitchesCounted'
  <2>1. ASSUME NEW i \in Items
        PROVE  reached'[i] + held'[i] + Count(Unsent(i))' <= Cardinality(Numbers(i))' + faults'
    <3>1. reached[i] \in Nat /\ held[i] \in Nat
      BY DEF TouchInv, RetentionTypeOK, Things
    <3>2. reached[i] + held[i] + Count(Unsent(i)) <= Cardinality(Numbers(i)) + faults
      BY DEF TouchInv, PitchesCounted
    <3> QED BY <1>1, <1>3, <1>7, <3>1, <3>2, NumbersStay, CountTypes
  <2> QED BY <2>1 DEF PitchesCounted
<1>9. FloorCounted'
  <2>1. /\ recent = 0 => near <= Count(Accepted) + faults
        /\ recent > 0 => near + Count(InChannel) <= Cardinality(Scanners) + faults
    BY DEF TouchInv, FloorCounted
  <2>2. near' <= Count(Accepted)' + faults' \/ recent' # 0
    BY <1>1, <1>3, <1>6, <2>1, CountTypes
  <2>3. recent' > 0 => near' + Count(InChannel)' <= Cardinality(Scanners) + faults'
    BY <1>1, <1>3, <1>6, <2>1, CountTypes
  <2>4. ~wired' => near' = 0 /\ recent' = 0
    BY <1>1 DEF TouchInv, FloorCounted
  <2> QED BY <2>2, <2>3, <2>4 DEF FloorCounted
<1>10. ClosedCounted'
  <2>1. ASSUME NEW i \in Items
        PROVE  /\ status'[i] \in Closed => after'[i] + Count(Planned(i))' <= Cardinality(Scanners)
               /\ status'[i] \notin Closed => after'[i] = 0
    <3>1. /\ status[i] \in Closed => after[i] + Count(Planned(i)) <= Cardinality(Scanners)
          /\ status[i] \notin Closed => after[i] = 0
      BY DEF TouchInv, ClosedCounted
    <3>2. after[i] \in Nat
      BY DEF TouchInv, RetentionTypeOK
    <3> QED BY <1>1, <1>7, <3>1, <3>2, CountTypes
  <2> QED BY <2>1 DEF ClosedCounted
<1>11. FreezeCounted'
  <2>1. sold.pass \in Nat /\ onTheWay \in Nat
    BY DEF TouchInv, RetentionTypeOK
  <2>2. wired /\ frozen => sold.pass + Count(InChannel)' <= onTheWay
    BY <1>6, <2>1, CountTypes DEF TouchInv, FreezeCounted, DeliveriesCounted
  <2>4. ~wired /\ frozen => sold.pass + Count(Underway)' <= onTheWay
    BY <1>12, <2>1, CountTypes DEF TouchInv, FreezeCounted, DeliveriesCounted
  <2>3. faults > 0 => faults' > 0
    BY <1>3
  <2> QED BY <1>1, <2>2, <2>3, <2>4 DEF TouchInv, FreezeCounted, DeliveriesCounted, ComplaintFreezes
<1> QED BY <1>4, <1>5, <1>8, <1>9, <1>10, <1>11 DEF TouchInv

\* A claim takes a free key for a planned touch.
LEMMA ClaimTouch == ASSUME TouchInv, NEW s \in Scanners, Claim(s) PROVE TouchInv'
<1>1. CASE frozen \/ Key(s) \in keys
  <2>1. /\ Becomes(s, NoPass) /\ round[s].phase = "planned"
        /\ UNCHANGED <<wired, ledgerVars, touchVars, held, complaintVars, customerVars>> /\ faults' = faults
    BY <1>1 DEF Claim, ledgerVars, touchVars, Becomes
  <2> QED BY <2>1, PassEnds DEF Phases
<1>2. CASE ~frozen /\ Key(s) \notin keys
  <2> DEFINE t == round[s].of  n == round[s].number
  <2>1. /\ keys' = keys \cup {Key(s)} /\ Goes(s, "claimed")
        /\ touches' = touches + 1
        /\ after' = IF t \in Items /\ status[t] \in Closed THEN [after EXCEPT ![t] = after[t] + 1] ELSE after
        /\ UNCHANGED <<wired, status, count, reminded, recent, held, answer, recovery, frozen,
                       onTheWay, reached, near, sold, faults>>
        /\ round[s].phase = "planned"
    BY <1>2 DEF Claim, complaintVars, customerVars, Goes
  <2>2. t \in Things /\ n \in Nat /\ Key(s) = <<t, n>> /\ round \in [Scanners -> PassType]
    BY <2>1, RoundType DEF Phases, Key
  <2>3. PICK r \in PassType : Becomes(s, r) /\ r.phase = "claimed" /\ r.of = t /\ r.number = n
    BY <2>1, PhaseMoves DEF Phases
  <2>4. t \in Items => n \in 1 .. MaxPitches
    BY <2>1 DEF TouchInv, KeysApart, Phases
  <2>5. /\ KeysApart' /\ round' \in [Scanners -> PassType]
        /\ \A q \in Scanners : round'[q].phase \in Claiming => Key(q)' \in keys'
    <3>1. Key(s) \in keys' /\ \A q \in Scanners \ {s} : round[q].phase \in Claiming => Key(q) \in keys'
      BY <2>1, RoundType
    <3> QED BY <1>2, <2>3, <2>4, <3>1, KeysStay
  <2>6. RetentionTypeOK'
    <3>1. after' \in [Items -> Nat] /\ keys' \subseteq Things \X Nat
      BY <2>1, <2>2 DEF TouchInv, RetentionTypeOK
    <3>2. {recent, near, onTheWay, touches, faults}' \subseteq Nat
      BY <2>1 DEF TouchInv, RetentionTypeOK
    <3> QED BY <2>1, <2>5, <3>1, <3>2 DEF TouchInv, RetentionTypeOK, PassType, PassOn, Claiming
  <2>7. Count(InChannel)' = Count(InChannel) /\ Count(Accepted)' = Count(Accepted)
    BY <2>1, <2>2, <2>3, ChannelMoves
  <2>8. FloorCounted' /\ FreezeCounted'
    BY <1>2, <2>1, <2>7 DEF TouchInv, FloorCounted, FreezeCounted, DeliveriesCounted, ComplaintFreezes
  <2>9. ASSUME NEW i \in Items
        PROVE  /\ reached'[i] + held'[i] + Count(Unsent(i))' <= Cardinality(Numbers(i))' + faults'
               /\ status'[i] \in Closed => after'[i] + Count(Planned(i))' <= Cardinality(Scanners)
               /\ status'[i] \notin Closed => after'[i] = 0
    <3> DEFINE u == Count(Unsent(i))  u1 == Count(Unsent(i))'  d == Count(Planned(i))  d1 == Count(Planned(i))'
               c == Cardinality(Numbers(i))  c1 == Cardinality(Numbers(i))'
    <3>1. /\ i = t => u1 = u + 1 /\ d1 = d - 1
          /\ i # t => u1 = u /\ d1 = d
      BY <2>1, <2>2, <2>3, ItemMoves DEF OpenPhases
    <3>2. u \in Nat /\ d \in Nat /\ c \in Nat /\ Cardinality(Scanners) \in Nat
      BY CountTypes
    <3>3. IF i = t THEN c1 = c + 1 ELSE c1 = c
      <4>1. CASE i = t
        <5>1. Numbers(i)' = Numbers(i) \cup {n} /\ n \notin Numbers(i)
          BY <1>2, <2>1, <2>2, <2>4, <4>1 DEF Numbers
        <5>2. Cardinality(Numbers(i) \cup {n}) = Cardinality(Numbers(i)) + 1
          BY <5>1, NumbersType, FS_AddElement
        <5> QED BY <4>1, <5>1, <5>2
      <4>2. CASE i # t
        <5>1. Numbers(i)' = Numbers(i)
          BY <2>1, <2>2, <4>2 DEF Numbers
        <5> QED BY <4>2, <5>1
      <4> QED BY <4>1, <4>2
    <3>4. /\ reached[i] + held[i] + u <= c + faults
          /\ status[i] \in Closed => after[i] + d <= Cardinality(Scanners)
          /\ status[i] \notin Closed => after[i] = 0
      BY DEF TouchInv, PitchesCounted, ClosedCounted
    <3>5. reached[i] \in Nat /\ held[i] \in Nat /\ after[i] \in Nat /\ faults \in Nat
      BY DEF TouchInv, RetentionTypeOK, Things
    <3>6. after'[i] = IF i = t /\ status[i] \in Closed THEN after[i] + 1 ELSE after[i]
      BY <2>1 DEF TouchInv, RetentionTypeOK
    <3>7. reached'[i] = reached[i] /\ held'[i] = held[i] /\ status'[i] = status[i] /\ faults' = faults
      BY <2>1
    <3> HIDE DEF u, u1, d, d1, c, c1
    <3>8. reached'[i] + held'[i] + u1 <= c1 + faults'
      BY <3>1, <3>2, <3>3, <3>4, <3>5, <3>7
    <3>9. /\ status'[i] \in Closed => after'[i] + d1 <= Cardinality(Scanners)
          /\ status'[i] \notin Closed => after'[i] = 0
      BY <3>1, <3>2, <3>4, <3>5, <3>6, <3>7
    <3> QED BY <3>8, <3>9 DEF u1, d1, c1
  <2>10. PitchesCounted' /\ ClosedCounted'
    BY <2>9 DEF PitchesCounted, ClosedCounted
  <2> QED BY <2>5, <2>6, <2>8, <2>10 DEF TouchInv
<1> QED BY <1>1, <1>2

\* What a pass's step within one touch does to the items' counts: nothing, unless
\* it holds, delivers or gives back the item's own pitch.
LEMMA PitchMoves ==
  ASSUME TouchInv, NEW s \in Scanners, round[s].phase \in Claiming, NEW x \in Claiming,
         x = "settled" => round[s].of \in Items,
         Goes(s, x), UNCHANGED <<wired, keys, status, after>>
  PROVE  /\ KeysApart' /\ round' \in [Scanners -> PassType]
         /\ \A q \in Scanners : round'[q].phase \in Claiming => Key(q)' \in keys'
         /\ \A i \in Items : Cardinality(Numbers(i))' = Cardinality(Numbers(i))
         /\ ClosedCounted'
<1>1. x \in Phases /\ x # "planned" /\ round[s].phase \in Phases /\ round[s].phase # "planned"
  BY DEF Claiming
<1>2. PICK r \in PassType : /\ Becomes(s, r) /\ r.phase = x
                            /\ r.of = round[s].of /\ r.number = round[s].number
  BY <1>1, PhaseMoves
<1>3. round \in [Scanners -> PassType]
  BY RoundType
<1>4. ASSUME NEW i \in Items
      PROVE  /\ Cardinality(Numbers(i))' = Cardinality(Numbers(i))
             /\ Count(Planned(i))' = Count(Planned(i))
  <2>1. Count(Planned(i))' = Count(Planned(i))
    BY <1>1, <1>2, <1>3, ItemMoves
  <2> QED BY <2>1, NumbersStay
<1>5. ClosedCounted'
  BY <1>4 DEF TouchInv, ClosedCounted
<1>6. /\ \A q \in Scanners : round[q].phase \in Claiming => Key(q) \in keys'
      /\ r.of \in Items => r.number \in 1 .. MaxPitches
  BY <1>1, <1>2, RoundType DEF TouchInv, KeysApart
<1>7. /\ KeysApart' /\ round' \in [Scanners -> PassType]
      /\ \A q \in Scanners : round'[q].phase \in Claiming => Key(q)' \in keys'
  <2>1. \A q \in Scanners \ {s} : round[q].phase \in Claiming => Key(q) \in keys'
    BY <1>6
  <2>2. /\ r.phase \in Claiming =>
             /\ r.of = round[s].of /\ r.number = round[s].number /\ Key(s) \in keys'
             /\ round[s].phase \in Claiming \/ Key(s) \notin keys
        /\ r.phase = "settled" => r.of \in Items
        /\ r.phase \in Phases /\ r.of \in Items => r.number \in 1 .. MaxPitches
    BY <1>2, <1>6
  <2> QED BY <1>2, <2>1, <2>2, KeysStay
<1> QED BY <1>4, <1>5, <1>7

\* The counts of a step within one touch.
LEMMA TouchMoves ==
  ASSUME TouchInv, NEW s \in Scanners, round[s].phase \in Claiming, NEW x \in Claiming, Goes(s, x)
  PROVE  /\ (round[s].phase = "sending" <=> x = "sending") => Count(InChannel)' = Count(InChannel)
         /\ round[s].phase = "sending" /\ x # "sending" => Count(InChannel)' = Count(InChannel) - 1
         /\ round[s].phase # "sending" /\ x = "sending" => Count(InChannel)' = Count(InChannel) + 1
         /\ (round[s].phase = "accepted" <=> x = "accepted") => Count(Accepted)' = Count(Accepted)
         /\ round[s].phase = "accepted" /\ x # "accepted" => Count(Accepted)' = Count(Accepted) - 1
         /\ round[s].phase # "accepted" /\ x = "accepted" => Count(Accepted)' = Count(Accepted) + 1
         /\ Count(Underway)' \in Nat
         /\ (round[s].phase \in {"claimed", "sending"} <=> x \in {"claimed", "sending"})
              => Count(Underway)' = Count(Underway)
         /\ round[s].phase \in {"claimed", "sending"} /\ x \notin {"claimed", "sending"}
              => Count(Underway)' = Count(Underway) - 1
         /\ \A i \in Items :
              /\ (round[s].of # i \/ (round[s].phase \in OpenPhases <=> x \in OpenPhases)) =>
                   Count(Unsent(i))' = Count(Unsent(i))
              /\ round[s].of = i /\ round[s].phase \in OpenPhases /\ x \notin OpenPhases =>
                   Count(Unsent(i))' = Count(Unsent(i)) - 1
<1>1. x \in Phases /\ round[s].phase \in Phases
  BY DEF Claiming
<1>2. PICK r \in PassType : Becomes(s, r) /\ r.phase = x /\ r.of = round[s].of /\ r.number = round[s].number
  BY <1>1, PhaseMoves
<1>3. round \in [Scanners -> PassType]
  BY RoundType
<1>4. /\ (round[s].phase = "sending" <=> x = "sending") => Count(InChannel)' = Count(InChannel)
      /\ round[s].phase = "sending" /\ x # "sending" => Count(InChannel)' = Count(InChannel) - 1
      /\ round[s].phase # "sending" /\ x = "sending" => Count(InChannel)' = Count(InChannel) + 1
      /\ (round[s].phase = "accepted" <=> x = "accepted") => Count(Accepted)' = Count(Accepted)
      /\ round[s].phase = "accepted" /\ x # "accepted" => Count(Accepted)' = Count(Accepted) - 1
      /\ round[s].phase # "accepted" /\ x = "accepted" => Count(Accepted)' = Count(Accepted) + 1
  BY <1>2, <1>3, ChannelMoves
<1>6. /\ Count(Underway)' \in Nat
      /\ (round[s].phase \in {"claimed", "sending"} <=> x \in {"claimed", "sending"})
           => Count(Underway)' = Count(Underway)
      /\ round[s].phase \in {"claimed", "sending"} /\ x \notin {"claimed", "sending"}
           => Count(Underway)' = Count(Underway) - 1
  BY <1>2, <1>3, UnderwayMoves
<1>5. ASSUME NEW i \in Items
      PROVE  /\ (round[s].of # i \/ (round[s].phase \in OpenPhases <=> x \in OpenPhases)) =>
                  Count(Unsent(i))' = Count(Unsent(i))
             /\ round[s].of = i /\ round[s].phase \in OpenPhases /\ x \notin OpenPhases =>
                  Count(Unsent(i))' = Count(Unsent(i)) - 1
  BY <1>2, <1>3, ItemMoves
<1> QED BY <1>4, <1>5, <1>6

\* The gate decides for a claimed touch: refused, held, or on its way unless the
\* freeze or the floor forbids it.
LEMMA DecideTouch == ASSUME TouchInv, NEW s \in Scanners, Decide(s) PROVE TouchInv'
<1> DEFINE t == round[s].of
<1>1. /\ round[s].phase = "claimed"
      /\ \/ Goes(s, "blocked") /\ UNCHANGED held
         \/ ~RetentionRefuses /\ Goes(s, "held") /\ held' = [held EXCEPT ![t] = held[t] + 1]
         \/ ~RetentionRefuses /\ Goes(s, "sending") /\ UNCHANGED held
      /\ UNCHANGED <<wired, status, count, after, keys, reminded, recent, touches, answer, recovery,
                     frozen, onTheWay, reached, near, sold, faults>>
  BY DEF Decide, Goes, ledgerVars, touchVars, complaintVars, customerVars
<1>2. PICK x \in {"blocked", "held", "sending"} :
        /\ Goes(s, x) /\ (x = "sending" /\ wired => ~frozen /\ recent = 0)
        /\ IF x = "held" THEN held' = [held EXCEPT ![t] = held[t] + 1] ELSE UNCHANGED held
  <2>1. ~RetentionRefuses => (wired => ~frozen /\ recent = 0)
    BY DEF RetentionRefuses, TouchInv, RetentionTypeOK
  <2> QED BY <1>1, <2>1
<1>3. x \in Claiming /\ round[s].phase \in Claiming /\ x # "settled"
  BY <1>1 DEF Claiming, Phases
<1>4. t \in Things
  BY <1>3, RoundType DEF Claiming
<1>5. /\ KeysApart' /\ round' \in [Scanners -> PassType] /\ ClosedCounted'
      /\ \A q \in Scanners : round'[q].phase \in Claiming => Key(q)' \in keys'
      /\ \A i \in Items : Cardinality(Numbers(i))' = Cardinality(Numbers(i))
  BY <1>1, <1>2, <1>3, PitchMoves
<1>6. RetentionTypeOK'
  <2>1. held' \in [Things -> Nat]
    BY <1>2, <1>4 DEF TouchInv, RetentionTypeOK
  <2> QED BY <1>1, <1>5, <2>1 DEF TouchInv, RetentionTypeOK, PassType, PassOn, Claiming
<1>7. /\ Count(Accepted)' = Count(Accepted)
      /\ (x # "sending" => Count(InChannel)' = Count(InChannel))
      /\ Count(Underway)' <= Count(Underway) /\ Count(Underway)' \in Nat /\ Count(Underway) \in Nat
  <2>1. /\ Count(Underway)' \in Nat /\ Count(Underway) \in Nat
        /\ x = "sending" => Count(Underway)' = Count(Underway)
        /\ x # "sending" => Count(Underway)' = Count(Underway) - 1
    BY <1>1, <1>2, <1>3, TouchMoves, CountTypes
  <2>2. Count(Underway)' <= Count(Underway)
    BY <2>1
  <2> QED BY <1>1, <1>2, <1>3, <2>1, <2>2, TouchMoves
<1>8. FloorCounted'
  BY <1>1, <1>2, <1>7 DEF TouchInv, FloorCounted
<1>9. FreezeCounted'
  <2>1. wired /\ frozen => sold.pass + Count(InChannel)' <= onTheWay
    BY <1>2, <1>7 DEF TouchInv, FreezeCounted, DeliveriesCounted
  <2>2. sold.pass \in Nat /\ onTheWay \in Nat
    BY DEF TouchInv, RetentionTypeOK
  <2>3. ~wired /\ frozen => sold.pass + Count(Underway)' <= onTheWay
    BY <1>7, <2>2 DEF TouchInv, FreezeCounted, DeliveriesCounted
  <2> QED BY <1>1, <2>1, <2>3 DEF TouchInv, FreezeCounted, DeliveriesCounted, ComplaintFreezes
<1>10. ASSUME NEW i \in Items
       PROVE  reached'[i] + held'[i] + Count(Unsent(i))' <= Cardinality(Numbers(i))' + faults'
  <2> DEFINE u == Count(Unsent(i))  u1 == Count(Unsent(i))'  c == Cardinality(Numbers(i))
  <2>1. /\ (t # i \/ x # "held") => u1 = u
        /\ t = i /\ x = "held" => u1 = u - 1
    BY <1>1, <1>2, <1>3, TouchMoves DEF OpenPhases
  <2>2. u \in Nat /\ c \in Nat /\ reached[i] \in Nat /\ held[i] \in Nat /\ faults \in Nat
    BY CountTypes DEF TouchInv, RetentionTypeOK, Things
  <2>3. held'[i] = IF i = t /\ x = "held" THEN held[i] + 1 ELSE held[i]
    BY <1>2, <1>4 DEF TouchInv, RetentionTypeOK, Things
  <2>4. reached[i] + held[i] + u <= c + faults
    BY DEF TouchInv, PitchesCounted
  <2> HIDE DEF u, u1, c
  <2>5. reached'[i] + held'[i] + u1 <= c + faults'
    BY <1>1, <2>1, <2>2, <2>3, <2>4
  <2> QED BY <1>5, <2>5 DEF u1, c
<1> QED BY <1>5, <1>6, <1>8, <1>9, <1>10 DEF TouchInv, PitchesCounted

\* Its item's pitch counts once more, if it is one.
Told(t, b) == IF t \in Items THEN [reached EXCEPT ![t] = reached[t] + b] ELSE reached

\* The channel: the message reaches the customer, or it throws before or after.
LEMMA ChannelTouch == ASSUME TouchInv, NEW s \in Scanners, CallChannel(s) PROVE TouchInv'
<1> DEFINE t == round[s].of
<1>1. /\ round[s].phase = "sending"
      /\ \/ Reach(t, "pass") /\ Goes(s, "accepted") /\ faults' = faults
         \/ UNCHANGED customerVars /\ Goes(s, "blocked") /\ faults' = faults
         \/ Reach(t, "pass") /\ Goes(s, "blocked") /\ faults' = faults + 1
      /\ UNCHANGED <<wired, status, count, after, keys, reminded, recent, touches, held, answer, recovery,
                     frozen, onTheWay>>
  BY DEF CallChannel, Goes, ledgerVars, touchVars, complaintVars
<1>2. t \in Things
  BY <1>1, RoundType DEF Phases
<1>3. PICK x \in {"accepted", "blocked"}, b \in {0, 1} :
        /\ Goes(s, x) /\ (x = "accepted" => b = 1) /\ faults' = faults + (IF x = "blocked" THEN b ELSE 0)
        /\ reached' = Told(t, b) /\ near' = near + (IF wired THEN b ELSE 0)
        /\ sold' = [sold EXCEPT !.pass = IF frozen THEN sold.pass + b ELSE sold.pass]
  <2>0. reached \in [Items -> Nat] /\ near \in Nat /\ sold \in [{"pass", "held"} -> Nat] /\ faults \in Nat
    BY DEF TouchInv, RetentionTypeOK
  <2>1. /\ UNCHANGED customerVars =>
             /\ reached' = Told(t, 0) /\ near' = near + (IF wired THEN 0 ELSE 0)
             /\ sold' = [sold EXCEPT !.pass = IF frozen THEN sold.pass + 0 ELSE sold.pass]
        /\ Reach(t, "pass") =>
             /\ reached' = Told(t, 1) /\ near' = near + (IF wired THEN 1 ELSE 0)
             /\ sold' = [sold EXCEPT !.pass = IF frozen THEN sold.pass + 1 ELSE sold.pass]
    BY <2>0 DEF customerVars, Reach, Told
  <2>2. faults' = faults => faults' = faults + 0
    BY <2>0
  <2> QED BY <1>1, <2>1, <2>2
<1>4. x \in Claiming /\ round[s].phase \in Claiming /\ x # "settled"
  BY <1>1 DEF Claiming, Phases
<1>5. /\ KeysApart' /\ round' \in [Scanners -> PassType] /\ ClosedCounted'
      /\ \A q \in Scanners : round'[q].phase \in Claiming => Key(q)' \in keys'
      /\ \A i \in Items : Cardinality(Numbers(i))' = Cardinality(Numbers(i))
  BY <1>1, <1>3, <1>4, PitchMoves
<1>6. /\ reached \in [Items -> Nat] /\ near \in Nat /\ sold \in [{"pass", "held"} -> Nat] /\ faults \in Nat
      /\ sold.pass \in Nat /\ onTheWay \in Nat
  BY DEF TouchInv, RetentionTypeOK
<1>7. RetentionTypeOK'
  <2>1. reached' \in [Items -> Nat] /\ near' \in Nat /\ faults' \in Nat
    BY <1>3, <1>6 DEF Told
  <2>2. sold' \in [{"pass", "held"} -> Nat]
    <3>1. (IF frozen THEN sold.pass + b ELSE sold.pass) \in Nat
      BY <1>6
    <3> QED BY <1>3, <1>6, <3>1
  <2>3. {recent, near, onTheWay, touches, faults}' \subseteq Nat
    BY <1>1, <2>1 DEF TouchInv, RetentionTypeOK
  <2> QED BY <1>1, <1>5, <2>1, <2>2, <2>3 DEF TouchInv, RetentionTypeOK, PassType, PassOn, Claiming
<1>8. FloorCounted' /\ FreezeCounted'
  <2> DEFINE a == Count(InChannel)  a1 == Count(InChannel)'  c == Count(Accepted)  c1 == Count(Accepted)'
             d == Count(Underway)  d1 == Count(Underway)'
  <2>1. a1 = a - 1 /\ d1 = d - 1 /\ (x = "accepted" => c1 = c + 1) /\ (x = "blocked" => c1 = c)
    BY <1>1, <1>3, <1>4, TouchMoves
  <2>2. a \in Nat /\ c \in Nat /\ d \in Nat /\ Cardinality(Scanners) \in Nat
    BY CountTypes
  <2>3. /\ recent = 0 => near <= c + faults
        /\ recent > 0 => near + a <= Cardinality(Scanners) + faults
        /\ ~wired => near = 0 /\ recent = 0
        /\ wired /\ frozen => sold.pass + a <= onTheWay
        /\ ~wired /\ frozen => sold.pass + d <= onTheWay
        /\ ~frozen => sold.pass = 0
    BY DEF TouchInv, FloorCounted, FreezeCounted, DeliveriesCounted
  <2>4. sold'.pass = IF frozen THEN sold.pass + b ELSE sold.pass
    BY <1>3, <1>6
  <2>5. recent' = recent /\ frozen' = frozen /\ onTheWay' = onTheWay /\ near' = near + (IF wired THEN b ELSE 0)
        /\ wired' = wired /\ faults' = faults + (IF x = "blocked" THEN b ELSE 0) /\ (x = "accepted" => b = 1)
    BY <1>1, <1>3
  <2> HIDE DEF a, a1, c, c1, d, d1
  <2>6. /\ recent' = 0 => near' <= c1 + faults'
        /\ recent' > 0 => near' + a1 <= Cardinality(Scanners) + faults'
        /\ ~wired' => near' = 0 /\ recent' = 0
    BY <1>6, <2>1, <2>2, <2>3, <2>5
  <2>7. /\ wired' /\ frozen' => sold'.pass + a1 <= onTheWay'
        /\ ~wired' /\ frozen' => sold'.pass + d1 <= onTheWay'
        /\ ~frozen' => sold'.pass = 0
    BY <1>6, <2>1, <2>2, <2>3, <2>4, <2>5
  <2>8. ComplaintFreezes'
    BY <1>1, <1>6, <2>5 DEF TouchInv, FreezeCounted, DeliveriesCounted, ComplaintFreezes
  <2> QED BY <1>1, <2>6, <2>7, <2>8 DEF a1, c1, d1, TouchInv, FloorCounted, FreezeCounted, DeliveriesCounted
<1>9. ASSUME NEW i \in Items
      PROVE  reached'[i] + held'[i] + Count(Unsent(i))' <= Cardinality(Numbers(i))' + faults'
  <2> DEFINE u == Count(Unsent(i))  u1 == Count(Unsent(i))'  c == Cardinality(Numbers(i))
  <2>1. /\ (t # i \/ x # "accepted") => u1 = u
        /\ t = i /\ x = "accepted" => u1 = u - 1
    BY <1>1, <1>3, <1>4, TouchMoves DEF OpenPhases
  <2>2. u \in Nat /\ c \in Nat /\ reached[i] \in Nat /\ held[i] \in Nat
    BY CountTypes DEF TouchInv, RetentionTypeOK, Things
  <2>3. reached'[i] = (IF i = t THEN reached[i] + b ELSE reached[i]) /\ held'[i] = held[i]
    BY <1>1, <1>3, <1>6 DEF Told
  <2>4. reached[i] + held[i] + u <= c + faults
    BY DEF TouchInv, PitchesCounted
  <2>5. faults' = faults + (IF x = "blocked" THEN b ELSE 0) /\ (x = "accepted" => b = 1) /\ x \in {"accepted", "blocked"}
    BY <1>3
  <2> HIDE DEF u, u1, c
  <2>6. reached'[i] + held'[i] + u1 <= c + faults'
    BY <1>6, <2>1, <2>2, <2>3, <2>4, <2>5
  <2> QED BY <1>5, <2>6 DEF u1, c
<1> QED BY <1>5, <1>7, <1>8, <1>9 DEF TouchInv, PitchesCounted

\* Settling: a delivered pitch, and a held one, keep their number; a refused one
\* gives it back.
LEMMA SettleTouch == ASSUME TouchInv, NEW s \in Scanners, Settle(s) PROVE TouchInv'
<1> DEFINE t == round[s].of  n == round[s].number  sent == round[s].phase = "accepted"
<1>1. /\ round[s].phase \in {"accepted", "held", "blocked"}
      /\ keys' = KeysAfter(s)
      /\ recent' = IF sent /\ wired THEN recent + 1 ELSE recent
      /\ reminded' = IF sent /\ t \in Leads THEN reminded \cup {t} ELSE reminded
      /\ IF sent /\ t \in Items THEN Goes(s, "settled") ELSE Becomes(s, NoPass)
      /\ UNCHANGED <<wired, status, count, after, held, touches, answer, recovery, frozen,
                     onTheWay, reached, near, sold, faults>>
  BY DEF Settle, Goes, Becomes, ledgerVars, complaintVars, customerVars
<1>2. round[s].phase \in Phases /\ round[s].phase \in Claiming /\ "settled" \in Phases
  BY <1>1 DEF Claiming, Phases
<1>3. /\ t \in Things /\ n \in Nat /\ Key(s) = <<t, n>> /\ Key(s) \in keys
      /\ round \in [Scanners -> PassType]
  BY <1>2, RoundType DEF Key
<1>4. PICK r \in PassType :
        /\ Becomes(s, r)
        /\ \/ r.phase = "idle"
           \/ (r.phase = "settled" /\ sent) /\ t \in Items /\ r.of = t /\ r.number = n
  <2>1. CASE sent /\ t \in Items
    BY <1>1, <1>2, <2>1, PhaseMoves
  <2>2. CASE ~(sent /\ t \in Items)
    BY <1>1, <2>2 DEF PassType, NoPass
  <2> QED BY <2>1, <2>2
<1>5. /\ keys' = keys \/ (keys' = keys \ {Key(s)} /\ ~sent)
      /\ round[s].phase = "blocked" => keys' = keys \ {Key(s)}
      /\ t \in Items /\ round[s].phase # "blocked" => keys' = keys
  <2>1. CASE sent \/ (round[s].phase = "held" /\ t \in Items)
    BY <1>1, <2>1 DEF KeysAfter
  <2>2. CASE ~(sent \/ (round[s].phase = "held" /\ t \in Items))
    <3>1. keys' = keys \ {Key(s)}
      BY <1>1, <2>2 DEF KeysAfter
    <3> QED BY <1>1, <2>2, <3>1
  <2> QED BY <2>1, <2>2
<1>6. r.phase \notin {"planned", "claimed", "sending", "blocked", "accepted", "held"}
  BY <1>4
<1>7. /\ KeysApart' /\ round' \in [Scanners -> PassType]
      /\ \A q \in Scanners : round'[q].phase \in Claiming => Key(q)' \in keys'
  <2>1. ASSUME NEW q \in Scanners \ {s}, round[q].phase \in Claiming PROVE Key(q) \in keys'
    <3>1. Key(q) \in keys /\ Key(q) # Key(s)
      BY <1>2, <2>1, RoundType DEF TouchInv, KeysApart
    <3> QED BY <1>5, <3>1
  <2>2. /\ r.phase \in Claiming =>
             /\ r.of = round[s].of /\ r.number = round[s].number /\ Key(s) \in keys'
             /\ round[s].phase \in Claiming \/ Key(s) \notin keys
        /\ r.phase = "settled" => r.of \in Items
    BY <1>2, <1>3, <1>4, <1>5 DEF Claiming, Phases
  <2>3. r.phase \in Phases /\ r.of \in Items => r.number \in 1 .. MaxPitches
    BY <1>2, <1>4 DEF Phases, TouchInv, KeysApart
  <2> QED BY <1>4, <2>1, <2>2, <2>3, KeysStay
<1>8. RetentionTypeOK'
  <2>1. keys' \subseteq Things \X Nat /\ reminded' \subseteq Leads
    BY <1>1, <1>5 DEF TouchInv, RetentionTypeOK
  <2>2. {recent, near, onTheWay, touches, faults}' \subseteq Nat
    BY <1>1 DEF TouchInv, RetentionTypeOK
  <2> QED BY <1>1, <1>7, <2>1, <2>2 DEF TouchInv, RetentionTypeOK, PassType, PassOn, Claiming
<1>9. FloorCounted' /\ FreezeCounted'
  <2> DEFINE a == Count(InChannel)  a1 == Count(InChannel)'  c == Count(Accepted)  c1 == Count(Accepted)'
  <2>1. a1 = a /\ (~sent => c1 = c) /\ c1 \in Nat
    BY <1>1, <1>3, <1>4, <1>6, ChannelMoves
  <2>8. Count(Underway)' = Count(Underway)
    BY <1>1, <1>3, <1>4, <1>6, UnderwayMoves
  <2>2. a \in Nat /\ c \in Nat /\ Cardinality(Scanners) \in Nat /\ a + c <= Cardinality(Scanners)
    BY CountTypes, ChannelShare
  <2>3. /\ recent = 0 => near <= c + faults
        /\ recent > 0 => near + a <= Cardinality(Scanners) + faults
        /\ ~wired => near = 0 /\ recent = 0
    BY DEF TouchInv, FloorCounted
  <2>4. recent \in Nat /\ near \in Nat /\ faults \in Nat
    BY DEF TouchInv, RetentionTypeOK
  <2>5. near' = near /\ faults' = faults /\ wired' = wired
        /\ recent' = IF sent /\ wired THEN recent + 1 ELSE recent
    BY <1>1
  <2> HIDE DEF a, a1, c, c1, sent
  <2>6. /\ recent' = 0 => near' <= c1 + faults'
        /\ recent' > 0 => near' + a1 <= Cardinality(Scanners) + faults'
        /\ ~wired' => near' = 0 /\ recent' = 0
    BY <2>1, <2>2, <2>3, <2>4, <2>5
  <2>7. FreezeCounted'
    BY <1>1, <2>1, <2>8 DEF a, a1, TouchInv, FreezeCounted, DeliveriesCounted, ComplaintFreezes
  <2> QED BY <2>6, <2>7 DEF a1, c1, FloorCounted
<1>10. ASSUME NEW i \in Items
       PROVE  /\ reached'[i] + held'[i] + Count(Unsent(i))' <= Cardinality(Numbers(i))' + faults'
              /\ Count(Planned(i))' = Count(Planned(i))
  <2> DEFINE u == Count(Unsent(i))  u1 == Count(Unsent(i))'
             c == Cardinality(Numbers(i))  c1 == Cardinality(Numbers(i))'
  <2>1. /\ Count(Planned(i))' = Count(Planned(i))
        /\ t = i /\ round[s].phase = "blocked" => u1 = u - 1
        /\ t # i \/ round[s].phase # "blocked" => u1 = u
    BY <1>1, <1>3, <1>4, <1>6, ItemMoves DEF OpenPhases
  <2>2. IF t = i /\ round[s].phase = "blocked" THEN c1 = c - 1 ELSE c1 = c
    <3>1. CASE t = i /\ round[s].phase = "blocked"
      <4>1. n \in Numbers(i) /\ Numbers(i)' = Numbers(i) \ {n}
        <5>1. n \in 1 .. MaxPitches
          BY <1>2, <3>1 DEF TouchInv, KeysApart
        <5> QED BY <1>3, <1>5, <3>1, <5>1 DEF Numbers
      <4>2. Cardinality(Numbers(i) \ {n}) = Cardinality(Numbers(i)) - 1
        BY <4>1, NumbersType, FS_RemoveElement
      <4> QED BY <3>1, <4>1, <4>2
    <3>2. CASE t = i /\ round[s].phase # "blocked"
      <4>1. UNCHANGED keys
        BY <1>5, <3>2
      <4> QED BY <3>2, <4>1, NumbersStay
    <3>3. CASE t # i
      <4>1. Numbers(i)' = Numbers(i)
        BY <1>3, <1>5, <3>3 DEF Numbers
      <4> QED BY <3>3, <4>1
    <3> QED BY <3>1, <3>2, <3>3
  <2>3. u \in Nat /\ c \in Nat /\ reached[i] \in Nat /\ held[i] \in Nat /\ faults \in Nat
    BY CountTypes DEF TouchInv, RetentionTypeOK, Things
  <2>4. reached[i] + held[i] + u <= c + faults
    BY DEF TouchInv, PitchesCounted
  <2> HIDE DEF u, u1, c, c1
  <2>5. reached'[i] + held'[i] + u1 <= c1 + faults'
    BY <1>1, <2>1, <2>2, <2>3, <2>4
  <2> QED BY <2>1, <2>5 DEF u1, c1
<1>11. ClosedCounted'
  BY <1>1, <1>10 DEF TouchInv, ClosedCounted
<1> QED BY <1>7, <1>8, <1>9, <1>10, <1>11 DEF TouchInv, PitchesCounted

\* The re-pitch is counted and the pass ends; the item stands open again.
LEMMA RepitchTouch == ASSUME TouchInv, NEW s \in Scanners, RecordRepitch(s) PROVE TouchInv'
<1> DEFINE t == round[s].of
<1>1. /\ round[s].phase = "settled" /\ Becomes(s, NoPass)
      /\ status' = [status EXCEPT ![t] = "RE_PITCHED"]
      /\ count' = [count EXCEPT ![t] = count[t] + 1] /\ after' = [after EXCEPT ![t] = 0]
      /\ UNCHANGED <<wired, keys, reminded, recent, touches, held, answer, recovery, frozen,
                     onTheWay, reached, near, sold, faults>>
  BY DEF RecordRepitch, Becomes, touchVars, complaintVars, customerVars
<1>2. t \in Items /\ round \in [Scanners -> PassType] /\ NoPass \in PassType /\ NoPass.phase = "idle"
  BY <1>1, RoundType DEF TouchInv, KeysApart, PassType, NoPass
<1>3. /\ KeysApart' /\ round' \in [Scanners -> PassType]
      /\ \A q \in Scanners : round'[q].phase \in Claiming => Key(q)' \in keys'
  BY <1>1, <1>2, RoundType, KeysStay DEF Claiming, Phases
<1>4. RetentionTypeOK'
  <2>1. status' \in [Items -> {"none"} \cup Pitchable \cup Closed]
    BY <1>1, <1>2 DEF TouchInv, RetentionTypeOK, Pitchable
  <2>2. count' \in [Items -> Nat] /\ after' \in [Items -> Nat]
    BY <1>1, <1>2 DEF TouchInv, RetentionTypeOK
  <2> QED BY <1>1, <1>3, <2>1, <2>2 DEF TouchInv, RetentionTypeOK, PassType, PassOn, Claiming
<1>5. Count(InChannel)' = Count(InChannel) /\ Count(Accepted)' = Count(Accepted)
  BY <1>1, <1>2, ChannelMoves
<1>9. Count(Underway)' = Count(Underway)
  BY <1>1, <1>2, UnderwayMoves
<1>6. \A i \in Items : Count(Unsent(i))' = Count(Unsent(i)) /\ Count(Planned(i))' = Count(Planned(i))
  BY <1>1, <1>2, ItemMoves DEF OpenPhases
<1>7. PitchesCounted' /\ FloorCounted' /\ FreezeCounted'
  BY <1>1, <1>5, <1>6, <1>9, NumbersStay DEF TouchInv, PitchesCounted, FloorCounted, FreezeCounted, DeliveriesCounted, ComplaintFreezes
<1>8. ClosedCounted'
  BY <1>1, <1>2, <1>6 DEF TouchInv, RetentionTypeOK, ClosedCounted, Closed
<1> QED BY <1>3, <1>4, <1>7, <1>8 DEF TouchInv

\* A held message goes out, or is refused: either way it is held no longer.
LEMMA ReleaseTouch == ASSUME TouchInv, NEW t \in Things, ReleaseHeld(t) PROVE TouchInv'
<1>1. /\ held[t] > 0 /\ held' = [held EXCEPT ![t] = held[t] - 1]
      /\ Reach(t, "held") \/ UNCHANGED customerVars
      /\ UNCHANGED <<wired, status, count, after, keys, reminded, recent, touches, round, answer, recovery,
                     frozen, onTheWay, faults>>
  BY DEF ReleaseHeld, ledgerVars, touchVars, complaintVars
<1>2. /\ held \in [Things -> Nat] /\ reached \in [Items -> Nat] /\ near \in Nat
      /\ sold \in [{"pass", "held"} -> Nat] /\ faults \in Nat
  BY DEF TouchInv, RetentionTypeOK
<1>3. PICK b \in {0, 1} : reached' = Told(t, b)
  <2>1. UNCHANGED customerVars => reached' = Told(t, 0)
    BY <1>2 DEF customerVars, Told
  <2>2. Reach(t, "held") => reached' = Told(t, 1)
    BY DEF Reach, Told
  <2> QED BY <1>1, <2>1, <2>2
<1>4. near' = near /\ sold'.pass = sold.pass /\ sold' \in [{"pass", "held"} -> Nat]
  <2>1. CASE UNCHANGED customerVars
    BY <1>2, <2>1 DEF customerVars
  <2>2. CASE Reach(t, "held")
    <3>1. near' = near /\ sold' = IF frozen THEN [sold EXCEPT !["held"] = sold["held"] + 1] ELSE sold
      BY <2>2 DEF Reach
    <3> QED BY <1>2, <3>1
  <2> QED BY <1>1, <2>1, <2>2
<1>5. RetentionTypeOK'
  <2>1. held' \in [Things -> Nat] /\ reached' \in [Items -> Nat]
    BY <1>1, <1>2, <1>3 DEF Told
  <2>2. {recent, near, onTheWay, touches, faults}' \subseteq Nat
    BY <1>1, <1>4 DEF TouchInv, RetentionTypeOK
  <2> QED BY <1>1, <1>4, <2>1, <2>2 DEF TouchInv, RetentionTypeOK, Key
<1>6. KeysApart'
  BY <1>1 DEF TouchInv, KeysApart, Key
<1>7. FloorCounted' /\ ClosedCounted' /\ FreezeCounted'
  BY <1>1, <1>4, CountsStay DEF TouchInv, FloorCounted, ClosedCounted, FreezeCounted, DeliveriesCounted, ComplaintFreezes
<1>8. ASSUME NEW i \in Items
      PROVE  reached'[i] + held'[i] + Count(Unsent(i))' <= Cardinality(Numbers(i))' + faults'
  <2> DEFINE u == Count(Unsent(i))  c == Cardinality(Numbers(i))
  <2>1. u \in Nat /\ c \in Nat /\ reached[i] + held[i] + u <= c + faults
    BY CountTypes DEF TouchInv, PitchesCounted
  <2>2. reached[i] \in Nat /\ held[i] \in Nat /\ reached'[i] + held'[i] <= reached[i] + held[i]
    BY <1>1, <1>2, <1>3 DEF Things, Told
  <2>3. reached'[i] \in Nat /\ held'[i] \in Nat
    BY <1>5 DEF RetentionTypeOK, Things
  <2> HIDE DEF u, c
  <2>4. reached'[i] + held'[i] + u <= c + faults
    BY <1>2, <2>1, <2>2, <2>3
  <2> QED BY <1>1, <2>4, CountsStay, NumbersStay DEF u, c
<1> QED BY <1>5, <1>6, <1>7, <1>8 DEF TouchInv, PitchesCounted

\* The ledger's other writers open an item once, and close it.
LEMMA LedgerTouch ==
  ASSUME TouchInv, NEW i \in Items, Open(i) \/ Refuse(i) \/ Convert(i)
  PROVE  TouchInv'
<1>1. PICK x \in {"OPEN"} \cup Closed :
        /\ status' = [status EXCEPT ![i] = x] /\ (x = "OPEN" => status[i] = "none")
        /\ UNCHANGED <<wired, count, after, keys, reminded, recent, touches, round, held, answer, recovery,
                       frozen, onTheWay, reached, near, sold, faults>>
  BY DEF Open, Refuse, Convert, Closed, touchVars, complaintVars, customerVars
<1>2. RetentionTypeOK'
  <2>1. status' \in [Items -> {"none"} \cup Pitchable \cup Closed]
    BY <1>1 DEF TouchInv, RetentionTypeOK, Pitchable
  <2> QED BY <1>1, <2>1 DEF TouchInv, RetentionTypeOK, Key
<1>3. KeysApart' /\ PitchesCounted' /\ FloorCounted' /\ FreezeCounted'
  BY <1>1, CountsStay, NumbersStay DEF TouchInv, KeysApart, Key, PitchesCounted, FloorCounted, FreezeCounted, DeliveriesCounted, ComplaintFreezes
<1>4. ASSUME NEW j \in Items
      PROVE  /\ status'[j] \in Closed => after'[j] + Count(Planned(j))' <= Cardinality(Scanners)
             /\ status'[j] \notin Closed => after'[j] = 0
  <2>1. status'[j] = IF j = i THEN x ELSE status[j]
    BY <1>1 DEF TouchInv, RetentionTypeOK
  <2>2. /\ status[j] \in Closed => after[j] + Count(Planned(j)) <= Cardinality(Scanners)
        /\ status[j] \notin Closed => after[j] = 0
        /\ after'[j] = after[j] /\ Count(Planned(j))' = Count(Planned(j))
    BY <1>1, CountsStay DEF TouchInv, ClosedCounted
  <2>3. Count(Planned(j)) \in Nat /\ Count(Planned(j)) <= Cardinality(Scanners)
    BY CountTypes
  <2> QED BY <1>1, <2>1, <2>2, <2>3 DEF Closed
<1> QED BY <1>2, <1>3, <1>4 DEF TouchInv, ClosedCounted

\* The floor's days have gone by.
LEMMA ElapseTouch == ASSUME TouchInv, FloorElapses PROVE TouchInv'
<1>1. /\ recent' = 0 /\ near' = 0
      /\ UNCHANGED <<wired, status, count, after, keys, reminded, touches, round, held, answer, recovery,
                     frozen, onTheWay, reached, sold, faults>>
  BY DEF FloorElapses, ledgerVars, complaintVars
<1>2. RetentionTypeOK'
  <2>1. {recent, near, onTheWay, touches, faults}' \subseteq Nat
    BY <1>1 DEF TouchInv, RetentionTypeOK
  <2> QED BY <1>1, <2>1 DEF TouchInv, RetentionTypeOK, Key
<1>3. KeysApart' /\ PitchesCounted' /\ ClosedCounted' /\ FreezeCounted'
  BY <1>1, CountsStay, NumbersStay DEF TouchInv, KeysApart, Key, PitchesCounted, ClosedCounted, FreezeCounted, DeliveriesCounted, ComplaintFreezes
<1>4. FloorCounted'
  <2>1. Count(Accepted)' \in Nat /\ faults' \in Nat
    BY <1>1, CountsStay, CountTypes DEF TouchInv, RetentionTypeOK
  <2> QED BY <1>1, <2>1 DEF FloorCounted
<1> QED BY <1>2, <1>3, <1>4 DEF TouchInv

\* The complaint's steps touch neither the ledger nor a pass.
LEMMA ComplaintTouch ==
  ASSUME TouchInv, UNCHANGED <<wired, ledgerVars, touchVars, round, held, customerVars>>,
         /\ answer' \in {"asked", "NEGATIVE"} /\ recovery' \in RecoveryPhases
         /\ frozen' \in BOOLEAN /\ onTheWay' \in Nat,
         faults' = faults \/ faults' = faults + 1,
         FreezeCounted'
  PROVE  TouchInv'
<1>1. UNCHANGED <<wired, status, count, after, keys, reminded, recent, touches, round, held, reached, near, sold>>
  BY DEF ledgerVars, touchVars, customerVars
<1>2. {recent, near, touches, faults} \subseteq Nat
  BY DEF TouchInv, RetentionTypeOK
<1>6. faults \in Nat /\ faults' \in Nat /\ faults <= faults'
  BY <1>2
<1>3. RetentionTypeOK'
  <2>1. {recent, near, onTheWay, touches, faults}' \subseteq Nat
    BY <1>1, <1>2, <1>6
  <2> QED BY <1>1, <2>1 DEF TouchInv, RetentionTypeOK, Key, RecoveryPhases
<1>4. KeysApart' /\ ClosedCounted'
  BY <1>1, CountsStay DEF TouchInv, KeysApart, Key, ClosedCounted
<1>5. PitchesCounted'
  <2>1. ASSUME NEW i \in Items
        PROVE  reached'[i] + held'[i] + Count(Unsent(i))' <= Cardinality(Numbers(i))' + faults'
    <3> DEFINE u == Count(Unsent(i))  c == Cardinality(Numbers(i))
    <3>1. u \in Nat /\ c \in Nat /\ reached[i] \in Nat /\ held[i] \in Nat
      BY CountTypes DEF TouchInv, RetentionTypeOK, Things
    <3>2. reached[i] + held[i] + u <= c + faults
      BY DEF TouchInv, PitchesCounted
    <3> HIDE DEF u, c
    <3>3. reached[i] + held[i] + u <= c + faults'
      BY <1>6, <3>1, <3>2
    <3> QED BY <1>1, <3>3, CountsStay, NumbersStay DEF u, c
  <2> QED BY <2>1 DEF PitchesCounted
<1>7. FloorCounted'
  <2> DEFINE a == Count(InChannel)  c == Count(Accepted)
  <2>1. a \in Nat /\ c \in Nat /\ Cardinality(Scanners) \in Nat /\ near \in Nat /\ recent \in Nat
    BY <1>2, CountTypes
  <2>2. /\ recent = 0 => near <= c + faults
        /\ recent > 0 => near + a <= Cardinality(Scanners) + faults
    BY DEF TouchInv, FloorCounted
  <2> HIDE DEF a, c
  <2>3. ASSUME near <= c + faults PROVE near <= c + faults'
    <3>1. faults' = faults \/ faults' = faults + 1
      OBVIOUS
    <3>2. faults \in Nat /\ near \in Nat /\ c \in Nat
      BY <1>6, <2>1
    <3> QED BY <2>3, <3>1, <3>2
  <2>4. ASSUME near + a <= Cardinality(Scanners) + faults PROVE near + a <= Cardinality(Scanners) + faults'
    BY <1>6, <2>1, <2>4
  <2>5. /\ recent = 0 => near <= c + faults'
        /\ recent > 0 => near + a <= Cardinality(Scanners) + faults'
    BY <2>1, <2>2, <2>3, <2>4
  <2>6. ~wired => near = 0 /\ recent = 0
    BY DEF TouchInv, FloorCounted
  <2> QED BY <1>1, <2>5, <2>6, CountsStay DEF a, c, FloorCounted
<1> QED BY <1>3, <1>4, <1>5, <1>7 DEF TouchInv

\* The passes beyond the last look at the freeze, as a class.
LEMMA BeyondCounted ==
  ASSUME TouchInv
  PROVE  Cardinality(Beyond) = IF wired THEN Count(InChannel) ELSE Count(Underway)
<1>1. ASSUME NEW s \in Scanners
      PROVE  /\ (round[s] \in InChannel) <=> (round[s].phase = "sending")
             /\ (round[s] \in Underway) <=> (round[s].phase \in {"claimed", "sending"})
  <2>1. round[s] \in PassType
    BY RoundType
  <2> QED BY <2>1, Classes
<1>2. CASE wired
  <2>1. ASSUME NEW s \in Scanners PROVE (s \in Beyond) <=> (s \in Passes(InChannel))
    <3>1. (s \in Beyond) <=> (round[s].phase = "sending")
      BY <1>2 DEF Beyond
    <3>2. (s \in Passes(InChannel)) <=> (round[s] \in InChannel)
      BY DEF Passes
    <3> QED BY <1>1, <3>1, <3>2
  <2>2. Beyond \subseteq Scanners /\ Passes(InChannel) \subseteq Scanners
    BY DEF Beyond, Passes
  <2>3. Beyond = Passes(InChannel)
    BY <2>1, <2>2
  <2> QED BY <1>2, <2>3 DEF Count
<1>3. CASE ~wired
  <2>1. ASSUME NEW s \in Scanners PROVE (s \in Beyond) <=> (s \in Passes(Underway))
    <3>1. (s \in Beyond) <=> (round[s].phase \in {"claimed", "sending"})
      BY <1>3 DEF Beyond
    <3>2. (s \in Passes(Underway)) <=> (round[s] \in Underway)
      BY DEF Passes
    <3> QED BY <1>1, <3>1, <3>2
  <2>2. Beyond \subseteq Scanners /\ Passes(Underway) \subseteq Scanners
    BY DEF Beyond, Passes
  <2>3. Beyond = Passes(Underway)
    BY <2>1, <2>2
  <2> QED BY <1>3, <2>3 DEF Count
<1> QED BY <1>2, <1>3

LEMMA RecoveryTouch ==
  ASSUME TouchInv, RecoveryStep \/ CrashRecovery
  PROVE  TouchInv'
<1> USE DEF RecoveryStep
<1>1. /\ answer \in {"asked", "NEGATIVE"} /\ recovery \in RecoveryPhases
      /\ frozen \in BOOLEAN /\ wired \in BOOLEAN
      /\ onTheWay \in Nat /\ sold.pass \in Nat /\ faults \in Nat
  BY DEF TouchInv, RetentionTypeOK, RecoveryPhases
<1>2. Count(InChannel) \in Nat /\ Count(Underway) \in Nat
  BY CountTypes
<1>3. CASE Complain
  <2>1. UNCHANGED <<wired, ledgerVars, touchVars, round, held, frozen, onTheWay, customerVars, faults>>
        /\ answer = "asked" /\ answer' = "NEGATIVE" /\ recovery' = "answered"
    BY <1>3 DEF Complain
  <2>2. FreezeCounted'
    BY <2>1, CountsStay DEF TouchInv, FreezeCounted, DeliveriesCounted, ComplaintFreezes, customerVars
  <2> QED BY <1>1, <2>1, <2>2, ComplaintTouch DEF RecoveryPhases
<1>4. CASE OpenHold
  <2>1. UNCHANGED <<wired, ledgerVars, touchVars, round, held, answer, customerVars, faults>>
        /\ recovery = "answered" /\ frozen' = TRUE /\ onTheWay' = Cardinality(Beyond) /\ recovery' = "held"
    BY <1>4 DEF OpenHold
  <2>2. Cardinality(Beyond) = IF wired THEN Count(InChannel) ELSE Count(Underway)
    BY BeyondCounted
  <2>3. FreezeCounted'
    <3>1. ~frozen /\ sold.pass = 0 /\ answer # "asked"
      BY <2>1 DEF TouchInv, FreezeCounted
    <3>2. DeliveriesCounted'
      BY <1>2, <2>1, <2>2, <3>1, CountsStay DEF customerVars, DeliveriesCounted
    <3> QED BY <2>1, <3>1, <3>2 DEF FreezeCounted, ComplaintFreezes
  <2> QED BY <1>1, <1>2, <2>1, <2>2, <2>3, ComplaintTouch DEF RecoveryPhases
<1>5. CASE CreateTask \/ AttachRecovery \/ CrashRecovery
  <2>1. /\ UNCHANGED <<wired, ledgerVars, touchVars, round, held, answer, frozen, onTheWay, customerVars>>
        /\ faults' = faults \/ faults' = faults + 1
        /\ recovery' = recovery \/ (recovery' \in {"tasked", "attached", "broken"} /\ recovery # "idle")
        /\ recovery = "answered" => recovery' = "answered" \/ faults' = faults + 1
    <3>1. CASE CreateTask
      BY <1>1, <3>1 DEF CreateTask
    <3>2. CASE AttachRecovery
      BY <1>1, <3>2 DEF AttachRecovery
    <3>4. CASE CrashRecovery
      BY <1>1, <3>4 DEF CrashRecovery
    <3> QED BY <1>5, <3>1, <3>2, <3>4
  <2>2. FreezeCounted'
    <3>1. Count(InChannel)' = Count(InChannel) /\ Count(Underway)' = Count(Underway) /\ sold' = sold
      BY <2>1, CountsStay DEF customerVars
    <3>2. faults > 0 => faults' > 0
      BY <1>1, <2>1
    <3>3. faults' = faults + 1 => faults' > 0
      BY <1>1
    <3> QED BY <2>1, <3>1, <3>2, <3>3 DEF TouchInv, FreezeCounted, DeliveriesCounted, ComplaintFreezes
  <2> QED BY <1>1, <2>1, <2>2, ComplaintTouch DEF RecoveryPhases
<1> QED BY <1>3, <1>4, <1>5

LEMMA TouchStep == TouchInv /\ [Next]_vars => TouchInv'
<1> SUFFICES ASSUME TouchInv, [Next]_vars PROVE TouchInv'
  OBVIOUS
<1>1. CASE UNCHANGED vars
  <2>1. UNCHANGED <<wired, status, count, after, keys, reminded, recent, touches, round, held, answer,
                    recovery, frozen, onTheWay, reached, near, sold, faults>>
    BY <1>1 DEF vars, ledgerVars, touchVars, complaintVars, customerVars
  <2>2. RetentionTypeOK' /\ KeysApart'
    BY <2>1 DEF TouchInv, RetentionTypeOK, KeysApart, Key
  <2>3. PitchesCounted' /\ FloorCounted' /\ ClosedCounted' /\ FreezeCounted'
    BY <2>1, CountsStay, NumbersStay DEF TouchInv, PitchesCounted, FloorCounted, ClosedCounted, FreezeCounted, DeliveriesCounted, ComplaintFreezes
  <2> QED BY <2>2, <2>3 DEF TouchInv
<1>2. ASSUME NEW s \in Scanners, PassStep(s) PROVE TouchInv'
  BY <1>2, ClaimTouch, DecideTouch, ChannelTouch, SettleTouch, RepitchTouch DEF PassStep
<1>3. ASSUME NEW s \in Scanners, CrashPass(s) PROVE TouchInv'
  <2>1. round[s] # NoPass /\ faults' = faults + 1 /\ Becomes(s, NoPass)
        /\ UNCHANGED <<wired, ledgerVars, touchVars, held, complaintVars, customerVars>>
    BY <1>3 DEF CrashPass, Becomes
  <2>2. round[s].phase \in Phases
    BY <2>1 DEF TouchInv, RetentionTypeOK
  <2> QED BY <2>1, <2>2, PassEnds
<1>4. ASSUME NEW s \in Scanners, NEW t \in Things, Plan(s, t) PROVE TouchInv'
  BY <1>4, PlanTouch
<1>5. ASSUME NEW t \in Things, ReleaseHeld(t) PROVE TouchInv'
  BY <1>5, ReleaseTouch
<1>6. ASSUME NEW i \in Items, Open(i) \/ Refuse(i) \/ Convert(i) PROVE TouchInv'
  BY <1>6, LedgerTouch
<1>7. CASE FloorElapses
  BY <1>7, ElapseTouch
<1>8. CASE RecoveryStep \/ CrashRecovery
  BY <1>8, RecoveryTouch
<1> QED BY <1>1, <1>2, <1>3, <1>4, <1>5, <1>6, <1>7, <1>8 DEF Next

LEMMA TouchesKept == Spec => []TouchInv
<1>1. Init => TouchInv
  BY TouchInit
<1>2. TouchInv /\ [Next]_vars => TouchInv'
  BY TouchStep
<1> QED BY <1>1, <1>2, PTL DEF Spec

\* How much the shop writes (claim, retentionDecision, settle and recordRepitch):
\* the customer hears of an item at most maxRepitchesPerItem times and once more
\* a fault, and a closed item is claimed only by the passes in progress, whatever
\* their number and whether or not the gate asks; where it asks, the floor is
\* overshot by less than the passes there are.
THEOREM TouchesAlwaysBounded == Spec => []TouchesAreBounded
<1>1. ASSUME TouchInv PROVE TouchesAreBounded
  <2>1. PitchesBounded
    <3>1. ASSUME NEW i \in Items PROVE reached[i] <= MaxPitches + faults
      <4>1. reached[i] + held[i] + Count(Unsent(i)) <= Cardinality(Numbers(i)) + faults
        BY <1>1 DEF TouchInv, PitchesCounted
      <4>2. Count(Unsent(i)) \in Nat /\ Cardinality(Numbers(i)) \in Nat /\ Cardinality(Numbers(i)) <= MaxPitches
        BY CountTypes, NumbersType
      <4>3. reached[i] \in Nat /\ held[i] \in Nat /\ faults \in Nat /\ MaxPitches \in Nat
        BY <1>1, RetentionConstants DEF TouchInv, RetentionTypeOK, Things
      <4> QED BY <4>1, <4>2, <4>3
    <3> QED BY <3>1 DEF PitchesBounded
  <2>2. FloorOvershootsByPasses
    <3>1. /\ recent = 0 => near <= Count(Accepted) + faults
          /\ recent > 0 => near + Count(InChannel) <= Cardinality(Scanners) + faults
      BY <1>1 DEF TouchInv, FloorCounted
    <3>2. /\ Count(Accepted) \in Nat /\ Count(InChannel) \in Nat /\ Cardinality(Scanners) \in Nat
          /\ Count(Accepted) <= Cardinality(Scanners)
      BY CountType
    <3>3. recent \in Nat /\ near \in Nat /\ faults \in Nat
      BY <1>1 DEF TouchInv, RetentionTypeOK
    <3> QED BY <3>1, <3>2, <3>3 DEF FloorOvershootsByPasses
  <2>3. ClosedItemRests
    <3>1. ASSUME NEW i \in Items PROVE after[i] <= Cardinality(Scanners)
      <4>1. /\ status[i] \in Closed => after[i] + Count(Planned(i)) <= Cardinality(Scanners)
            /\ status[i] \notin Closed => after[i] = 0
        BY <1>1 DEF TouchInv, ClosedCounted
      <4>2. Count(Planned(i)) \in Nat /\ Cardinality(Scanners) \in Nat /\ after[i] \in Nat
        BY <1>1, CountTypes DEF TouchInv, RetentionTypeOK
      <4> QED BY <4>1, <4>2
    <3> QED BY <3>1 DEF ClosedItemRests
  <2> QED BY <1>1, <2>1, <2>2, <2>3 DEF TouchInv, TouchesAreBounded
<1> QED BY <1>1, TouchesKept, PTL

\* What a complaint stops (recordAnswer, raiseRecovery, claim and retentionDecision):
\* from the hold on, a pass delivers only what was in the channel before, or what
\* was claimed before if the gate has no reader of the freeze; and a complaint
\* without a hold is one whose call is in progress or died.
THEOREM FreezeAlwaysHolds == Spec => []FreezeHolds
<1>1. ASSUME TouchInv PROVE FreezeHolds
  <2>1. Cardinality(Beyond) = IF wired THEN Count(InChannel) ELSE Count(Underway)
    BY <1>1, BeyondCounted
  <2>2. FreezeStopsThePass
    BY <1>1, <2>1 DEF TouchInv, FreezeCounted, DeliveriesCounted, FreezeStopsThePass
  <2> QED BY <1>1, <2>2 DEF TouchInv, FreezeCounted, FreezeHolds
<1> QED BY <1>1, TouchesKept, PTL
=============================================================================
