--------------------------- MODULE CustomerProofs ---------------------------
(***************************************************************************)
(* What one customer is told, and the staff group of a silent bay, for any *)
(* number of messages, calls, workers and bays.                            *)
(***************************************************************************)
EXTENDS SilentBay, EtaLedger, FiniteSetTheorems, TLAPS

(* The silent bays. *)

Sweep == [window : 0..MaxWindow, todo : SUBSET Bays, mine : SUBSET Bays,
          phase : {"idle", "claiming", "sent"}]

BayTypeOK ==
  /\ now \in 1..MaxWindow /\ heardFrom \subseteq Bays
  /\ scan \in [Watchers -> Sweep]
  /\ nudge \in [Slot -> Nat] /\ named \in [Slot -> Nat]
  /\ raised \subseteq Slot /\ lostScans \in Nat

\* What a scan has claimed is its own, on record, and not yet named.
ScanOf(w) ==
  /\ scan[w].phase = "idle" => scan[w] = NoSweep
  /\ scan[w].phase # "idle" => scan[w].window \in 1..MaxWindow
  /\ \A b \in scan[w].mine :
       /\ nudge[<<b, scan[w].window>>] > 0
       /\ scan[w].phase = "claiming" => named[<<b, scan[w].window>>] = 0
  /\ \A v \in Watchers \ {w} : scan[v].window = scan[w].window => scan[v].mine \cap scan[w].mine = {}

\* No count is ahead of the windows on record.
CountsAreBacked ==
  /\ \A s \in Slot : nudge[s] = 0 => named[s] = 0
  /\ \A s \in Slot : nudge[s] <= Cardinality(RowsOf(s[1]))
  /\ \A s \in raised : nudge[s] >= Escalation

BayInv ==
  /\ BayTypeOK /\ CountsAreBacked /\ LongSilenceIsRaised
  /\ \A s \in Slot : named[s] <= 1
  /\ \A w \in Watchers : ScanOf(w)

LEMMA RowsAreFinite ==
  ASSUME NEW b PROVE IsFiniteSet(RowsOf(b)) /\ Cardinality(RowsOf(b)) \in Nat
<1>1. IsFiniteSet(1..MaxWindow) BY SilentBayConstants, FS_Interval
<1>2. RowsOf(b) \subseteq 1..MaxWindow BY DEF RowsOf
<1>3. QED BY <1>1, <1>2, FS_Subset, FS_CardinalityType

LEMMA BayInitInv == SilentBayInit => BayInv
<1>1. SUFFICES ASSUME SilentBayInit PROVE BayInv OBVIOUS
<1>2. BayTypeOK
  BY <1>1, SilentBayConstants DEF SilentBayInit, BayTypeOK, Sweep, NoSweep, Slot
<1>3. CountsAreBacked
  <2>1. \A s \in Slot : nudge[s] = 0 /\ named[s] = 0 BY <1>1 DEF SilentBayInit
  <2>2. \A s \in Slot : nudge[s] <= Cardinality(RowsOf(s[1])) BY <2>1, RowsAreFinite
  <2>3. QED BY <1>1, <2>1, <2>2 DEF CountsAreBacked, SilentBayInit
<1>4. LongSilenceIsRaised BY <1>1, SilentBayConstants DEF SilentBayInit, LongSilenceIsRaised
<1>5. \A w \in Watchers : ScanOf(w) BY <1>1 DEF SilentBayInit, ScanOf, NoSweep
<1>6. \A s \in Slot : named[s] <= 1 BY <1>1 DEF SilentBayInit
<1>7. QED BY <1>2, <1>3, <1>4, <1>5, <1>6 DEF BayInv

\* The claims read neither the clock nor who was heard from.
LEMMA ClockInv ==
  ASSUME BayInv, NextWindow \/ (\E b \in Bays : Signal(b)) \/ UNCHANGED bayVars
  PROVE  BayInv'
<1>1. UNCHANGED <<scan, nudge, named, raised, lostScans>> BY DEF NextWindow, Signal, bayVars
<1>2. BayTypeOK' BY SilentBayConstants DEF NextWindow, Signal, bayVars, BayInv, BayTypeOK
<1>3. CountsAreBacked' BY <1>1 DEF BayInv, CountsAreBacked, RowsOf
<1>4. LongSilenceIsRaised' BY <1>1 DEF BayInv, LongSilenceIsRaised
<1>5. \A w \in Watchers : ScanOf(w)' BY <1>1 DEF BayInv, ScanOf
<1>6. QED BY <1>1, <1>2, <1>3, <1>4, <1>5 DEF BayInv

LEMMA StartSweepInv == ASSUME BayInv, NEW w \in Watchers, StartSweep(w) PROVE BayInv'
<1> DEFINE new == [window |-> now, todo |-> Bays \ heardFrom, mine |-> {}, phase |-> "claiming"]
<1>1. /\ scan' = [scan EXCEPT ![w] = new] /\ scan[w] = NoSweep
      /\ UNCHANGED <<now, heardFrom, nudge, named, raised, lostScans>>
  BY DEF StartSweep
<1>2. /\ scan'[w].mine = {} /\ scan'[w].phase = "claiming" /\ scan'[w].window \in 1..MaxWindow
      /\ \A v \in Watchers \ {w} : scan'[v] = scan[v]
  BY <1>1 DEF BayInv, BayTypeOK
<1>3. BayTypeOK' BY <1>1 DEF BayInv, BayTypeOK, Sweep
<1>4. CountsAreBacked' BY <1>1 DEF BayInv, CountsAreBacked, RowsOf
<1>5. LongSilenceIsRaised'
  BY <1>1, <1>2 DEF BayInv, LongSilenceIsRaised, NoSweep
<1>6. \A v \in Watchers : ScanOf(v)' BY <1>1, <1>2 DEF BayInv, ScanOf, NoSweep
<1>7. QED BY <1>1, <1>3, <1>4, <1>5, <1>6 DEF BayInv

\* A scan that forgets what it had claimed.
LEMMA ForgetInv ==
  ASSUME BayInv, NEW w \in Watchers, scan' = [scan EXCEPT ![w] = NoSweep],
         UNCHANGED <<now, heardFrom, nudge, named>>, lostScans' \in Nat, raised' \subseteq Slot,
         \A s \in raised' : nudge[s] >= Escalation, LongSilenceIsRaised'
  PROVE  BayInv'
<1>1. /\ scan'[w] = NoSweep /\ \A v \in Watchers \ {w} : scan'[v] = scan[v]
  BY DEF BayInv, BayTypeOK
<1>2. NoSweep \in Sweep BY SilentBayConstants DEF NoSweep, Sweep
<1>3. BayTypeOK' BY <1>2 DEF BayInv, BayTypeOK
<1>4. CountsAreBacked' BY DEF BayInv, CountsAreBacked, RowsOf
<1>5. \A v \in Watchers : ScanOf(v)' BY <1>1 DEF BayInv, ScanOf, NoSweep
<1>6. QED BY <1>3, <1>4, <1>5 DEF BayInv

LEMMA FailSweepInv == ASSUME BayInv, NEW w \in Watchers, FailSweep(w) PROVE BayInv'
<1>1. lostScans' \in Nat /\ lostScans' > 0 BY DEF FailSweep, BayInv, BayTypeOK
<1>2. LongSilenceIsRaised' BY <1>1 DEF LongSilenceIsRaised
<1>3. raised' \subseteq Slot /\ \A s \in raised' : nudge[s] >= Escalation
  BY DEF FailSweep, BayInv, BayTypeOK, CountsAreBacked
<1>4. QED BY <1>1, <1>2, <1>3, ForgetInv DEF FailSweep

LEMMA FinishSweepInv == ASSUME BayInv, NEW w \in Watchers, FinishSweep(w) PROVE BayInv'
<1> DEFINE k == scan[w].window
           due == {c \in scan[w].mine : nudge[<<c, k>>] >= Escalation}
<1>1. raised' = raised \cup {<<b, k>> : b \in due} /\ UNCHANGED <<now, heardFrom, nudge, named, lostScans>>
      /\ scan' = [scan EXCEPT ![w] = NoSweep] /\ scan[w].phase = "sent"
  BY DEF FinishSweep, Escalates
<1>2. k \in 1..MaxWindow /\ scan[w].mine \subseteq Bays
  BY <1>1 DEF BayInv, BayTypeOK, ScanOf, Sweep
<1>3. raised' \subseteq Slot BY <1>1, <1>2 DEF BayInv, BayTypeOK, Slot
<1>4. \A s \in raised' : nudge[s] >= Escalation BY <1>1 DEF BayInv, CountsAreBacked
<1>5. LongSilenceIsRaised'
  <2>1. SUFFICES ASSUME NEW s \in Slot, nudge[s] >= Escalation, ~(lostScans > 0)
                 PROVE  s \in raised' \/ \E v \in Watchers : scan'[v].window = s[2] /\ s[1] \in scan'[v].mine
    BY <1>1 DEF LongSilenceIsRaised
  <2>2. CASE s \in raised BY <1>1, <2>2
  <2>3. CASE s \notin raised
    <3>1. PICK v \in Watchers : scan[v].window = s[2] /\ s[1] \in scan[v].mine
      BY <2>1, <2>3 DEF BayInv, LongSilenceIsRaised
    <3>2. CASE v = w
      <4>1. s = <<s[1], k>> BY <3>1, <3>2 DEF Slot
      <4>2. s[1] \in due BY <2>1, <3>1, <3>2, <4>1
      <4>3. QED BY <1>1, <4>1, <4>2
    <3>3. CASE v # w BY <1>1, <3>1, <3>3 DEF BayInv, BayTypeOK
    <3>4. QED BY <3>2, <3>3
  <2>4. QED BY <2>2, <2>3
<1>6. lostScans' \in Nat BY <1>1 DEF BayInv, BayTypeOK
<1>7. QED BY <1>1, <1>3, <1>4, <1>5, <1>6, ForgetInv

LEMMA SendNudgeInv == ASSUME BayInv, NEW w \in Watchers, SendNudge(w) PROVE BayInv'
<1> DEFINE k == scan[w].window
<1>1. CASE scan[w].mine = {}
  <2>1. scan' = [scan EXCEPT ![w] = NoSweep]
        /\ UNCHANGED <<now, heardFrom, nudge, named, raised, lostScans>>
    BY <1>1 DEF SendNudge
  <2>2. LongSilenceIsRaised'
    BY <1>1, <2>1 DEF BayInv, BayTypeOK, LongSilenceIsRaised
  <2>3. QED BY <2>1, <2>2, ForgetInv DEF BayInv, BayTypeOK, CountsAreBacked
<1>2. CASE scan[w].mine # {}
  <2>1. /\ scan' = [scan EXCEPT ![w].phase = "sent"] /\ scan[w].phase = "claiming"
        /\ named' \in {named, [s \in Slot |-> IF s[1] \in scan[w].mine /\ s[2] = k
                                                THEN named[s] + 1 ELSE named[s]]}
        /\ UNCHANGED <<now, heardFrom, nudge, raised, lostScans>>
    BY <1>2 DEF SendNudge
  <2>2. /\ scan'[w].mine = scan[w].mine /\ scan'[w].window = k /\ scan'[w].phase = "sent"
        /\ \A v \in Watchers \ {w} : scan'[v] = scan[v]
    BY <2>1 DEF BayInv, BayTypeOK, Sweep
  <2>3. \A s \in Slot : s[1] \in scan[w].mine /\ s[2] = k => named[s] = 0 /\ nudge[s] > 0
    <3>1. TAKE s \in Slot
    <3>2. HAVE s[1] \in scan[w].mine /\ s[2] = k
    <3>3. s = <<s[1], k>> BY <3>2 DEF Slot
    <3>4. QED BY <2>1, <3>2, <3>3 DEF BayInv, ScanOf
  <2>4. \A s \in Slot : \/ named'[s] = named[s]
                        \/ s[1] \in scan[w].mine /\ s[2] = k /\ named'[s] = 1
    BY <2>1, <2>3
  <2>5. named' \in [Slot -> Nat]
    BY <2>1 DEF BayInv, BayTypeOK
  <2>6. BayTypeOK' BY <2>1, <2>5 DEF BayInv, BayTypeOK, Sweep
  <2>7. CountsAreBacked' BY <2>1, <2>3, <2>4 DEF BayInv, CountsAreBacked, RowsOf
  <2>8. LongSilenceIsRaised'
    <3>1. \A v \in Watchers : scan'[v].mine = scan[v].mine /\ scan'[v].window = scan[v].window
      BY <2>2
    <3>2. QED BY <2>1, <3>1 DEF BayInv, LongSilenceIsRaised
  <2>9. \A s \in Slot : named'[s] <= 1 BY <2>4 DEF BayInv
  <2>10. ASSUME NEW v \in Watchers PROVE ScanOf(v)'
    <3>1. ScanOf(v) /\ ScanOf(w) BY DEF BayInv
    <3>2. CASE v = w BY <2>1, <2>2, <3>1, <3>2 DEF ScanOf
    <3>3. CASE v # w
      <4>1. scan'[v] = scan[v] /\ \A u \in Watchers : scan'[u].mine = scan[u].mine /\ scan'[u].window = scan[u].window
        BY <2>2, <3>3
      <4>2. ASSUME NEW b \in scan[v].mine, scan[v].phase = "claiming"
            PROVE  named'[<<b, scan[v].window>>] = 0
        <5>1. scan[v].window \in 1..MaxWindow /\ b \in Bays
          BY <3>1, <4>2 DEF ScanOf, BayInv, BayTypeOK, Sweep
        <5>2. <<b, scan[v].window>> \in Slot BY <5>1 DEF Slot
        <5>3. ~(b \in scan[w].mine /\ scan[v].window = k) BY <3>1, <3>3, <4>2 DEF ScanOf
        <5>4. named[<<b, scan[v].window>>] = 0 BY <3>1, <4>2 DEF ScanOf
        <5>5. QED BY <2>4, <5>2, <5>3, <5>4
      <4>3. QED BY <2>1, <3>1, <4>1, <4>2 DEF ScanOf
    <3>4. QED BY <3>2, <3>3
  <2>11. QED BY <2>6, <2>7, <2>8, <2>9, <2>10 DEF BayInv
<1>3. QED BY <1>1, <1>2

LEMMA ClaimWindowInv ==
  ASSUME BayInv, NEW w \in Watchers, NEW b \in Bays, ClaimWindow(w, b) PROVE BayInv'
<1> DEFINE k == scan[w].window
           todo == scan[w].todo \ {b}
<1>1. scan[w].phase = "claiming" /\ b \in scan[w].todo /\ UNCHANGED <<now, heardFrom, named, raised, lostScans>>
  BY DEF ClaimWindow
<1>2. k \in 1..MaxWindow /\ <<b, k>> \in Slot
  BY <1>1 DEF BayInv, ScanOf, Slot
<1>3. CASE ~Unclaimed(b, k)
  <2>1. scan' = [scan EXCEPT ![w].todo = todo] /\ nudge' = nudge BY <1>3 DEF ClaimWindow
  <2>2. /\ \A v \in Watchers : /\ scan'[v].mine = scan[v].mine /\ scan'[v].window = scan[v].window
                               /\ scan'[v].phase = scan[v].phase
        /\ \A v \in Watchers \ {w} : scan'[v] = scan[v]
    BY <2>1 DEF BayInv, BayTypeOK, Sweep
  <2>3. BayTypeOK' BY <1>1, <2>1 DEF BayInv, BayTypeOK, Sweep
  <2>4. CountsAreBacked' BY <1>1, <2>1 DEF BayInv, CountsAreBacked, RowsOf
  <2>5. LongSilenceIsRaised' BY <1>1, <2>1, <2>2 DEF BayInv, LongSilenceIsRaised
  <2>6. \A v \in Watchers : ScanOf(v)' BY <1>1, <2>1, <2>2 DEF BayInv, ScanOf
  <2>7. QED BY <1>1, <2>3, <2>4, <2>5, <2>6 DEF BayInv
<1>4. CASE Unclaimed(b, k)
  <2>1. /\ nudge' = [nudge EXCEPT ![<<b, k>>] = Previous(b, k) + 1]
        /\ scan' = [scan EXCEPT ![w].todo = todo, ![w].mine = scan[w].mine \cup {b}]
    BY <1>4 DEF ClaimWindow
  <2>2. nudge[<<b, k>>] = 0 BY <1>4 DEF Unclaimed
  <2>3. Previous(b, k) \in Nat /\ Previous(b, k) <= Cardinality(RowsOf(b))
    <3>1. {j \in RowsOf(b) : j + Lookback > k} \in SUBSET RowsOf(b) OBVIOUS
    <3>2. QED BY <3>1, RowsAreFinite, FS_Subset, FS_CardinalityType DEF Previous
  <2>4. \A c \in Bays : RowsOf(c)' = IF c = b THEN RowsOf(c) \cup {k} ELSE RowsOf(c)
    <3>1. TAKE c \in Bays
    <3>2. \A j \in 1..MaxWindow : <<c, j>> \in Slot /\ (<<c, j>> = <<b, k>> <=> c = b /\ j = k)
      BY DEF Slot
    <3>3. \A j \in 1..MaxWindow : nudge'[<<c, j>>] = IF c = b /\ j = k THEN Previous(b, k) + 1 ELSE nudge[<<c, j>>]
      BY <2>1, <3>2 DEF BayInv, BayTypeOK
    <3>4. QED BY <1>2, <2>3, <3>3 DEF RowsOf
  <2>5. \A c \in Bays : Cardinality(RowsOf(c)') = IF c = b THEN Cardinality(RowsOf(c)) + 1 ELSE Cardinality(RowsOf(c))
    <3>1. k \notin RowsOf(b) BY <2>2 DEF RowsOf
    <3>2. IsFiniteSet(RowsOf(b)) BY RowsAreFinite
    <3>3. Cardinality(RowsOf(b) \cup {k}) = Cardinality(RowsOf(b)) + 1 BY <3>1, <3>2, FS_AddElement
    <3>4. QED BY <2>4, <3>3
  <2>6. \A s \in Slot : nudge'[s] = IF s = <<b, k>> THEN Previous(b, k) + 1 ELSE nudge[s]
    BY <2>1 DEF BayInv, BayTypeOK
  <2>7. nudge' \in [Slot -> Nat] BY <1>2, <2>1, <2>3 DEF BayInv, BayTypeOK
  <2>8. /\ scan'[w].mine = scan[w].mine \cup {b} /\ scan'[w].window = k /\ scan'[w].phase = "claiming"
        /\ \A v \in Watchers \ {w} : scan'[v] = scan[v]
    BY <1>1, <2>1 DEF BayInv, BayTypeOK, Sweep
  <2>9. BayTypeOK' BY <1>1, <2>1, <2>7 DEF BayInv, BayTypeOK, Sweep
  <2>10. CountsAreBacked'
    <3>1. \A s \in Slot : nudge'[s] = 0 => named'[s] = 0 BY <1>1, <2>3, <2>6 DEF BayInv, CountsAreBacked
    <3>2. ASSUME NEW s \in Slot PROVE nudge'[s] <= Cardinality(RowsOf(s[1])')
      <4>1. s[1] \in Bays /\ (s = <<b, k>> => s[1] = b) BY DEF Slot
      <4>2. Cardinality(RowsOf(s[1])) \in Nat BY RowsAreFinite
      <4>3. nudge[s] <= Cardinality(RowsOf(s[1])) /\ nudge[s] \in Nat
        BY DEF BayInv, CountsAreBacked, BayTypeOK
      <4>4. QED BY <2>3, <2>5, <2>6, <4>1, <4>2, <4>3
    <3>3. \A s \in raised' : nudge'[s] >= Escalation
      <4>1. <<b, k>> \notin raised
        BY <2>2, SilentBayConstants DEF BayInv, CountsAreBacked
      <4>2. QED BY <1>1, <2>6, <4>1 DEF BayInv, CountsAreBacked, BayTypeOK
    <3>4. QED BY <3>1, <3>2, <3>3 DEF CountsAreBacked
  <2>11. LongSilenceIsRaised'
    <3>1. SUFFICES ASSUME NEW s \in Slot, nudge'[s] >= Escalation
                   PROVE  s \in raised \/ lostScans > 0
                          \/ \E v \in Watchers : scan'[v].window = s[2] /\ s[1] \in scan'[v].mine
      BY <1>1 DEF LongSilenceIsRaised
    <3>2. CASE s = <<b, k>> BY <2>8, <3>2
    <3>3. CASE s # <<b, k>>
      <4>1. nudge[s] >= Escalation BY <2>6, <3>1, <3>3
      <4>2. \A v \in Watchers : scan'[v].window = scan[v].window /\ scan[v].mine \subseteq scan'[v].mine
        BY <2>8
      <4>3. QED BY <4>1, <4>2 DEF BayInv, LongSilenceIsRaised
    <3>4. QED BY <3>2, <3>3
  <2>12. ASSUME NEW v \in Watchers PROVE ScanOf(v)'
    <3>1. ScanOf(v) /\ ScanOf(w) BY DEF BayInv
    <3>2. \A u \in Watchers : \A c \in scan[u].mine :
            scan[u].window \in 1..MaxWindow /\ <<c, scan[u].window>> \in Slot
      BY DEF BayInv, ScanOf, BayTypeOK, Sweep, Slot, NoSweep
    <3>3. \A u \in Watchers : \A c \in scan[u].mine :
            nudge'[<<c, scan[u].window>>] > 0 /\ <<c, scan[u].window>> # <<b, k>>
      BY <2>2, <2>3, <2>6, <3>2 DEF BayInv, ScanOf
    <3>4. named[<<b, k>>] = 0 BY <1>2, <2>2 DEF BayInv, CountsAreBacked
    <3>5. nudge'[<<b, k>>] > 0 BY <1>2, <2>3, <2>6
    <3>6. \A u \in Watchers : scan[u].window = k => b \notin scan[u].mine BY <3>3
    <3>7. CASE v = w
      BY <1>1, <1>2, <2>8, <3>1, <3>3, <3>4, <3>5, <3>6, <3>7 DEF ScanOf
    <3>8. CASE v # w
      BY <1>1, <2>8, <3>1, <3>3, <3>6, <3>8 DEF ScanOf
    <3>9. QED BY <3>7, <3>8
  <2>13. QED BY <1>1, <2>9, <2>10, <2>11, <2>12 DEF BayInv
<1>5. QED BY <1>3, <1>4

LEMMA BayStepInv == ASSUME BayInv, [SilentBayNext]_bayVars PROVE BayInv'
  BY ClockInv, StartSweepInv, SendNudgeInv, FinishSweepInv, FailSweepInv, ClaimWindowInv
  DEF SilentBayNext

\* However many workers scan, the staff group reads of a card once in a window;
\* a card goes to the owner when, and only when, the record says so.
THEOREM BaysAlwaysWatched == SilentBaySpec => []BaysAreWatched
<1>1. ASSUME BayInv PROVE BaysAreWatched
  <2>1. ASSUME NEW s \in raised PROVE Cardinality(RowsOf(s[1])) >= Escalation
    <3>1. s \in Slot /\ nudge[s] \in Nat /\ nudge[s] >= Escalation /\ nudge[s] <= Cardinality(RowsOf(s[1]))
      BY <1>1 DEF BayInv, BayTypeOK, CountsAreBacked
    <3>2. Cardinality(RowsOf(s[1])) \in Nat BY RowsAreFinite
    <3>3. QED BY <3>1, <3>2, SilentBayConstants
  <2>2. QED BY <1>1, <2>1 DEF BayInv, BaysAreWatched, GroupIsNotNagged
<1>2. QED BY <1>1, BayInitInv, BayStepInv, PTL DEF SilentBaySpec
-----------------------------------------------------------------------------
(* The time a card will be ready. *)

Teller == [version : 0..MaxVersions, phase : {"idle", "looked", "worded", "offered"}]
Entry == [eta : Times \cup {NoTime}, reason : Reason \cup {"none"},
          verdict : {"none", "IMMATERIAL", "MATERIAL_SLIP", "MATERIAL_GAIN"}]

EtaTypes ==
  /\ promised \in Promises /\ visitOver \in BOOLEAN /\ version \in 0..MaxVersions
  /\ entry \in [Version -> Entry]
  /\ \A v \in 1..version : entry[v].eta \in Times /\ entry[v].reason \in Reason
  /\ unheard \subseteq 1..version /\ noted \subseteq 1..version
  /\ opening \in BOOLEAN /\ lately \in BOOLEAN /\ thread \in BOOLEAN /\ mute \subseteq noted
  /\ telling \in [Tellers -> Teller]
  /\ offered \in [Version -> Nat] /\ tellerFaults \in Nat

ToldBy(v, t) == telling[t].phase # "idle" /\ telling[t].version = v

\* A version is to be handled or in one handler's hands, and never in two places.
OneHandler ==
  /\ \A t \in Tellers : /\ telling[t].phase = "idle" => telling[t] = NotTelling
                        /\ telling[t].version <= version
                        /\ telling[t].phase = "offered" => telling[t].version # Opening
  /\ \A v \in Version, t \in Tellers : ToldBy(v, t) => v \notin unheard
  /\ \A v \in Version, t, u \in Tellers : ToldBy(v, t) /\ ToldBy(v, u) => t = u

\* How often a version was offered follows from the faults and from how far it is.
OffersAreCounted ==
  /\ \A v \in Version : offered[v] <= 1 + tellerFaults
  /\ \A v \in Version : v > version => offered[v] = 0
  /\ \A v \in unheard : offered[v] <= tellerFaults
  /\ \A t \in Tellers : telling[t].phase \in {"looked", "worded"} /\ telling[t].version # Opening
       => offered[telling[t].version] <= tellerFaults
  /\ \A t \in Tellers : telling[t].phase = "offered" => offered[telling[t].version] >= 1

Answered(v) == offered[v] >= 1 \/ v \in mute

\* The newest version is to be handled, in hand, or noted, and if it is bad news
\* it was offered or found no thread.
NewestIsTold ==
  version > 0 => \/ version \in unheard
                 \/ \E t \in Tellers : ToldBy(version, t)
                 \/ version \in noted /\ (Immediate(version) => Answered(version))

EtaInv == EtaTypes /\ LatenessIsASlip /\ OneHandler /\ OffersAreCounted /\ NewestIsTold

LEMMA EtaInitInv == EtaInit => EtaInv
<1>1. SUFFICES ASSUME EtaInit PROVE EtaInv OBVIOUS
<1>2. version = 0 /\ 1..0 = {} /\ unheard = {} /\ noted = {} /\ tellerFaults = 0
  BY <1>1 DEF EtaInit
<1>3. \A v \in Version : offered[v] = 0 BY <1>1 DEF EtaInit
<1>4. NoEntry \in Entry /\ NotTelling \in Teller
  BY EtaConstants DEF NoEntry, Entry, NotTelling, Teller
<1>5. telling \in [Tellers -> Teller] /\ entry \in [Version -> Entry] /\ offered \in [Version -> Nat]
  BY <1>1, <1>4 DEF EtaInit
<1>6. EtaTypes
  <2>1. 0 \in 0..MaxVersions BY EtaConstants
  <2>2. promised \in Promises /\ visitOver \in BOOLEAN /\ opening \in BOOLEAN /\ lately \in BOOLEAN
        /\ thread \in BOOLEAN /\ mute = {}
    BY <1>1 DEF EtaInit
  <2>3. 1..version = {} BY <1>2
  <2>4. QED BY <1>2, <1>5, <2>1, <2>2, <2>3 DEF EtaTypes
<1>7. \A t \in Tellers : telling[t] = NotTelling BY <1>1 DEF EtaInit
<1>8. LatenessIsASlip /\ NewestIsTold
  <2>1. 1..version = {} /\ ~(version > 0) BY <1>2
  <2>2. QED BY <2>1 DEF LatenessIsASlip, NewestIsTold
<1>9. OneHandler BY <1>2, <1>7 DEF OneHandler, ToldBy, NotTelling
<1>10. OffersAreCounted BY <1>2, <1>3, <1>7 DEF OffersAreCounted, NotTelling
<1>11. QED BY <1>6, <1>8, <1>9, <1>10 DEF EtaInv

LEMMA RecalculateInv ==
  ASSUME EtaInv, NEW at \in Times, NEW why \in Reason, Recalculate(at, why) PROVE EtaInv'
<1> DEFINE v == version + 1
           x == [eta |-> at, reason |-> why, verdict |-> Verdict(Current, at)]
<1>1. version \in Nat /\ v \in Version /\ v \in Nat /\ v > 0 /\ version' = v /\ v > version
      /\ v \notin unheard /\ v \notin noted
  BY EtaConstants DEF EtaInv, EtaTypes, Recalculate, Version
<1>2. entry' = [entry EXCEPT ![v] = x] /\ entry'[v] = x
  BY <1>1 DEF Recalculate, EtaInv, EtaTypes
<1>3. \A u \in 1..version : u \in Version /\ entry'[u] = entry[u]
  BY <1>1, <1>2, EtaConstants DEF EtaInv, EtaTypes, Version
<1>4. UNCHANGED <<promised, telling, thread, offered, noted, mute, tellerFaults>> /\ unheard' = unheard \cup {v}
  BY DEF Recalculate, heard
<1>5. 1..version' = 1..version \cup {v} BY <1>1
<1>6. Verdict(Current, at) \in {"IMMATERIAL", "MATERIAL_SLIP", "MATERIAL_GAIN"} BY DEF Verdict
<1>7. EtaTypes'
  <2>1. x \in Entry BY <1>6 DEF Entry
  <2>2. entry' \in [Version -> Entry] BY <1>2, <2>1 DEF EtaInv, EtaTypes
  <2>3. \A u \in 1..version' : entry'[u].eta \in Times /\ entry'[u].reason \in Reason
    BY <1>2, <1>3, <1>5 DEF EtaInv, EtaTypes
  <2>4. version' \in 0..MaxVersions BY <1>1, EtaConstants DEF Version
  <2>5. unheard' \subseteq 1..version' /\ noted' \subseteq 1..version' BY <1>4, <1>5 DEF EtaInv, EtaTypes
  <2>6. promised' \in Promises /\ visitOver' \in BOOLEAN /\ opening' \in BOOLEAN /\ lately' \in BOOLEAN
        /\ thread' \in BOOLEAN /\ mute' \subseteq noted' /\ telling' \in [Tellers -> Teller] /\ offered' \in [Version -> Nat] /\ tellerFaults' \in Nat
    BY DEF EtaInv, EtaTypes, Recalculate, heard
  <2>7. QED BY <2>2, <2>3, <2>4, <2>5, <2>6 DEF EtaTypes
<1>8. LatenessIsASlip'
  <2>1. SUFFICES ASSUME NEW u \in 1..version', Late(entry'[u].eta)
        PROVE \E w \in 1..u : /\ entry'[w].verdict = "MATERIAL_SLIP"
                              /\ \A s \in w..u : Late(entry'[s].eta)
    BY <1>4 DEF LatenessIsASlip, Late, Day
  <2>2. CASE u \in 1..version
    <3>1. Late(entry[u].eta) BY <1>3, <2>1, <2>2
    <3>2. PICK w \in 1..u : entry[w].verdict = "MATERIAL_SLIP" /\ \A s \in w..u : Late(entry[s].eta)
      BY <2>2, <3>1 DEF EtaInv, LatenessIsASlip
    <3>3. \A s \in w..u : s \in 1..version BY <1>1, <2>2
    <3>4. QED BY <1>1, <1>3, <2>2, <3>2, <3>3
  <2>3. CASE u = v
    <3>1. Late(at) BY <1>2, <2>1, <2>3
    <3>2. CASE Current # NoTime /\ Late(Current)
      <4>1. version \in 1..version /\ Late(entry[version].eta) BY <1>1, <3>2 DEF Current
      <4>2. PICK w \in 1..version : entry[w].verdict = "MATERIAL_SLIP" /\ \A s \in w..version : Late(entry[s].eta)
        BY <4>1 DEF EtaInv, LatenessIsASlip
      <4>3. \A s \in w..v : s \in w..version \/ s = v BY <1>1, <4>2
      <4>4. \A s \in w..version : s \in 1..version BY <1>1, <4>2
      <4>5. w \in 1..v BY <1>1, <4>2
      <4>6. QED BY <1>2, <1>3, <2>3, <3>1, <4>2, <4>3, <4>4, <4>5
    <3>3. CASE ~(Current # NoTime /\ Late(Current))
      <4>1. promised # NoTime BY <3>1 DEF Late
      <4>2. Verdict(Current, at) = "MATERIAL_SLIP" BY <3>1, <3>3, <4>1 DEF Verdict
      <4>3. v \in 1..v /\ \A s \in v..v : s = v BY <1>1
      <4>4. QED BY <1>2, <2>3, <3>1, <4>2, <4>3
    <3>4. QED BY <3>2, <3>3
  <2>4. QED BY <1>5, <2>1, <2>2, <2>3
<1> HIDE DEF v, x
<1>9. OneHandler'
  BY <1>1, <1>4 DEF EtaInv, EtaTypes, OneHandler, ToldBy, Teller
<1>10. OffersAreCounted'
  BY <1>1, <1>4 DEF EtaInv, EtaTypes, OffersAreCounted, Version
<1>11. NewestIsTold' BY <1>1, <1>4 DEF NewestIsTold
<1>12. QED BY <1>7, <1>8, <1>9, <1>10, <1>11 DEF EtaInv

\* The steps that leave the ledger, the handlers and what is noted alone.
LEMMA LedgerAlone ==
  ASSUME EtaInv, UNCHANGED <<promised, version, entry, unheard, telling, offered, noted, mute, tellerFaults>>,
         thread' \in BOOLEAN, opening' \in BOOLEAN, lately' \in BOOLEAN, visitOver' \in BOOLEAN
  PROVE  EtaInv'
  BY DEF EtaInv, EtaTypes, LatenessIsASlip, Late, Day, OneHandler, ToldBy, OffersAreCounted, NewestIsTold, Immediate, Answered

\* A handler moves; the ledger itself does not.
LEMMA HandlerMoves ==
  ASSUME EtaInv, NEW t \in Tellers, NEW y \in Teller, telling' = [telling EXCEPT ![t] = y],
         UNCHANGED <<promised, visitOver, version, entry>>,
         opening' \in BOOLEAN, lately' \in BOOLEAN, thread' \in BOOLEAN, tellerFaults' \in Nat,
         mute' \subseteq noted',
         offered' \in [Version -> Nat], unheard' \subseteq 1..version, noted' \subseteq 1..version
  PROVE  /\ EtaTypes' /\ LatenessIsASlip'
         /\ telling'[t] = y /\ \A u \in Tellers \ {t} : telling'[u] = telling[u]
<1>1. telling' \in [Tellers -> Teller] /\ telling'[t] = y /\ \A u \in Tellers \ {t} : telling'[u] = telling[u]
  BY DEF EtaInv, EtaTypes
<1>2. LatenessIsASlip' BY DEF EtaInv, LatenessIsASlip, Late, Day
<1>3. EtaTypes' BY <1>1 DEF EtaInv, EtaTypes
<1>4. QED BY <1>1, <1>2, <1>3

LEMMA TakeEtaInv == ASSUME EtaInv, NEW t \in Tellers, NEW v \in Version, TakeEta(t, v) PROVE EtaInv'
<1>1. UNCHANGED <<promised, visitOver, version, entry, opening, thread, lately, offered, noted, mute, tellerFaults>>
      /\ unheard' = unheard \ {v} /\ telling[t] = NotTelling /\ v \in unheard /\ v \in 1..version
  BY DEF TakeEta, heard, EtaInv, EtaTypes
<1>2. CASE v # version
  <2>1. telling' = telling BY <1>2 DEF TakeEta, Superseded
  <2>2. EtaTypes' /\ LatenessIsASlip'
    BY <1>1, <2>1 DEF EtaInv, EtaTypes, LatenessIsASlip, Late, Day
  <2>3. OneHandler' /\ OffersAreCounted' /\ NewestIsTold'
    BY <1>1, <1>2, <2>1 DEF EtaInv, OneHandler, ToldBy, OffersAreCounted, NewestIsTold, Immediate, Answered
  <2>4. QED BY <2>2, <2>3 DEF EtaInv
<1>3. CASE v = version
  <2> DEFINE y == [version |-> v, phase |-> "looked"]
  <2>1. telling' = [telling EXCEPT ![t] = y] BY <1>3 DEF TakeEta, Superseded
  <2>2. y \in Teller BY <1>1, EtaConstants DEF EtaInv, EtaTypes, Teller, Version
  <2>3. EtaTypes' /\ LatenessIsASlip' /\ telling'[t] = y /\ \A u \in Tellers \ {t} : telling'[u] = telling[u]
    BY <1>1, <2>1, <2>2, HandlerMoves DEF EtaInv, EtaTypes
  <2>4. \A u \in Tellers : ToldBy(v, u)' => u = t
    BY <1>1, <2>3 DEF EtaInv, OneHandler, ToldBy
  <2>5. OneHandler'
    BY <1>1, <1>3, <2>3, <2>4 DEF EtaInv, EtaTypes, OneHandler, ToldBy
  <2>6. OffersAreCounted' BY <1>1, <2>3 DEF EtaInv, EtaTypes, OffersAreCounted
  <2>7. NewestIsTold' BY <1>1, <1>3, <2>3 DEF NewestIsTold, ToldBy
  <2>8. QED BY <2>3, <2>5, <2>6, <2>7 DEF EtaInv
<1>4. QED BY <1>2, <1>3

LEMMA ConsiderInv == ASSUME EtaInv, NEW t \in Tellers, Consider(t) PROVE EtaInv'
<1> DEFINE v == telling[t].version
<1>1. UNCHANGED <<promised, visitOver, version, entry, unheard, opening, thread, lately, offered, tellerFaults>>
      /\ telling[t].phase = "looked" /\ v # Opening
  BY DEF Consider, heard
<1>2. v \in 1..version /\ v \in Version
  BY <1>1, EtaConstants DEF EtaInv, EtaTypes, Teller, OneHandler, Opening, Version
<1>3. CASE noted' = noted /\ mute' = mute /\ telling' = [telling EXCEPT ![t].phase = "worded"]
  <2>1. telling' = [telling EXCEPT ![t] = [telling[t] EXCEPT !.phase = "worded"]]
        /\ [telling[t] EXCEPT !.phase = "worded"] \in Teller
    BY <1>3 DEF EtaInv, EtaTypes, Teller
  <2>2. EtaTypes' /\ LatenessIsASlip' /\ telling'[t] = [telling[t] EXCEPT !.phase = "worded"]
        /\ \A u \in Tellers \ {t} : telling'[u] = telling[u]
    BY <1>1, <1>3, <2>1, HandlerMoves DEF EtaInv, EtaTypes
  <2>3. telling[t] \in Teller BY DEF EtaInv, EtaTypes
  <2>4. telling'[t].phase = "worded" /\ telling'[t].version = v BY <2>2, <2>3 DEF Teller
  <2>5. \A w \in Version, u \in Tellers : ToldBy(w, u)' <=> ToldBy(w, u)
    BY <1>1, <2>2, <2>4 DEF ToldBy
  <2>6. OneHandler' BY <1>1, <1>2, <2>2, <2>4, <2>5 DEF EtaInv, EtaTypes, OneHandler, Opening
  <2>7. OffersAreCounted' BY <1>1, <2>2, <2>4 DEF EtaInv, OffersAreCounted
  <2>8. NewestIsTold'
    BY <1>1, <1>2, <1>3, <2>5, EtaConstants DEF EtaInv, EtaTypes, NewestIsTold, Immediate, Answered, Version
  <2>9. QED BY <2>2, <2>6, <2>7, <2>8 DEF EtaInv
<1>4. CASE /\ noted' = noted \cup {v} /\ telling' = [telling EXCEPT ![t] = NotTelling]
           /\ mute' \in {mute, mute \cup {v}} /\ (Immediate(v) => v \in mute')
  <2>1. NotTelling \in Teller BY EtaConstants DEF NotTelling, Teller
  <2>2. EtaTypes' /\ LatenessIsASlip' /\ telling'[t] = NotTelling
        /\ \A u \in Tellers \ {t} : telling'[u] = telling[u]
    BY <1>1, <1>2, <1>4, <2>1, HandlerMoves DEF EtaInv, EtaTypes
  <2>3. \A w \in Version, u \in Tellers : ToldBy(w, u)' <=> ToldBy(w, u) /\ u # t
    BY <2>2 DEF ToldBy, NotTelling
  <2>4. OneHandler' BY <1>1, <2>2, <2>3 DEF EtaInv, EtaTypes, OneHandler, NotTelling
  <2>5. OffersAreCounted' BY <1>1, <2>2 DEF EtaInv, OffersAreCounted, NotTelling
  <2>6. NewestIsTold'
    BY <1>1, <1>2, <1>4, <2>3, EtaConstants DEF EtaInv, EtaTypes, NewestIsTold, Immediate, Answered, Version, ToldBy
  <2>7. QED BY <2>2, <2>4, <2>5, <2>6 DEF EtaInv
<1>5. QED BY <1>3, <1>4 DEF Consider, heard

LEMMA OfferEtaInv == ASSUME EtaInv, NEW t \in Tellers, OfferEta(t) PROVE EtaInv'
<1> DEFINE v == telling[t].version
           y == [telling[t] EXCEPT !.phase = "offered"]
<1>1. UNCHANGED <<promised, visitOver, version, entry, unheard, opening, thread, noted, mute, tellerFaults>>
      /\ telling[t].phase = "worded" /\ v # Opening /\ lately' \in BOOLEAN
      /\ offered' = [offered EXCEPT ![v] = offered[v] + 1]
  BY DEF OfferEta, EtaInv, EtaTypes
<1>2. v \in 1..version /\ v \in Version /\ telling[t] \in Teller
  BY <1>1, EtaConstants DEF EtaInv, EtaTypes, Teller, OneHandler, Opening, Version
<1>3. telling' = [telling EXCEPT ![t] = y] /\ y \in Teller
  BY <1>2 DEF EtaInv, EtaTypes, Teller, OfferEta
<1>4. offered' \in [Version -> Nat] /\ offered'[v] = offered[v] + 1
      /\ \A w \in Version \ {v} : offered'[w] = offered[w]
  BY <1>1, <1>2 DEF EtaInv, EtaTypes
<1>5. EtaTypes' /\ LatenessIsASlip' /\ telling'[t] = y /\ \A u \in Tellers \ {t} : telling'[u] = telling[u]
  BY <1>1, <1>3, <1>4, HandlerMoves DEF EtaInv, EtaTypes
<1>6. telling'[t].phase = "offered" /\ telling'[t].version = v BY <1>2, <1>5 DEF Teller
<1>7. \A w \in Version, u \in Tellers : ToldBy(w, u)' <=> ToldBy(w, u)
  BY <1>1, <1>5, <1>6 DEF ToldBy
<1>8. OneHandler' BY <1>1, <1>2, <1>5, <1>6, <1>7 DEF EtaInv, EtaTypes, OneHandler
<1>9. v \notin unheard /\ \A u \in Tellers \ {t} : telling[u].phase # "idle" => telling[u].version # v
  BY <1>1, <1>2 DEF EtaInv, OneHandler, ToldBy
<1>10. offered[v] \in Nat /\ offered[v] <= tellerFaults /\ tellerFaults \in Nat
  BY <1>1, <1>2 DEF EtaInv, EtaTypes, OffersAreCounted
<1>11. OffersAreCounted'
  <2>1. \A w \in Version : offered'[w] <= 1 + tellerFaults /\ (w > version => offered'[w] = 0)
    BY <1>2, <1>4, <1>10 DEF EtaInv, EtaTypes, OffersAreCounted, Version
  <2>2. unheard \subseteq Version BY EtaConstants DEF EtaInv, EtaTypes, Version
  <2>3. \A w \in unheard : offered'[w] <= tellerFaults
    BY <1>4, <1>9, <2>2 DEF EtaInv, OffersAreCounted
  <2>4. ASSUME NEW u \in Tellers \ {t}, telling[u].phase # "idle", telling[u].version # Opening
        PROVE  offered'[telling[u].version] = offered[telling[u].version]
    <3>1. telling[u].version \in Version
      BY <2>4 DEF EtaInv, EtaTypes, Teller, Version, Opening
    <3>2. QED BY <1>4, <1>9, <2>4, <3>1
  <2>5. ASSUME NEW u \in Tellers, telling'[u].phase \in {"looked", "worded"}, telling'[u].version # Opening
        PROVE  offered'[telling'[u].version] <= tellerFaults
    <3>1. u # t /\ telling'[u] = telling[u] BY <1>5, <1>6, <2>5
    <3>2. offered[telling[u].version] <= tellerFaults BY <2>5, <3>1 DEF EtaInv, OffersAreCounted
    <3>3. QED BY <2>4, <2>5, <3>1, <3>2
  <2>6. ASSUME NEW u \in Tellers, telling'[u].phase = "offered"
        PROVE  offered'[telling'[u].version] >= 1
    <3>1. CASE u = t BY <1>4, <1>6, <1>10, <3>1
    <3>2. CASE u # t
      <4>1. telling'[u] = telling[u] BY <1>5, <3>2
      <4>2. offered[telling[u].version] >= 1 /\ telling[u].version # Opening
        BY <2>6, <4>1 DEF EtaInv, OffersAreCounted, OneHandler
      <4>3. QED BY <2>4, <2>6, <3>2, <4>1, <4>2
    <3>3. QED BY <3>1, <3>2
  <2>7. QED BY <1>1, <2>1, <2>3, <2>5, <2>6 DEF OffersAreCounted
<1>12. NewestIsTold'
  <2>1. \A w \in 1..version : w \in Version /\ (offered[w] >= 1 => offered'[w] >= 1)
    <3>1. \A w \in 1..version : w \in Version BY EtaConstants DEF EtaInv, EtaTypes, Version
    <3>2. \A w \in Version : offered[w] >= 1 => offered'[w] >= 1 BY <1>4, <1>10
    <3>3. QED BY <3>1, <3>2
  <2>2. version > 0 => version \in 1..version BY DEF EtaInv, EtaTypes
  <2>3. QED BY <1>1, <1>7, <2>1, <2>2 DEF EtaInv, NewestIsTold, Immediate, Answered
<1>13. QED BY <1>5, <1>8, <1>11, <1>12 DEF EtaInv

\* A handler that has nothing in hand any more has marked its version, or had none.
LEMMA LettingGo ==
  ASSUME EtaInv, NEW t \in Tellers, telling' = [telling EXCEPT ![t] = NotTelling],
         UNCHANGED <<promised, visitOver, version, entry, unheard, thread, offered, mute, tellerFaults>>,
         opening' \in BOOLEAN, lately' \in BOOLEAN,
         \/ telling[t].version = Opening /\ noted' = noted
         \/ telling[t].phase = "offered" /\ noted' = noted \cup {telling[t].version}
  PROVE  EtaInv'
<1> DEFINE v == telling[t].version
<1>1. NotTelling \in Teller /\ telling[t] \in Teller BY EtaConstants DEF NotTelling, Teller, EtaInv, EtaTypes
<1>2. v # Opening => v \in 1..version /\ v \in Version
  BY <1>1, EtaConstants DEF EtaInv, EtaTypes, Teller, OneHandler, Opening, Version
<1>3. telling[t].phase = "offered" => v # Opening /\ offered[v] >= 1
  BY DEF EtaInv, OneHandler, OffersAreCounted
<1>4. noted' \subseteq 1..version /\ mute' \subseteq noted'
  <2>1. noted \subseteq 1..version /\ mute \subseteq noted BY DEF EtaInv, EtaTypes
  <2>2. noted' = noted \/ (v \in 1..version /\ noted' = noted \cup {v}) BY <1>2, <1>3
  <2>3. QED BY <2>1, <2>2
<1>5. EtaTypes' /\ LatenessIsASlip' /\ telling'[t] = NotTelling /\ \A u \in Tellers \ {t} : telling'[u] = telling[u]
  BY <1>1, <1>4, HandlerMoves DEF EtaInv, EtaTypes
<1>6. \A w \in Version, u \in Tellers : ToldBy(w, u)' <=> ToldBy(w, u) /\ u # t
  BY <1>5 DEF ToldBy, NotTelling
<1>7. OneHandler' BY <1>5, <1>6 DEF EtaInv, EtaTypes, OneHandler, NotTelling
<1>8. OffersAreCounted' BY <1>5 DEF EtaInv, OffersAreCounted, NotTelling
<1>9. NewestIsTold'
  <2>1. version > 0 => version \in Version /\ version # Opening
    BY EtaConstants DEF EtaInv, EtaTypes, Version, Opening
  <2>2. SUFFICES ASSUME version > 0, version \notin unheard, \A u \in Tellers : ~ToldBy(version, u)'
        PROVE version \in noted' /\ (Immediate(version) => Answered(version))
    BY DEF NewestIsTold, Immediate, Answered
  <2>3. CASE \E u \in Tellers : ToldBy(version, u)
    <3>1. ToldBy(version, t) BY <1>6, <2>1, <2>2, <2>3
    <3>2. QED BY <1>3, <2>1, <2>2, <3>1 DEF ToldBy, Answered
  <2>4. CASE ~\E u \in Tellers : ToldBy(version, u)
    BY <2>2, <2>4 DEF EtaInv, NewestIsTold
  <2>5. QED BY <2>3, <2>4
<1>10. QED BY <1>5, <1>7, <1>8, <1>9 DEF EtaInv

LEMMA TakeStateInv == ASSUME EtaInv, NEW t \in Tellers, TakeState(t) PROVE EtaInv'
<1>1. UNCHANGED <<promised, visitOver, version, entry, unheard, thread, lately, offered, noted, mute, tellerFaults>>
      /\ opening' = FALSE /\ telling[t] = NotTelling
  BY DEF TakeState, heard
<1>2. CASE telling' = telling
  BY <1>1, <1>2, LedgerAlone DEF EtaInv, EtaTypes
<1>3. CASE telling' = [telling EXCEPT ![t] = [version |-> Opening, phase |-> "worded"]]
  <2> DEFINE y == [version |-> Opening, phase |-> "worded"]
  <2>1. y \in Teller BY EtaConstants DEF Teller, Opening
  <2>2. EtaTypes' /\ LatenessIsASlip' /\ telling'[t] = y /\ \A u \in Tellers \ {t} : telling'[u] = telling[u]
    BY <1>1, <1>3, <2>1, HandlerMoves DEF EtaInv, EtaTypes
  <2>3. \A w \in Version, u \in Tellers : ToldBy(w, u)' <=> ToldBy(w, u)
    BY <1>1, <2>2 DEF ToldBy, NotTelling, Version, Opening
  <2>4. OneHandler' BY <1>1, <2>2, <2>3 DEF EtaInv, EtaTypes, OneHandler, Opening
  <2>5. OffersAreCounted' BY <1>1, <2>2 DEF EtaInv, OffersAreCounted
  <2>6. version > 0 => version \in Version BY EtaConstants DEF EtaInv, EtaTypes, Version
  <2>7. NewestIsTold' BY <1>1, <2>3, <2>6 DEF EtaInv, NewestIsTold, Immediate, Answered
  <2>8. QED BY <2>2, <2>4, <2>5, <2>7 DEF EtaInv
<1>4. QED BY <1>2, <1>3 DEF TakeState, heard

LEMMA FailTellingInv == ASSUME EtaInv, NEW t \in Tellers, FailTelling(t) PROVE EtaInv'
<1> DEFINE v == telling[t].version
<1>1. UNCHANGED <<promised, visitOver, version, entry, thread, lately, offered, noted, mute>>
      /\ telling' = [telling EXCEPT ![t] = NotTelling] /\ telling[t] # NotTelling
      /\ unheard' = (IF v = Opening THEN unheard ELSE unheard \cup {v}) /\ opening' \in BOOLEAN
      /\ tellerFaults' = tellerFaults + 1 /\ tellerFaults' \in Nat
  <2>1. tellerFaults \in Nat /\ opening \in BOOLEAN BY DEF EtaInv, EtaTypes
  <2>2. opening' \in BOOLEAN /\ unheard' = (IF v = Opening THEN unheard ELSE unheard \cup {v})
    BY <2>1 DEF FailTelling
  <2>3. QED BY <2>1, <2>2 DEF FailTelling, heard
<1>2. NotTelling \in Teller /\ telling[t] \in Teller BY EtaConstants DEF NotTelling, Teller, EtaInv, EtaTypes
<1>3. v # Opening => v \in 1..version /\ v \in Version
  BY <1>2, EtaConstants DEF EtaInv, EtaTypes, Teller, OneHandler, Opening, Version
<1>4. unheard' \subseteq 1..version BY <1>1, <1>3 DEF EtaInv, EtaTypes
<1>5. EtaTypes' /\ LatenessIsASlip' /\ telling'[t] = NotTelling /\ \A u \in Tellers \ {t} : telling'[u] = telling[u]
  BY <1>1, <1>2, <1>4, HandlerMoves DEF EtaInv, EtaTypes
<1>6. \A w \in Version, u \in Tellers : ToldBy(w, u)' <=> ToldBy(w, u) /\ u # t
  BY <1>5 DEF ToldBy, NotTelling
<1>7. telling[t].phase # "idle" BY <1>1 DEF EtaInv, OneHandler
<1>8. OneHandler'
  <2>1. \A w \in Version, u \in Tellers : ToldBy(w, u)' => w \notin unheard'
    BY <1>1, <1>6, <1>7 DEF EtaInv, OneHandler, ToldBy
  <2>2. QED BY <1>1, <1>5, <1>6, <2>1 DEF EtaInv, EtaTypes, OneHandler, NotTelling
<1>9. OffersAreCounted'
  <2>1. \A w \in Version : offered[w] \in Nat /\ offered[w] <= 1 + tellerFaults
    BY DEF EtaInv, EtaTypes, OffersAreCounted
  <2>2. \A w \in unheard' : w \in Version BY <1>4, EtaConstants DEF EtaInv, EtaTypes, Version
  <2>3. tellerFaults \in Nat BY DEF EtaInv, EtaTypes
  <2>4. \A u \in Tellers \ {t} : telling[u].version # Opening => telling[u].version \in Version
    BY DEF EtaInv, EtaTypes, Teller, Version, Opening
  <2>5. QED BY <1>1, <1>5, <2>1, <2>2, <2>3, <2>4 DEF EtaInv, OffersAreCounted, NotTelling
<1>10. NewestIsTold'
  <2>1. version > 0 => version \in Version /\ version # Opening
    BY EtaConstants DEF EtaInv, EtaTypes, Version, Opening
  <2>2. QED BY <1>1, <1>6, <2>1 DEF EtaInv, NewestIsTold, Immediate, Answered, ToldBy
<1>11. QED BY <1>5, <1>8, <1>9, <1>10 DEF EtaInv

LEMMA EtaStepInv == ASSUME EtaInv, [EtaNext]_etaVars PROVE EtaInv'
<1>1. CASE UNCHANGED etaVars \/ EndCard \/ ThreadOpens \/ WindowPasses
  BY <1>1, LedgerAlone DEF etaVars, heard, EndCard, ThreadOpens, WindowPasses, EtaInv, EtaTypes
<1>2. ASSUME NEW t \in Tellers, OfferState(t) \/ MarkNotified(t) PROVE EtaInv'
  BY <1>2, LettingGo DEF OfferState, MarkNotified, heard, EtaInv, EtaTypes
<1>3. QED
  BY <1>1, <1>2, RecalculateInv, TakeEtaInv, ConsiderInv, OfferEtaInv, TakeStateInv, FailTellingInv DEF EtaNext

\* Whatever recalculations, handlers and faults interleave, a card past its
\* promised day was called a slip, and a newest time that is bad news is noted
\* only once it was put to the gate, at most once more than the faults, or found
\* the customer without a thread.
THEOREM EtaAlwaysTold == EtaSpec => []EtaIsTold
<1>1. ASSUME EtaInv PROVE EtaIsTold
  <2>1. EtaTypeOK BY <1>1 DEF EtaInv, EtaTypes, EtaTypeOK, Teller
  <2>2. BadNewsIsOffered
    BY <1>1 DEF EtaInv, NewestIsTold, BadNewsIsOffered, Settled, ToldBy, NotTelling, Immediate, Answered
  <2>3. OfferedOncePerFault BY <1>1 DEF EtaInv, OffersAreCounted, OfferedOncePerFault
  <2>4. QED BY <1>1, <2>1, <2>2, <2>3 DEF EtaInv, EtaIsTold
<1>2. QED BY <1>1, EtaInitInv, EtaStepInv, PTL DEF EtaSpec
=============================================================================
