----------------------------- MODULE SilentBay ------------------------------
(***************************************************************************)
(* The sentinel that names the bays nobody has reported from (the scan of  *)
(* SilentBaySentinel, PgSilentBayStore), on several workers.               *)
(*                                                                         *)
(* A scan reads the active cards, claims each silent one for the window    *)
(* it computed at its start, sends one message with all it claimed, and    *)
(* records the events last: a transaction each.                            *)
(***************************************************************************)
EXTENDS Naturals, FiniteSets

CONSTANTS
  Bays,        \* cards in a state that should be moving
  Watchers,    \* workers that scan
  Escalation,  \* statusComms.silentWindowsBeforeEscalation
  Lookback,    \* how many windows of history count
  MaxWindow, MaxLostScans  \* bounds on windows and on faults

ASSUME SilentBayConstants ==
  /\ Escalation \in Nat \ {0} /\ Lookback \in Nat \ {0}
  /\ MaxWindow \in Nat \ {0} /\ MaxLostScans \in Nat

VARIABLES
  now,        \* the window the clock is in
  heardFrom,  \* cards with a signal, a photo or a change of state since long enough
  scan,       \* scan[w]: the window, the cards still to claim, the ones claimed, the phase
  nudge,      \* nudge[<<b, k>>]: the row of the card and window, 0 none, else its count
  named,      \* named[<<b, k>>]: messages to the staff group that name the card
  raised,     \* rows of silent_bay_nudges escalated to the owner
  lostScans

bayVars == <<now, heardFrom, scan, nudge, named, raised, lostScans>>

Slot == Bays \X (1..MaxWindow)
NoSweep == [window |-> 0, todo |-> {}, mine |-> {}, phase |-> "idle"]
RowsOf(b) == {k \in 1..MaxWindow : nudge[<<b, k>>] > 0}

SilentBayInit ==
  /\ now = 1 /\ heardFrom = {}
  /\ scan = [w \in Watchers |-> NoSweep]
  /\ nudge = [s \in Slot |-> 0] /\ named = [s \in Slot |-> 0]
  /\ raised = {} /\ lostScans = 0
-----------------------------------------------------------------------------
\* The window, the active cards and how long each has been quiet.
StartSweep(w) ==
  /\ scan[w] = NoSweep /\ Bays \ heardFrom # {}
  /\ scan' = [scan EXCEPT ![w] =
       [window |-> now, todo |-> Bays \ heardFrom, mine |-> {}, phase |-> "claiming"]]
  /\ UNCHANGED <<now, heardFrom, nudge, named, raised, lostScans>>

\* Mutant: the window has no unique index.
NotClaimed(b, k) == TRUE

\* claimWindow: on conflict do nothing.
Unclaimed(b, k) == nudge[<<b, k>>] = 0

\* consecutiveWindows: the rows of the last days, next to each other or not.
Previous(b, k) == Cardinality({j \in RowsOf(b) : j + Lookback > k})

ClaimWindow(w, b) ==
  LET k == scan[w].window IN
  /\ scan[w].phase = "claiming" /\ b \in scan[w].todo
  /\ IF Unclaimed(b, k)
       THEN /\ nudge' = [nudge EXCEPT ![<<b, k>>] = Previous(b, k) + 1]
            /\ scan' = [scan EXCEPT ![w].todo = scan[w].todo \ {b},
                                    ![w].mine = scan[w].mine \cup {b}]
       ELSE /\ scan' = [scan EXCEPT ![w].todo = scan[w].todo \ {b}] /\ UNCHANGED nudge
  /\ UNCHANGED <<now, heardFrom, named, raised, lostScans>>

\* One message for all of them; without a staff thread, or refused, none.
SendNudge(w) ==
  LET k == scan[w].window IN
  /\ scan[w].phase = "claiming" /\ scan[w].todo = {}
  /\ IF scan[w].mine = {}
       THEN scan' = [scan EXCEPT ![w] = NoSweep] /\ UNCHANGED named
       ELSE /\ scan' = [scan EXCEPT ![w].phase = "sent"]
            /\ named' \in {named, [s \in Slot |-> IF s[1] \in scan[w].mine /\ s[2] = k
                                                   THEN named[s] + 1 ELSE named[s]]}
  /\ UNCHANGED <<now, heardFrom, nudge, raised, lostScans>>

Escalates(n) == n >= Escalation

\* The events, the escalations and the audit entry of the scan.
FinishSweep(w) ==
  LET k == scan[w].window IN
  /\ scan[w].phase = "sent"
  /\ raised' = raised \cup {<<b, k>> : b \in {c \in scan[w].mine : Escalates(nudge[<<c, k>>])}}
  /\ scan' = [scan EXCEPT ![w] = NoSweep]
  /\ UNCHANGED <<now, heardFrom, nudge, named, lostScans>>

FailSweep(w) ==
  /\ lostScans < MaxLostScans /\ scan[w] # NoSweep
  /\ lostScans' = lostScans + 1
  /\ scan' = [scan EXCEPT ![w] = NoSweep]
  /\ UNCHANGED <<now, heardFrom, nudge, named, raised>>

NextWindow ==
  /\ now < MaxWindow /\ now' = now + 1
  /\ heardFrom' = {}
  /\ UNCHANGED <<scan, nudge, named, raised, lostScans>>

Signal(b) ==
  /\ b \notin heardFrom /\ heardFrom' = heardFrom \cup {b}
  /\ UNCHANGED <<now, scan, nudge, named, raised, lostScans>>

SilentBayNext ==
  \/ NextWindow
  \/ \E b \in Bays : Signal(b)
  \/ \E w \in Watchers : \/ StartSweep(w) \/ SendNudge(w) \/ FinishSweep(w) \/ FailSweep(w)
                         \/ \E b \in Bays : ClaimWindow(w, b)

SilentBaySpec == SilentBayInit /\ [][SilentBayNext]_bayVars
-----------------------------------------------------------------------------
(* Properties. *)

\* The staff group reads of a card once in a window, whoever scans; and a card
\* goes to the owner only with that many windows of silence on record.
GroupIsNotNagged ==
  /\ \A s \in Slot : named[s] <= 1
  /\ \A s \in raised : Cardinality(RowsOf(s[1])) >= Escalation

\* A silence that was claimed is on its way to the owner when it has lasted long
\* enough, unless the scan that claimed it died.
LongSilenceIsRaised ==
  \A s \in Slot : nudge[s] >= Escalation =>
    s \in raised \/ lostScans > 0
      \/ \E w \in Watchers : scan[w].window = s[2] /\ s[1] \in scan[w].mine

BaysAreWatched == GroupIsNotNagged /\ LongSilenceIsRaised
=============================================================================
