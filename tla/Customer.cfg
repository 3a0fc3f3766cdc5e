SPECIFICATION CustomerSpec
CONSTANTS
  Parts = {"gate", "eta", "bay", "voice"}
  Messages = {m1, m2, m3}
  Procs = {api, drain}
  Drainers = {drain}
  Marketing = {}
  Drafts = {m1}
  Templates = {m1, m2, m3}
  Silent = {}
  Acks = {}
  Asks = {}
  Replies = {}
  Lost = {}
  Implied = FALSE
  DailyCap = 1
  MaxGateFaults = 1
  MaxNights = 1
  Tellers = {t1, t2}
  Times = {1, 2, 3}
  DayLength = 2
  SlipAfter = 1
  Promises <- NothingOrOne
  MaxVersions = 2
  MaxTellerFaults = 1
  Bays = {b1, b2}
  Watchers = {w1, w2}
  Escalation = 2
  Lookback = 3
  MaxWindow = 2
  MaxLostScans = 1
  Calls = {1, 2, 3}
  Repeats = {}
  Slots = 2
  Decisions = {"FULL"}
  CallCap = 1
  MaxTurns = 1
  References = TRUE
  MaxTrips = 0
CHECK_DEADLOCK FALSE
SYMMETRY Symmetry
INVARIANTS MessagesAreKept DecisionsAreKept EtaIsTold BaysAreWatched CallsAreSound
PROPERTIES ReceiptsMoveForward
