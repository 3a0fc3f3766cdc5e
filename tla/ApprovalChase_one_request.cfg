SPECIFICATION ChaseRunSpec
CONSTANTS
  Parts = {"ladder", "calls"}
  Items = {i1}
  Requests = {r1}
  Callers = {c1, c2}
  LastRung = 2
  MessageRungs = {1}
  Workers = {w1}
  MaxFaults = 1
  MaxDeferrals = 1
  Calls = {1}
  Repeats = {1}
  Slots = 1
  Decisions = {"FULL", "DECLINED"}
  CallCap = 1
  MaxTurns = 3
  References = FALSE
  MaxTrips = 1
CHECK_DEADLOCK FALSE
INVARIANTS DecisionStopsTheChase AnnouncedIsDone CallsAreSound
PROPERTIES DecidedOnce EveryRungIsLaid CallEnds
