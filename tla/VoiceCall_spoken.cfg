SPECIFICATION VoiceSpec
CONSTANTS
  Calls = {1}
  Repeats = {}
  Slots = 1
  Decisions = {"FULL"}
  CallCap = 1
  MaxTurns = 1
  References = TRUE
  MaxTrips = 0
CHECK_DEADLOCK FALSE
INVARIANTS SpokenTurnsArePlanned
