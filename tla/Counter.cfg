SPECIFICATION CounterFairSpec
CONSTANTS
  Parts = {"billing", "intake", "feedback", "erasure"}
  MaxLinks = 1
  Total = 2
  LinkAmounts = {1, 2}
  AcceptPartial = TRUE
  MaxManual = 0
  CollectFirst = TRUE
  StartState = "READY_FOR_DELIVERY"
  StaffEvents = {}
  MayCrash = FALSE
  Drafts = {d1, d2, d3}
  Confirmers = {k1, k2}
  LastPadded = 1
  MaxEdits = 1
  MaxRefusals = 1
  Visited = {f1}
  Sentinels = {s1, s2}
  MaxAskFaults = 1
  Wishes = {q1}
  Deletions = {q1}
  Erasers = {e1, e2}
  MaxPersonal = 2
  MaxErasureFaults = 1
CHECK_DEADLOCK FALSE
INVARIANTS IntakeIsSound AsksAreFair
PROPERTIES MoneyMovesTheCard ConfirmationEnds SilenceIsRecorded ErasureHappens
