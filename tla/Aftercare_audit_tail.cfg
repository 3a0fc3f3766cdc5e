SPECIFICATION AftercareSpec
CONSTANTS
  Parts = {"audit"}
  MaxLinks = 1
  Total = 2
  LinkAmounts = {1, 2}
  AcceptPartial = TRUE
  MaxManual = 0
  CollectFirst = TRUE
  StartState = "READY_FOR_DELIVERY"
  StaffEvents = {}
  MayCrash = FALSE
  Passes = {p1, p2}
  Advisors = 1
  Gates = {g1}
  Visits = {v1, v2, v3}
  Issuers = {r1, r2}
  MaxYears = 2
  MaxIssueFaults = 1
  Cards = {k1}
  Slots = {s1, s2}
  Callers = {c1, c2}
  Taps = {t1, t2}
  Reminders = {d1}
  SlotCapacity = 1
  MaxBookings = 3
  MaxLostReminders = 1
  Items = {i1}
  Leads = {l1}
  Scanners = {w1, w2}
  MaxPitches = 2
  Wirings = {TRUE, FALSE}
  MaxTouches = 3
  MaxFaults = 1
  Wishes = {q1, q2}
  Deletions = {q1}
  Erasers = {e1, e2}
  MaxPersonal = 2
  MaxErasureFaults = 1
  Writers = {a1, a2}
  Subjects = {b1, b2}
  TailSize = 2
  MaxRows = 4
  Texts = {1}
  Hooks = {h1, h2}
  MaxHookFaults = 1
  Requests = {n1, n2}
  Levels = {"L1_TEMPLATED", "L2_CONVERSATIONAL"}
  MaxSteps = 2
  MaxCalls = 2
  MaxRunFaults = 1
CHECK_DEADLOCK FALSE
INVARIANTS ErasureIsNotTampering
