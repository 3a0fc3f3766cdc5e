SPECIFICATION WorkshopSpec
CONSTANTS
  Parts = {"card", "signal", "billing", "outbox"}
  Items = {i1, i2}
  Required = {i1}
  Procs = {p1, p2}
  PaymentFirst = TRUE
  Notes = {n1}
  AdvisorEvents <- PartsArrive
  BenchEvents <- BenchFinishes
  MaxCallFaults = 1
  MaxLinks = 2
  Total = 2
  LinkAmounts = {1, 2}
  AcceptPartial = TRUE
  MaxManual = 1
  CollectFirst = TRUE
  StartState = "QUALITY_CHECK"
  StaffEvents <- CounterEvents
  MayCrash = TRUE
  Events = {1}
  Dispatchers = {d1, d2}
  Workers = {c1, c2}
  BatchSize = 1
  MaxAttempts = 2
  QueueAttempts = 2
  MaxFaults = 2
  MaxRequeues = 2
  None = None
CHECK_DEADLOCK FALSE
INVARIANTS OutboxTypeOK EffectsExactlyOnce QueueTellsTheTruth CardIsSound MoneyCreditedOnce PaidIsReal NoteActsOnce
PROPERTIES ImplementsDelivery AuditIsContinuous HandedOverPaid
