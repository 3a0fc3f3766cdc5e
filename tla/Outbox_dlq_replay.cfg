SPECIFICATION OutboxSpec
CONSTANTS
  Events = {1}
  Dispatchers = {d1}
  Workers = {w1}
  BatchSize = 1
  MaxAttempts = 2
  QueueAttempts = 2
  MaxFaults = 0
  MaxRequeues = 1
  None = None
CHECK_DEADLOCK FALSE
INVARIANTS ReplayPutsBack
