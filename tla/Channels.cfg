SPECIFICATION ChannelsFairSpec
CONSTANTS
  Parts = {"outbox", "held"}
  Events = {1, 2}
  Dispatchers = {d1}
  Workers = {w1}
  BatchSize = 2
  MaxAttempts = 2
  QueueAttempts = 2
  MaxFaults = 1
  MaxRequeues = 0
  None = None
  Messages = {m1, m2}
  Procs = {api, drain}
  Drainers = {drain}
  Marketing = {}
  Drafts = {m2}
  Templates = {m1}
  Silent = {m2}
  Acks = {}
  Asks = {m1}
  Replies = {}
  Lost = {}
  Implied = FALSE
  DailyCap = 1
  MaxGateFaults = 1
  MaxNights = 1
CHECK_DEADLOCK FALSE
PROPERTIES EveryEventSettles HeldIsReleased
