SPECIFICATION InboundSpec
CONSTANTS
  Texts = {1, 2}
  Hooks = {h1}
  MaxHookFaults = 0
CHECK_DEADLOCK FALSE
INVARIANT StopIsHeard
