SPECIFICATION Safety
CONSTANTS
  Keys <- OneKey
  Wired <- OneKey
  Relays = {r1, r2}
  NoKey = NoKey
  MaxAttempts = 2
  Base = 1
  Cap = 2
  Limit = 1
  MaxStagings = 1
  MaxWorkflowCrashes = 0
  MaxRelayCrashes = 0
  MaxEnqueueErrors = 0
PROPERTY DeadStaysDead
CHECK_DEADLOCK FALSE
