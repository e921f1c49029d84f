SPECIFICATION Spec
CONSTANTS
  Keys <- TwoKeys
  Wired <- OneKey
  Relays = {r1, r2}
  NoKey = NoKey
  MaxAttempts = 2
  Base = 1
  Cap = 2
  Limit = 2
  MaxStagings = 2
  MaxWorkflowCrashes = 0
  MaxRelayCrashes = 1
  MaxEnqueueErrors = 0
INVARIANT CallBudget
PROPERTIES FirstCallsInOrder RowsOnlyAdvance
CHECK_DEADLOCK FALSE
