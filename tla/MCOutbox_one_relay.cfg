SPECIFICATION Spec
CONSTANTS
  Keys <- TwoKeys
  Wired <- TwoKeys
  Relays = {r1}
  NoKey = NoKey
  MaxAttempts = 3
  Base = 2
  Cap = 3
  Limit = 2
  MaxStagings = 2
  MaxWorkflowCrashes = 1
  MaxRelayCrashes = 1
  MaxEnqueueErrors = 1
INVARIANTS TypeOK SentWasAcknowledged AttemptsMatchStatus TallyMatchesTable
PROPERTIES ImplementsContract SettledRowsAreFinal DecidedIsRecorded
\* every intent may be decided and settled, and then nothing is left to do
CHECK_DEADLOCK FALSE
