SPECIFICATION Spec
CONSTANTS
  Technology = "pon"
  Resolved <- MCResolved
  Detectors <- MCDetectors
  Strengths <- MCStrengths
  MinSources = 2
  ConfidentAt = 4500
  Margin = 1000
  MinForAction = 6500
  MaxCycles = 2
  MaxLaps = 1
INVARIANTS ConclusionIsEvidenced EnoughReadingsBeforeActing RetestingIsNoNewVote EveryDiagnosisIsAudited
PROPERTY SameEvidenceSameAnswer
CHECK_DEADLOCK FALSE
