SPECIFICATION Spec
CONSTANTS
  Files <- Edits
  Principals <- Askers
  MaxSteps = 3
CHECK_DEADLOCK FALSE
INVARIANTS FloorHolds ClosureHasItsGate
PROPERTY WorseIsNeverFreer
