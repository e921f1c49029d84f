SPECIFICATION Spec
CONSTANTS
  Jobs <- MCJobs
  Crews <- MCCrews
  JobCatalog <- MCJobCatalog
  CrewCatalog <- MCCrewCatalog
  Nows <- MCNows
  Routings <- MCRoutings
  Km <- MCKm
  Routed <- MCRouted
  Overhead <- MCOverhead
  Ferry <- MCFerry
  Slowness <- MCSlowness
  Overtime = 2
  ShiftLimit = 6
  IslandCutoff = 26
  AppointmentWeight = 2
  MatchCrewType = TRUE
  RespectWindows = TRUE
  Behind = 8
  MaxSteps = 24
INVARIANTS TypeOK DayCanBeWorked AppointmentsKept PredecessorsGoFirst
PROPERTY RefusalIsGenuine
