SPECIFICATION Spec
CONSTANTS
  Metered = FALSE
  MaxSteps = 1
  MaxVisits = 1
  MaxDiagnostic = 1
  MaxResolution = 1
  Watched = {}
  Remote = {"reboot"}
  Domains = {"premises", "plant"}
  ConfirmDomains = {}
  Flaws = FALSE
  Reach = {TRUE, FALSE}
  Tests = {"passed", "failed"}
  MinSamples = 2
  MaxMRs = 2
  MaxReconciles = 2
  Offered <- FieldOffered
  Verdicts <- FieldVerdicts
INVARIANTS OneVisitAtATime ActsWithConsent
PROPERTIES OnlyAnEarlierRequestMisleads KeepsContract
