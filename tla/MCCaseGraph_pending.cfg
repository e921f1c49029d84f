SPECIFICATION Spec
CONSTANTS
  Metered = FALSE
  MaxSteps = 1
  MaxVisits = 1
  MaxDiagnostic = 1
  MaxResolution = 1
  Watched = {}
  Remote = {}
  Domains = {"premises", "plant"}
  ConfirmDomains = {"premises"}
  Flaws = FALSE
  Reach = {TRUE, FALSE}
  Tests = {"passed", "failed"}
  MinSamples = 2
  MaxMRs = 1
  MaxReconciles = 2
  Offered <- FieldOffered
  Verdicts <- FieldVerdicts
PROPERTY PendingIsAskedAgain
