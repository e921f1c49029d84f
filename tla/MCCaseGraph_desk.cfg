SPECIFICATION FairSpec
CONSTANTS
  Metered = TRUE
  MaxSteps = 50
  MaxVisits = 3
  MaxDiagnostic = 3
  MaxResolution = 3
  Watched <- LoopNodes
  Remote = {"reboot"}
  Domains = {"premises"}
  ConfirmDomains = {}
  Flaws = TRUE
  Reach = {TRUE, FALSE}
  Tests = {}
  MinSamples = 2
  MaxMRs = 1
  MaxReconciles = 2
  Offered <- DeskOffered
  Verdicts <- DeskVerdicts
INVARIANTS TypeOK LifecycleHolds EscalationStops BudgetsHold ClosedIsProven ExceptionalIsSigned NeverRepeated ActsWithConsent
PROPERTY Termination
