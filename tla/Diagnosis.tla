----------------------------- MODULE Diagnosis -----------------------------
(***************************************************************************)
(* Intake, diagnosis and the two parent-level approval gates: the nodes    *)
(* P01-P11 of the parent graph, the low-confidence and blast-radius gates  *)
(* and the stop after them.                                                *)
(***************************************************************************)
EXTENDS Routing

ReceiveSignal == Node("receive_signal", "triaging", case, "normalize_event")

\* D01: an event whose sources already block action is quarantined.
NormalizeEvent ==
  \E d \in Gathered(case) :
    \E next \in {"resolve_identity_and_topology"} \cup (IF d.data = "poor" THEN {"END"} ELSE {}) :
      Quiet("normalize_event", d, next)

\* D02: resolved, or looked up once more.
ResolveIdentityAndTopology ==
  \E d \in Gathered(case), next \in {"deduplicate_and_correlate", "resolve_identity_and_topology"} :
    Quiet("resolve_identity_and_topology", d, next)

\* D03: both of its answers go on to the same node.
DeduplicateAndCorrelate ==
  \E d \in Gathered(case) : Quiet("deduplicate_and_correlate", d, "assess_impact_and_priority")

\* D04: a preventive case with no other service affected, or an active one.
AssessImpactAndPriority ==
  \E d \in Gathered(case), next \in {"create_or_attach_incident", "assess_predictive_risk"} :
    Quiet("assess_impact_and_priority", d, next)

\* A thread whose id is not the incident's is handed to a human.
CreateOrAttachIncident ==
  \/ Quiet("create_or_attach_incident", case, "assemble_case_evidence")
  \/ Write("create_or_attach_incident", "escalated", TRUE, case, "END")

AssembleCaseEvidence ==
  \E read \in Read(case) : \E d \in Gathered(read) :
    Node("assemble_case_evidence", "diagnosing", d, RouteEvidenceSufficiency(d))

CreateDiagnosticTestPlan == Quiet("create_diagnostic_test_plan", case, "execute_read_only_tests")

\* No plan or no conclusive test leaves the last conclusion standing.
ExecuteReadOnlyTests ==
  \E t \in Tests \cup {case.test} :
    Quiet("execute_read_only_tests", [case EXCEPT !.test = t], "determine_root_cause")

DetermineRootCause ==
  \E f \in Domains :
    LET d == [case EXCEPT !.dom = f]
    IN Node("determine_root_cause", "diagnosing", d, RouteRcaConfidence(d))

\* Mutant: what was attempted in an earlier plan is offered again.
GenerateAllOptions ==
  LET d == [case EXCEPT !.plan = Offered[case.dom], !.chosen = "none"]
  IN Quiet("generate_resolution_options", d, RouteSafetyAndBlastRadius(d))
\* A new plan: what the domain offers, less every action that was ever attempted.
GenerateResolutionOptions ==
  LET d == [case EXCEPT !.plan = Offered[case.dom] \ case.tried, !.chosen = "none"]
  IN Quiet("generate_resolution_options", d, RouteSafetyAndBlastRadius(d))

PrepareLowConfidenceReview ==
  Node("prepare_low_confidence_review", "awaiting_approval", case, "request_low_confidence_review")

RequestLowConfidenceReview ==
  \E ans \in Answers :
    LET d == Answered(case, "low_confidence", ans)
    IN Node("request_low_confidence_review", "diagnosing", d, RouteRcaConfidence(d))

\* `due` only grows by a decision and shrinks by its answer, so D07 finds the demand it routed on.
PrepareBlastRadiusApproval ==
  Needs("prepare_blast_radius_approval", "blast_radius" \in case.due,
    Node("prepare_blast_radius_approval", "awaiting_approval", case,
         "request_blast_radius_approval"))

RequestBlastRadiusApproval ==
  \E ans \in Answers :
    LET d == Answered(case, "blast_radius", ans)
    IN Node("request_blast_radius_approval", "diagnosing", d, RouteSafetyAndBlastRadius(d))

RecordEscalation == Write("record_escalation", "escalated", TRUE, case, "END")

\* P25: the customer's own answer, where there is one, is written onto the validation.
ConfirmCustomerOutcome ==
  Needs("confirm_customer_outcome", case.validation # "none",
    \E c \in {"yes", "no", case.confirmed} :
      LET d == [case EXCEPT !.confirmed = c]
      IN Quiet("confirm_customer_outcome", d, RouteResolution(d)))

DiagnosisNext ==
  \/ ReceiveSignal \/ NormalizeEvent \/ ResolveIdentityAndTopology \/ DeduplicateAndCorrelate
  \/ AssessImpactAndPriority \/ CreateOrAttachIncident \/ AssembleCaseEvidence
  \/ CreateDiagnosticTestPlan \/ ExecuteReadOnlyTests \/ DetermineRootCause
  \/ GenerateResolutionOptions \/ PrepareLowConfidenceReview \/ RequestLowConfidenceReview
  \/ PrepareBlastRadiusApproval \/ RequestBlastRadiusApproval \/ RecordEscalation
  \/ ConfirmCustomerOutcome
=============================================================================
