-------------------------- MODULE CaseGraphProofs --------------------------
(***************************************************************************)
(* What holds of the case graph for every catalogue, policy, budget and    *)
(* set of watched nodes.                                                   *)
(*                                                                         *)
(* The argument has two halves.  First every action of the seven modules   *)
(* is shown to be a step of one node in one of three shapes: it runs       *)
(* (`Runs`), it hands the case to a human and leaves the graph (`Leaves`), *)
(* or it raises (`Fails`).  Then the three shapes, the guard that trips    *)
(* and the return of a subgraph are shown to keep ControlInv.              *)
(***************************************************************************)
EXTENDS CaseGraph, TLAPS

Names == DOMAIN Subgraphs

\* What a subgraph holds is a node, and every inner node belongs to a subgraph that has a name.
LEMMA NodeNames ==
  /\ ParentNodes \subseteq Nodes
  /\ \A g \in Names : Subgraphs[g] \subseteq Nodes
  /\ \A n \in InnerNodes : SubgraphOf(n) \in Names
<1>1. ParentNodes \subseteq Nodes
  BY DEF Nodes
<1>2. \A g \in Names : Subgraphs[g] \subseteq Nodes
  BY DEF Nodes, InnerNodes, Names
<1>3. \A n \in InnerNodes : \E g \in Names : n \in Subgraphs[g]
  BY DEF InnerNodes, Names
<1>4. \A n \in InnerNodes : SubgraphOf(n) \in Names
  BY <1>3 DEF SubgraphOf, Names
<1> QED BY <1>1, <1>2, <1>4

\* The nine subgraphs, by name.
LEMMA NameList == Names = {"remote_resolution", "self_help", "field_planning", "field_execution",
  "plant_referral", "plant_execution", "restoration_validation", "reconciliation_closure",
  "preventive_maintenance"}
BY DEF Names, Subgraphs

\* Where a run stops, and where a subgraph ends, no node runs.
LEMMA EndsAreNotNodes ==
  \A x \in Names \cup Stops : x \notin Nodes
<1> SUFFICES ASSUME NEW x \in Names \cup Stops, x \in Nodes PROVE FALSE
  OBVIOUS
<1>1. x \notin ParentNodes
  BY NameList DEF ParentNodes, Stops
<1>2. ASSUME NEW g \in Names PROVE x \notin Subgraphs[g]
  <2>1. CASE g = "remote_resolution" BY <2>1, NameList DEF Subgraphs, Stops
  <2>2. CASE g = "self_help" BY <2>2, NameList DEF Subgraphs, Stops
  <2>3. CASE g = "field_planning" BY <2>3, NameList DEF Subgraphs, Stops
  <2>4. CASE g = "field_execution" BY <2>4, NameList DEF Subgraphs, Stops
  <2>5. CASE g = "plant_referral" BY <2>5, NameList DEF Subgraphs, Stops
  <2>6. CASE g = "plant_execution" BY <2>6, NameList DEF Subgraphs, Stops
  <2>7. CASE g = "restoration_validation" BY <2>7, NameList DEF Subgraphs, Stops
  <2>8. CASE g = "reconciliation_closure" BY <2>8, NameList DEF Subgraphs, Stops
  <2>9. CASE g = "preventive_maintenance" BY <2>9, NameList DEF Subgraphs, Stops
  <2> QED BY <1>2, NameList, <2>1, <2>2, <2>3, <2>4, <2>5, <2>6, <2>7, <2>8, <2>9
<1> QED BY <1>1, <1>2 DEF Nodes, InnerNodes, Names

-----------------------------------------------------------------------------
(* The shape of a step *)

\* Node n does its work; whether the case is escalated stays as it is.
Runs(n) == \E s, d, next : Node(n, s, d, next)
\* Node n escalates, and its edge leads to no other node.
Leaves(n) == \E d, next : next \notin Nodes /\ Write(n, "escalated", TRUE, d, next)
\* Node n raises.
Fails(n) == pc = n /\ Crash("crash:input")
StepOf(n) == n \in Nodes /\ (Runs(n) \/ Leaves(n) \/ Fails(n))

\* Every action of intake, diagnosis and the parent gates is a step of its node.
LEMMA DiagnosisSteps == DiagnosisNext => \E n \in Nodes : StepOf(n)
<1>1. ReceiveSignal => StepOf("receive_signal")
  BY NodeNames
    DEF ReceiveSignal, StepOf, Runs, ParentNodes
<1>2. NormalizeEvent => StepOf("normalize_event")
  BY NodeNames
    DEF NormalizeEvent, StepOf, Runs, Quiet, ParentNodes
<1>3. ResolveIdentityAndTopology => StepOf("resolve_identity_and_topology")
  BY NodeNames
    DEF ResolveIdentityAndTopology, StepOf, Runs, Quiet, ParentNodes
<1>4. DeduplicateAndCorrelate => StepOf("deduplicate_and_correlate")
  BY NodeNames
    DEF DeduplicateAndCorrelate, StepOf, Runs, Quiet, ParentNodes
<1>5. AssessImpactAndPriority => StepOf("assess_impact_and_priority")
  BY NodeNames
    DEF AssessImpactAndPriority, StepOf, Runs, Quiet, ParentNodes
<1>6. CreateOrAttachIncident => StepOf("create_or_attach_incident")
  BY NodeNames, EndsAreNotNodes
    DEF CreateOrAttachIncident, StepOf, Runs, Quiet, ParentNodes, Leaves, Stops
<1>7. AssembleCaseEvidence => StepOf("assemble_case_evidence")
  BY NodeNames
    DEF AssembleCaseEvidence, StepOf, Runs, ParentNodes
<1>8. CreateDiagnosticTestPlan => StepOf("create_diagnostic_test_plan")
  BY NodeNames
    DEF CreateDiagnosticTestPlan, StepOf, Runs, Quiet, ParentNodes
<1>9. ExecuteReadOnlyTests => StepOf("execute_read_only_tests")
  BY NodeNames
    DEF ExecuteReadOnlyTests, StepOf, Runs, Quiet, ParentNodes
<1>10. DetermineRootCause => StepOf("determine_root_cause")
  BY NodeNames
    DEF DetermineRootCause, StepOf, Runs, ParentNodes
<1>11. GenerateResolutionOptions => StepOf("generate_resolution_options")
  BY NodeNames
    DEF GenerateResolutionOptions, StepOf, Runs, Quiet, ParentNodes
<1>12. PrepareLowConfidenceReview => StepOf("prepare_low_confidence_review")
  BY NodeNames
    DEF PrepareLowConfidenceReview, StepOf, Runs, ParentNodes
<1>13. RequestLowConfidenceReview => StepOf("request_low_confidence_review")
  BY NodeNames
    DEF RequestLowConfidenceReview, StepOf, Runs, ParentNodes
<1>14. PrepareBlastRadiusApproval => StepOf("prepare_blast_radius_approval")
  BY NodeNames
    DEF PrepareBlastRadiusApproval, StepOf, Runs, Needs, Fails, ParentNodes
<1>15. RequestBlastRadiusApproval => StepOf("request_blast_radius_approval")
  BY NodeNames
    DEF RequestBlastRadiusApproval, StepOf, Runs, ParentNodes
<1>16. RecordEscalation => StepOf("record_escalation")
  BY NodeNames, EndsAreNotNodes
    DEF RecordEscalation, StepOf, ParentNodes, Leaves, Stops
<1>17. ConfirmCustomerOutcome => StepOf("confirm_customer_outcome")
  BY NodeNames
    DEF ConfirmCustomerOutcome, StepOf, Runs, Quiet, Needs, Fails, ParentNodes
<1> QED
  BY <1>1, <1>2, <1>3, <1>4, <1>5, <1>6, <1>7, <1>8, <1>9, <1>10, <1>11, <1>12,
    <1>13, <1>14, <1>15, <1>16, <1>17 DEF DiagnosisNext, StepOf

\* Every action of remote repair is a step of its node.
LEMMA RemoteSteps == RemoteNext => \E n \in Nodes : StepOf(n)
<1>1. SelectRemoteAction => StepOf("select_remote_action")
  BY NodeNames, NameList
    DEF SelectRemoteAction, StepOf, Runs, Quiet, Subgraphs
<1>2. PrepareRemoteApproval => StepOf("prepare_remote_approval")
  BY NodeNames, NameList
    DEF PrepareRemoteApproval, StepOf, Runs, Subgraphs
<1>3. RequestRemoteApproval => StepOf("request_remote_approval")
  BY NodeNames, NameList
    DEF RequestRemoteApproval, StepOf, Runs, Quiet, Subgraphs
<1>4. AbandonRemoteAction => StepOf("abandon_remote_action")
  BY NodeNames, NameList
    DEF AbandonRemoteAction, StepOf, Runs, Subgraphs
<1>5. ExecuteRemoteRepair => StepOf("execute_remote_repair")
  BY NodeNames, NameList
    DEF ExecuteRemoteRepair, StepOf, Runs, Subgraphs
<1>6. VerifyRemoteRepair => StepOf("verify_remote_repair")
  BY NodeNames, NameList
    DEF VerifyRemoteRepair, StepOf, Runs, Quiet, Subgraphs
<1> QED
  BY <1>1, <1>2, <1>3, <1>4, <1>5, <1>6 DEF RemoteNext, StepOf

\* Every action of self-help is a step of its node.
LEMMA SelfHelpSteps == SelfHelpNext => \E n \in Nodes : StepOf(n)
<1>1. SelectSelfHelpScript => StepOf("select_self_help_script")
  BY NodeNames, NameList
    DEF SelectSelfHelpScript, StepOf, Runs, Quiet, Subgraphs
<1>2. PrepareSelfHelpApproval => StepOf("prepare_self_help_approval")
  BY NodeNames, NameList
    DEF PrepareSelfHelpApproval, StepOf, Runs, Subgraphs
<1>3. RequestSelfHelpApproval => StepOf("request_self_help_approval")
  BY NodeNames, NameList
    DEF RequestSelfHelpApproval, StepOf, Runs, Quiet, Subgraphs
<1>4. SendSelfHelpInstructions => StepOf("send_self_help_instructions")
  BY NodeNames, NameList
    DEF SendSelfHelpInstructions, StepOf, Runs, Subgraphs
<1>5. MarkAwaitingCustomer => StepOf("mark_awaiting_customer")
  BY NodeNames, NameList
    DEF MarkAwaitingCustomer, StepOf, Runs, Needs, Fails, Subgraphs
<1>6. AwaitCustomerResponse => StepOf("await_customer_response")
  BY NodeNames, NameList
    DEF AwaitCustomerResponse, StepOf, Runs, Quiet, Needs, Fails, Subgraphs
<1>7. VerifySelfHelp => StepOf("verify_self_help")
  BY NodeNames, NameList
    DEF VerifySelfHelp, StepOf, Runs, Needs, Fails, Subgraphs
<1>8. AbandonSelfHelp => StepOf("abandon_self_help")
  BY NodeNames, NameList
    DEF AbandonSelfHelp, StepOf, Runs, Subgraphs
<1> QED
  BY <1>1, <1>2, <1>3, <1>4, <1>5, <1>6, <1>7, <1>8 DEF SelfHelpNext, StepOf

\* Every action of field planning and the visit is a step of its node.
LEMMA FieldSteps == FieldNext => \E n \in Nodes : StepOf(n)
<1>1. BuildFieldRequirement => StepOf("build_field_requirement")
  BY NodeNames, NameList
    DEF BuildFieldRequirement, StepOf, Runs, Quiet, Subgraphs
<1>2. OptimizeFieldSchedule => StepOf("optimize_field_schedule")
  BY NodeNames, NameList
    DEF OptimizeFieldSchedule, StepOf, Runs, Subgraphs
<1>3. EvaluateDispatchPolicy => StepOf("evaluate_dispatch_policy")
  BY NodeNames, NameList
    DEF EvaluateDispatchPolicy, StepOf, Runs, Quiet, Subgraphs
<1>4. PrepareDispatchApproval => StepOf("prepare_dispatch_approval")
  BY NodeNames, NameList
    DEF PrepareDispatchApproval, StepOf, Runs, Subgraphs
<1>5. RequestDispatchApproval => StepOf("request_dispatch_approval")
  BY NodeNames, NameList
    DEF RequestDispatchApproval, StepOf, Runs, Quiet, Subgraphs
<1>6. CommitFieldDispatch => StepOf("commit_field_dispatch")
  BY NodeNames, NameList
    DEF CommitFieldDispatch, StepOf, Runs, Subgraphs
<1>7. QueueForDispatcher => StepOf("queue_for_dispatcher")
  BY NodeNames, NameList
    DEF QueueForDispatcher, StepOf, Runs, Subgraphs
<1>8. AbandonFieldPlanning => StepOf("abandon_field_planning")
  BY NodeNames, NameList
    DEF AbandonFieldPlanning, StepOf, Runs, Subgraphs
<1>9. OpenFieldVisit => StepOf("open_field_visit")
  BY NodeNames, NameList
    DEF OpenFieldVisit, StepOf, Runs, Quiet, Subgraphs
<1>10. CaptureFieldEvidence => StepOf("capture_field_evidence")
  BY NodeNames, NameList
    DEF CaptureFieldEvidence, StepOf, Runs, Quiet, Needs, Fails, Subgraphs
<1>11. CloseCleanBootsVisit => StepOf("close_clean_boots_visit")
  BY NodeNames, NameList
    DEF CloseCleanBootsVisit, StepOf, Runs, Needs, Fails, Subgraphs
<1>12. DetermineDelimiter => StepOf("determine_delimiter")
  BY NodeNames, NameList
    DEF DetermineDelimiter, StepOf, Runs, Subgraphs
<1>13. RequestAdditionalFieldTests => StepOf("request_additional_field_tests")
  BY NodeNames, NameList
    DEF RequestAdditionalFieldTests, StepOf, Runs, Subgraphs
<1>14. EvaluateHandoverPolicy => StepOf("evaluate_handover_policy")
  BY NodeNames, NameList
    DEF EvaluateHandoverPolicy, StepOf, Runs, Quiet, Needs, Fails, Subgraphs
<1>15. BuildHandoverContract => StepOf("build_handover_contract")
  BY NodeNames, NameList
    DEF BuildHandoverContract, StepOf, Runs, Needs, Fails, Subgraphs
<1>16. PrepareHandoverApproval => StepOf("prepare_handover_approval")
  BY NodeNames, NameList
    DEF PrepareHandoverApproval, StepOf, Runs, Needs, Fails, Subgraphs
<1>17. RequestHandoverApproval => StepOf("request_handover_approval")
  BY NodeNames, NameList
    DEF RequestHandoverApproval, StepOf, Runs, Quiet, Subgraphs
<1>18. FilePlantMR => StepOf("file_plant_mr")
  BY NodeNames, NameList
    DEF FilePlantMR, StepOf, Runs, Needs, Fails, Subgraphs
<1>19. AbandonHandover => StepOf("abandon_handover")
  BY NodeNames, NameList
    DEF AbandonHandover, StepOf, Runs, Subgraphs
<1> QED
  BY <1>1, <1>2, <1>3, <1>4, <1>5, <1>6, <1>7, <1>8, <1>9, <1>10, <1>11, <1>12,
    <1>13, <1>14, <1>15, <1>16, <1>17, <1>18, <1>19 DEF FieldNext, StepOf

\* Every action of plant referral and execution is a step of its node.
LEMMA PlantSteps == PlantNext => \E n \in Nodes : StepOf(n)
<1>1. EvaluatePlantReferral => StepOf("evaluate_plant_referral")
  BY NodeNames, NameList
    DEF EvaluatePlantReferral, StepOf, Runs, Quiet, Subgraphs
<1>2. PreparePlantReferralApproval => StepOf("prepare_plant_referral_approval")
  BY NodeNames, NameList
    DEF PreparePlantReferralApproval, StepOf, Runs, Subgraphs
<1>3. RequestPlantReferralApproval => StepOf("request_plant_referral_approval")
  BY NodeNames, NameList
    DEF RequestPlantReferralApproval, StepOf, Runs, Quiet, Subgraphs
<1>4. FilePlantReferralMR => StepOf("file_plant_referral_mr")
  BY NodeNames, NameList
    DEF FilePlantReferralMR, StepOf, Runs, Subgraphs
<1>5. AbandonPlantReferral => StepOf("abandon_plant_referral")
  BY NodeNames, NameList, EndsAreNotNodes
    DEF AbandonPlantReferral, StepOf, Subgraphs, Leaves, End
<1>6. SearchPlantMR => StepOf("search_plant_mr")
  BY NodeNames, NameList
    DEF SearchPlantMR, StepOf, Runs, Quiet, Subgraphs
<1>7. UpdatePlantMR => StepOf("update_plant_mr")
  BY NodeNames, NameList
    DEF UpdatePlantMR, StepOf, Runs, Quiet, Needs, Fails, Subgraphs
<1>8. CapturePlantEvidence => StepOf("capture_plant_evidence")
  BY NodeNames, NameList
    DEF CapturePlantEvidence, StepOf, Runs, Needs, Fails, Subgraphs
<1> QED
  BY <1>1, <1>2, <1>3, <1>4, <1>5, <1>6, <1>7, <1>8 DEF PlantNext, StepOf

\* Every action of validation, reconciliation and closure is a step of its node.
LEMMA RestorationSteps == RestorationNext => \E n \in Nodes : StepOf(n)
<1>1. AwaitServiceStability => StepOf("await_service_stability")
  BY NodeNames, NameList
    DEF AwaitServiceStability, StepOf, Runs, Quiet, Subgraphs
<1>2. SnapshotPostFixState => StepOf("snapshot_post_fix_state")
  BY NodeNames, NameList
    DEF SnapshotPostFixState, StepOf, Runs, Subgraphs
<1>3. AssessRestoration => StepOf("assess_restoration")
  BY NodeNames, NameList
    DEF AssessRestoration, StepOf, Runs, Quiet, Subgraphs
<1>4. ReconcileLinkedSystems => StepOf("reconcile_linked_systems")
  BY NodeNames, NameList
    DEF ReconcileLinkedSystems, StepOf, Runs, Subgraphs
<1>5. HoldForReconciliationRetry => StepOf("hold_for_reconciliation_retry")
  BY NodeNames, NameList, EndsAreNotNodes
    DEF HoldForReconciliationRetry, StepOf, Runs, Quiet, Subgraphs, Leaves, End
<1>6. EvaluateClosurePolicy => StepOf("evaluate_closure_policy")
  BY NodeNames, NameList
    DEF EvaluateClosurePolicy, StepOf, Runs, Quiet, Subgraphs
<1>7. PrepareExceptionalClosureApproval => StepOf("prepare_exceptional_closure_approval")
  BY NodeNames, NameList
    DEF PrepareExceptionalClosureApproval, StepOf, Runs, Subgraphs
<1>8. RequestExceptionalClosureApproval => StepOf("request_exceptional_closure_approval")
  BY NodeNames, NameList
    DEF RequestExceptionalClosureApproval, StepOf, Runs, Quiet, Subgraphs
<1>9. AbandonClosure => StepOf("abandon_closure")
  BY NodeNames, NameList, EndsAreNotNodes
    DEF AbandonClosure, StepOf, Subgraphs, Leaves, End
<1>10. CloseLinkedRecords => StepOf("close_linked_records")
  BY NodeNames, NameList
    DEF CloseLinkedRecords, StepOf, Runs, Needs, Fails, Subgraphs
<1>11. RecordChronicPattern => StepOf("record_chronic_pattern")
  BY NodeNames, NameList
    DEF RecordChronicPattern, StepOf, Runs, Quiet, Subgraphs
<1>12. UpdateKpisAndLearning => StepOf("update_kpis_and_learning")
  BY NodeNames, NameList
    DEF UpdateKpisAndLearning, StepOf, Runs, Subgraphs
<1> QED
  BY <1>1, <1>2, <1>3, <1>4, <1>5, <1>6, <1>7, <1>8, <1>9, <1>10, <1>11, <1>12 DEF RestorationNext, StepOf

\* Every action of preventive maintenance is a step of its node.
LEMMA PreventiveSteps == PreventiveNext => \E n \in Nodes : StepOf(n)
<1>1. AssessPredictiveRisk => StepOf("assess_predictive_risk")
  BY NodeNames, NameList
    DEF AssessPredictiveRisk, StepOf, Runs, Subgraphs
<1>2. OpenPreventiveCase => StepOf("open_preventive_case")
  BY NodeNames, NameList
    DEF OpenPreventiveCase, StepOf, Runs, Quiet, Subgraphs
<1>3. PreventiveTreatment => \E n \in Nodes : StepOf(n)
  <2>1. Treatments \subseteq Nodes
    BY NodeNames, NameList DEF Treatments, Subgraphs
  <2> QED
    BY <2>1 DEF PreventiveTreatment, StepOf, Runs, Quiet
<1> QED
  BY <1>1, <1>2, <1>3 DEF PreventiveNext, StepOf

-----------------------------------------------------------------------------
(* The invariant *)

\* The counters, where they are counted: one past a bound only once the run is escalated.
MetersHold ==
  /\ steps \in Nat /\ diagnostic \in Nat /\ resolution \in Nat /\ visits \in [Watched -> Nat]
  /\ steps <= MaxSteps + 1 /\ (~escalated => steps <= MaxSteps)
  /\ \A w \in Watched : visits[w] <= MaxVisits + 1 /\ (~escalated => visits[w] <= MaxVisits)
  /\ diagnostic <= MaxDiagnostic /\ resolution <= MaxResolution

ControlInv == EscalationStops /\ (Metered => MetersHold)

\* A run starts at a node, not escalated, with nothing counted.
LEMMA InitControl == Init => ControlInv
<1> SUFFICES ASSUME Init PROVE ControlInv
  OBVIOUS
<1>1. EscalationStops
  BY DEF Init, EscalationStops
<1>2. MetersHold
  BY BudgetAssumption DEF Init, MetersHold
<1> QED BY <1>1, <1>2 DEF ControlInv

\* A step that neither counts nor escalates, and leaves for no node if the case is escalated.
LEMMA UncountedStep ==
  ASSUME ControlInv, UNCHANGED <<status, escalated, meters>>, escalated => pc' \notin Nodes
  PROVE  ControlInv'
<1>1. EscalationStops'
  BY DEF ControlInv, EscalationStops
<1>2. Metered => MetersHold'
  BY DEF ControlInv, MetersHold, meters
<1> QED BY <1>1, <1>2 DEF ControlInv

\* One node is counted: its meters stay within the bounds if its body ran, and one past them if not.
LEMMA TallyKeepsMeters ==
  ASSUME ControlInv, Metered, NEW n, NEW ran \in BOOLEAN, pc \in Nodes, Tally(n, ran),
         ran => ~Spent(n), ran \/ escalated'
  PROVE  MetersHold'
<1>1. ~escalated /\ MetersHold
  BY DEF ControlInv, EscalationStops
<1>2. /\ MaxSteps \in Nat /\ MaxVisits \in Nat /\ MaxDiagnostic \in Nat /\ MaxResolution \in Nat
  BY BudgetAssumption
<1>3. steps' = steps + 1
  BY DEF Tally
<1>4. visits' = [w \in Watched |-> IF w = n THEN visits[w] + 1 ELSE visits[w]]
  BY DEF Tally
<1>5. /\ diagnostic' = IF ran /\ n = "assemble_case_evidence" THEN diagnostic + 1 ELSE diagnostic
      /\ resolution' = IF ran /\ n = "generate_resolution_options" THEN resolution + 1 ELSE resolution
  BY DEF Tally
<1>6. steps' \in Nat /\ steps' <= MaxSteps + 1 /\ (ran => steps' <= MaxSteps)
  BY <1>1, <1>2, <1>3 DEF MetersHold, Spent
<1>7. visits' \in [Watched -> Nat]
  BY <1>1, <1>4 DEF MetersHold
<1>8. \A w \in Watched : visits'[w] <= MaxVisits + 1 /\ (ran => visits'[w] <= MaxVisits)
  BY <1>1, <1>2, <1>4 DEF MetersHold, Spent
<1>9. /\ diagnostic' \in Nat /\ diagnostic' <= MaxDiagnostic
      /\ resolution' \in Nat /\ resolution' <= MaxResolution
  BY <1>1, <1>2, <1>5 DEF MetersHold, Spent
<1> QED BY <1>6, <1>7, <1>8, <1>9 DEF MetersHold

\* A crash changes nothing but the place of the run.
LEMMA CrashKeeps ==
  ASSUME ControlInv, NEW why \in Stops, Crash(why)
  PROVE  ControlInv'
BY UncountedStep, EndsAreNotNodes DEF Crash

\* Each of the three shapes keeps the invariant.
LEMMA StepKeeps ==
  ASSUME ControlInv, NEW n \in Nodes, StepOf(n)
  PROVE  ControlInv'
<1>1. CASE Runs(n)
  <2>1. PICK s, d, next : Node(n, s, d, next)
    BY <1>1 DEF Runs
  <2>2. pc = n /\ Within(n) /\ Merge(n, TRUE, s, escalated, d, next)
    BY <2>1 DEF Node, Write
  <2>3. CASE CanTransition(status, s)
    <3>1. escalated' = escalated /\ Tally(n, TRUE)
      BY <2>2, <2>3 DEF Merge
    <3>2. ~escalated
      BY <2>2 DEF ControlInv, EscalationStops
    <3>3. Metered => MetersHold'
      BY <2>2, <3>1, TallyKeepsMeters DEF Within
    <3> QED BY <3>1, <3>2, <3>3 DEF ControlInv, EscalationStops
  <2>4. CASE ~CanTransition(status, s)
    BY <2>2, <2>4, CrashKeeps DEF Merge, Stops
  <2> QED BY <2>3, <2>4
<1>2. CASE Leaves(n)
  <2>1. PICK d, next : next \notin Nodes /\ Write(n, "escalated", TRUE, d, next)
    BY <1>2 DEF Leaves
  <2>2. pc = n /\ Within(n) /\ Merge(n, TRUE, "escalated", TRUE, d, next)
    BY <2>1 DEF Write
  <2>3. CASE CanTransition(status, "escalated")
    <3>1. escalated' = TRUE /\ status' = "escalated" /\ pc' = next /\ Tally(n, TRUE)
      BY <2>2, <2>3 DEF Merge
    <3>2. Metered => MetersHold'
      BY <2>2, <3>1, TallyKeepsMeters DEF Within
    <3> QED BY <2>1, <3>1, <3>2 DEF ControlInv, EscalationStops
  <2>4. CASE ~CanTransition(status, "escalated")
    BY <2>2, <2>4, CrashKeeps DEF Merge, Stops
  <2> QED BY <2>3, <2>4
<1>3. CASE Fails(n)
  BY <1>3, CrashKeeps DEF Fails, Stops
<1> QED BY <1>1, <1>2, <1>3 DEF StepOf

\* The guard that trips counts the node it replaces, and leads out of every graph it is in.
LEMMA GuardKeeps ==
  ASSUME ControlInv, GuardTrips
  PROVE  ControlInv'
<1> DEFINE next == IF pc \in InnerNodes THEN End(SubgraphOf(pc)) ELSE "END"
<1>1. pc \in Nodes /\ Merge(pc, FALSE, "escalated", TRUE, case, next)
  BY DEF GuardTrips
<1>2. next \notin Nodes
  BY NodeNames, EndsAreNotNodes DEF End, Stops
<1>3. CASE CanTransition(status, "escalated")
  <2>1. escalated' = TRUE /\ status' = "escalated" /\ pc' = next /\ Tally(pc, FALSE)
    BY <1>1, <1>3 DEF Merge
  <2>2. Metered => MetersHold'
    BY <1>1, <2>1, TallyKeepsMeters
  <2> QED BY <1>2, <2>1, <2>2 DEF ControlInv, EscalationStops
<1>4. CASE ~CanTransition(status, "escalated")
  BY <1>1, <1>4, CrashKeeps DEF Merge, Stops
<1> QED BY <1>3, <1>4

\* The end of a subgraph is guarded: an escalated case goes nowhere else.
LEMMA ReturnKeeps ==
  ASSUME ControlInv, NEW g, NEW next, Return(g, next)
  PROVE  ControlInv'
<1>1. CASE CanTransition(outer, status)
  BY <1>1, UncountedStep, EndsAreNotNodes DEF Return, Stops
<1>2. CASE ~CanTransition(outer, status)
  BY <1>2, CrashKeeps DEF Return, Stops
<1> QED BY <1>1, <1>2

\* Every step of the graph keeps the invariant.
LEMMA NextControl == ControlInv /\ [Next]_vars => ControlInv'
<1> SUFFICES ASSUME ControlInv, [Next]_vars PROVE ControlInv'
  OBVIOUS
<1>1. CASE \/ DiagnosisNext \/ RemoteNext \/ SelfHelpNext \/ FieldNext
           \/ PlantNext \/ RestorationNext \/ PreventiveNext
  <2>1. PICK n \in Nodes : StepOf(n)
    BY <1>1, DiagnosisSteps, RemoteSteps, SelfHelpSteps, FieldSteps, PlantSteps,
       RestorationSteps, PreventiveSteps
  <2> QED BY <2>1, StepKeeps
<1>2. CASE Returns
  BY <1>2, ReturnKeeps DEF Returns
<1>3. CASE GuardTrips
  BY <1>3, GuardKeeps
<1>4. CASE UNCHANGED vars
  BY <1>4, UncountedStep DEF vars, control, ControlInv, EscalationStops
<1> QED BY <1>1, <1>2, <1>3, <1>4 DEF Next, Stopped

-----------------------------------------------------------------------------
\* An escalated run goes no further, whatever escalated it and wherever it was: no node of the
\* parent or of a subgraph runs once `escalated` is set (`guarded` on every edge of the builder).
THEOREM EscalationIsFinal == Spec => []EscalationStops
<1>1. ControlInv => EscalationStops
  BY DEF ControlInv
<1> QED BY <1>1, InitControl, NextControl, PTL DEF Spec

\* No budget of `check_budgets` is passed by more than the one node that finds it spent.
THEOREM BudgetsAreKept == Spec => []BudgetsHold
<1>1. ControlInv => BudgetsHold
  BY DEF ControlInv, MetersHold, BudgetsHold
<1> QED BY <1>1, InitControl, NextControl, PTL DEF Spec

-----------------------------------------------------------------------------
(* How long a run may be: the half of Termination that is safety *)

\* Where a run stops, nothing is left of the node; a subgraph that has ended has yet to be left.
Weight(place) == IF place \in Stops THEN 0 ELSE IF place \in Names THEN 2 ELSE 1
\* The moves a run has left: three to a node the budget still pays for, those of its place included.
MovesLeft == 3 * (MaxSteps + 1 - steps) + Weight(pc)

\* Whatever the place, its weight is small.
LEMMA Weights == \A place : Weight(place) \in 0..2
BY DEF Weight

\* The budget never leaves a run in debt: the node that finds it spent is paid for as well.
LEMMA MovesAreLeft == ControlInv /\ Metered => MovesLeft \in Nat
<1> SUFFICES ASSUME ControlInv, Metered PROVE MovesLeft \in Nat
  OBVIOUS
<1>1. steps \in Nat /\ steps <= MaxSteps + 1 /\ MaxSteps \in Nat
  BY BudgetAssumption DEF ControlInv, MetersHold
<1>2. Weight(pc) \in 0..2
  BY Weights
<1> QED BY <1>1, <1>2 DEF MovesLeft

\* A node that runs, or is replaced by the guard, is paid for with a step; one that raises stops.
LEMMA NodeSpends ==
  ASSUME ControlInv, Metered, pc \in Nodes,
         \/ \E n, ran : Tally(n, ran)
         \/ pc' \in Stops /\ UNCHANGED steps
  PROVE  MovesLeft' < MovesLeft
<1>1. steps \in Nat /\ MaxSteps \in Nat
  BY BudgetAssumption DEF ControlInv, MetersHold
<1>2. Weight(pc) = 1 /\ Weight(pc') \in 0..2
  BY EndsAreNotNodes, Weights DEF Weight
<1>3. MovesLeft = 3 * (MaxSteps + 1 - steps) + 1
  BY <1>2 DEF MovesLeft
<1>4. MovesLeft' = 3 * (MaxSteps + 1 - steps') + Weight(pc')
  BY DEF MovesLeft, Weight
<1>5. CASE \E n, ran : Tally(n, ran)
  <2>1. steps' = steps + 1
    BY <1>5 DEF Tally
  <2> QED BY <2>1, <1>1, <1>2, <1>3, <1>4
<1>6. CASE pc' \in Stops /\ UNCHANGED steps
  <2>1. Weight(pc') = 0
    BY <1>6 DEF Weight
  <2> QED BY <2>1, <1>6, <1>1, <1>3, <1>4
<1> QED BY <1>5, <1>6

\* Merged or not, what node n wrote is counted, or it was the last.
LEMMA MergeSpends ==
  ASSUME NEW n, NEW ran, NEW s, NEW esc, NEW d, NEW next, Merge(n, ran, s, esc, d, next)
  PROVE  \/ Tally(n, ran)
         \/ pc' \in Stops /\ UNCHANGED steps
BY DEF Merge, Crash, Stops, meters

\* So each of the three shapes of a node's step leaves fewer moves.
LEMMA StepSpends ==
  ASSUME ControlInv, Metered, NEW n \in Nodes, StepOf(n)
  PROVE  MovesLeft' < MovesLeft
<1>1. pc = n
  BY DEF StepOf, Runs, Leaves, Fails, Node, Write
<1>2. CASE Runs(n) \/ Leaves(n)
  <2>1. PICK s, esc, d, next : Merge(n, TRUE, s, esc, d, next)
    BY <1>2 DEF Runs, Leaves, Node, Write
  <2> QED BY <1>1, <2>1, MergeSpends, NodeSpends
<1>3. CASE Fails(n)
  BY <1>1, <1>3, NodeSpends DEF Fails, Crash, Stops, meters
<1> QED BY <1>2, <1>3 DEF StepOf

\* A subgraph's end leads to no subgraph's end: a run cannot be handed round between them for free.
LEMMA EndsLeadOn ==
  /\ RouteRemoteOutcome(case) \notin Names /\ RouteSelfHelpOutcome(case) \notin Names
  /\ RouteCleanBootsOutcome(case) \notin Names /\ RoutePlantOutcome(case) \notin Names
  /\ RouteStability(case) \notin Names
  /\ \A x \in {"open_field_visit", "search_plant_mr", "END"} : x \notin Names
<1>1. RouteRemoteOutcome(case) \notin Names
  BY NameList DEF RouteRemoteOutcome
<1>2. RouteSelfHelpOutcome(case) \notin Names
  BY NameList DEF RouteSelfHelpOutcome
<1>3. RouteCleanBootsOutcome(case) \notin Names
  BY NameList DEF RouteCleanBootsOutcome
<1>4. RoutePlantOutcome(case) \notin Names
  BY NameList DEF RoutePlantOutcome, RouteResidualImpact
<1>5. RouteStability(case) \notin Names
  BY NameList DEF RouteStability
<1>6. \A x \in {"open_field_visit", "search_plant_mr", "END"} : x \notin Names
  BY NameList
<1> QED BY <1>1, <1>2, <1>3, <1>4, <1>5, <1>6

\* Leaving a subgraph costs no step, but it is left.
LEMMA ReturnSpends ==
  ASSUME ControlInv, Metered, NEW g \in Names, NEW next, next \notin Names, Return(g, next)
  PROVE  MovesLeft' < MovesLeft
<1>1. steps \in Nat /\ MaxSteps \in Nat /\ steps' = steps
  BY BudgetAssumption DEF ControlInv, MetersHold, Return, Crash, meters
<1>2. pc = g /\ pc' \in {next} \cup Stops
  BY DEF Return, End, Crash, Stops
<1>3. Weight(pc) = 2
  BY <1>2, NameList DEF Weight, Stops
<1>4. Weight(pc') \in 0..1
  BY <1>2 DEF Weight
<1>5. MovesLeft' = 3 * (MaxSteps + 1 - steps') + Weight(pc')
  BY DEF MovesLeft, Weight
<1> QED BY <1>1, <1>3, <1>4, <1>5 DEF MovesLeft

\* Every step of the graph leaves fewer moves, wherever it leads and whatever it writes.
LEMMA NextSpends == ControlInv /\ Metered /\ [Next]_vars => UNCHANGED vars \/ MovesLeft' < MovesLeft
<1> SUFFICES ASSUME ControlInv, Metered, [Next]_vars
             PROVE  UNCHANGED vars \/ MovesLeft' < MovesLeft
  OBVIOUS
<1>1. CASE \/ DiagnosisNext \/ RemoteNext \/ SelfHelpNext \/ FieldNext
           \/ PlantNext \/ RestorationNext \/ PreventiveNext
  <2>1. PICK n \in Nodes : StepOf(n)
    BY <1>1, DiagnosisSteps, RemoteSteps, SelfHelpSteps, FieldSteps, PlantSteps,
       RestorationSteps, PreventiveSteps
  <2> QED BY <2>1, StepSpends
<1>2. CASE Returns
  <2>1. PICK g, next : g \in Names /\ next \notin Names /\ Return(g, next)
    BY <1>2, NameList, EndsLeadOn DEF Returns
  <2> QED BY <2>1, ReturnSpends
<1>3. CASE GuardTrips
  BY <1>3, MergeSpends, NodeSpends DEF GuardTrips
<1>4. CASE UNCHANGED vars
  BY <1>4
<1> QED BY <1>1, <1>2, <1>3, <1>4 DEF Next, Stopped

\* No run goes on for ever: with the budgets counted, every move of the graph leaves fewer moves,
\* of which the first node finds 3 * MaxSteps + 4.  No cycle through a subgraph's end, a retry, a
\* parked wait or a refusal is free, whichever nodes are watched and whatever the routers answer
\* (`check_budgets`).  That a run which has not stopped can always move is what Termination adds.
MovesRunOut ==
  /\ MovesLeft = 3 * MaxSteps + 4
  /\ [](Metered => MovesLeft \in Nat)
  /\ [][Metered => MovesLeft' < MovesLeft]_vars

\* Every run of the graph is finite: `check_budgets` stands before every node, the edge out of a
\* subgraph leads to a node or out of the graph, and nothing else moves a run.
THEOREM RunsAreFinite == Spec => MovesRunOut
<1>1. Init => MovesLeft = 3 * MaxSteps + 4
  <2> SUFFICES ASSUME Init PROVE MovesLeft = 3 * MaxSteps + 4
    OBVIOUS
  <2>1. pc \in Nodes /\ steps = 0 /\ MaxSteps \in Nat
    BY NodeNames, BudgetAssumption DEF Init, ParentNodes
  <2>2. Weight(pc) = 1
    BY <2>1, EndsAreNotNodes DEF Weight
  <2> QED BY <2>1, <2>2 DEF MovesLeft
<1>2. ControlInv => (Metered => MovesLeft \in Nat)
  BY MovesAreLeft
<1>3. ControlInv /\ [Next]_vars => [Metered => MovesLeft' < MovesLeft]_vars
  BY NextSpends
<1> QED BY <1>1, <1>2, <1>3, InitControl, NextControl, PTL DEF Spec, MovesRunOut
=============================================================================
