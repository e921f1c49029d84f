----------------------------- MODULE PlantWork -----------------------------
(***************************************************************************)
(* The outside plant: referring a fault found from the desk (P11 to P19    *)
(* without a visit), and following the maintenance request until the plant *)
(* crew reports (P20).                                                     *)
(***************************************************************************)
EXTENDS Routing

\* Mutant: the answer is read before the verdict.
RoutePlantReferralAnswer(d) ==
  IF d.mr # "none" THEN End("plant_referral")
  ELSE CASE d.answer["handover"] = "none" -> "prepare_plant_referral_approval"
         [] d.answer["handover"] = "approved" -> "file_plant_referral_mr"
         [] OTHER -> "abandon_plant_referral"
\* An incident that already holds a request, whatever became of it, is not referred again.
RoutePlantReferralGate(d) ==
  IF d.mr # "none" THEN End("plant_referral")
  ELSE IF d.verdict[RaiseMR] \in {"none", "blocked"} THEN "abandon_plant_referral"
  ELSE CASE d.answer["handover"] = "none" -> "prepare_plant_referral_approval"
         [] d.answer["handover"] = "approved" -> "file_plant_referral_mr"
         [] OTHER -> "abandon_plant_referral"

EvaluatePlantReferral ==
  \E d \in IF case.mr # "none" THEN {case}
           ELSE {Decide(case, RaiseMR, v) : v \in Judgements(case, RaiseMR)} :
    Quiet("evaluate_plant_referral", d, RoutePlantReferralGate(d))

PreparePlantReferralApproval ==
  Node("prepare_plant_referral_approval", "awaiting_approval", case,
       "request_plant_referral_approval")

RequestPlantReferralApproval ==
  \E ans \in Answers :
    LET d == Answered(case, "handover", ans)
    IN Quiet("request_plant_referral_approval", d, RoutePlantReferralGate(d))

FilePlantReferralMR ==
  \E reached \in Reach :
    Node("file_plant_referral_mr", "mr_raised", Submitted(case, reached), End("plant_referral"))

AbandonPlantReferral ==
  Write("abandon_plant_referral", "escalated", TRUE, case, End("plant_referral"))

\* D19 is asked by the parent; here only a request the plant crew still holds is followed.
SearchPlantMR ==
  Quiet("search_plant_mr", case,
        IF case.mr = "awaiting_osp" THEN "update_plant_mr" ELSE End("plant_execution"))

\* A note to the plant crew that is allowed is recorded as an action like any other; one that is not
\* leaves the decision, and so the demand for the approval it asks for.
Chased(d, v) == IF v = "allowed" THEN Repaired(d) ELSE [d EXCEPT !.due = @ \cup ({v} \cap Kinds)]

\* The policy is not asked about a request the plant does not hold open.
UpdatePlantMR ==
  Needs("update_plant_mr", case.mr = "awaiting_osp",
    \E d \in {case} \cup {Chased(case, v) : v \in Verdicts[UpdateMR]} :
      Quiet("update_plant_mr", d, "capture_plant_evidence"))

\* The run waits for the plant crew's report; one that cannot be read changes nothing.
CapturePlantEvidence ==
  Needs("capture_plant_evidence", case.mr = "awaiting_osp",
    \E m \in {"awaiting_osp", "completed", "dead"} :
      Node("capture_plant_evidence", "awaiting_plant_repair", [case EXCEPT !.mr = m],
           End("plant_execution")))

PlantNext ==
  \/ EvaluatePlantReferral \/ PreparePlantReferralApproval \/ RequestPlantReferralApproval
  \/ FilePlantReferralMR \/ AbandonPlantReferral
  \/ SearchPlantMR \/ UpdatePlantMR \/ CapturePlantEvidence
=============================================================================
