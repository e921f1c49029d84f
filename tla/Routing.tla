------------------------------ MODULE Routing ------------------------------
(***************************************************************************)
(* The routers D05-D22 of the parent graph, each a function of the case    *)
(* data alone, cascaded as `_cascade` does: a branch that leads to another *)
(* decision asks it at once.  Every value is the node that runs next.      *)
(***************************************************************************)
EXTENDS CaseState

\* D05: poor data is gathered again.
RouteEvidenceSufficiency(d) ==
  IF d.data = "ok" THEN "create_diagnostic_test_plan" ELSE "assemble_case_evidence"

\* D12: what self-help leaves to do.
RouteSelfHelpOutcome(d) ==
  IF d.session = "resolved" THEN "await_service_stability"
  ELSE IF d.plan = {} THEN "build_field_requirement"
  ELSE "determine_root_cause"

\* D11, D09, D08: self-help if one is actionable, a remote repair before it, the plant before both.
RouteSelfHelpSuitability(d) ==
  IF Actionable(d, {Selfhelp}) # {} THEN "select_self_help_script" ELSE "build_field_requirement"

RouteRemoteEligibility(d) ==
  IF Actionable(d, Remote) # {} THEN "select_remote_action" ELSE RouteSelfHelpSuitability(d)

RouteSharedOrPlant(d) ==
  IF d.dom \in {"plant", "back_office"} THEN "evaluate_plant_referral" ELSE RouteRemoteEligibility(d)

\* D07: a blast-radius demand, its refusal, and a plan whose every judged option is blocked.
Judged(d) == {a \in d.plan : d.verdict[a] # "none"}
RouteSafetyAndBlastRadius(d) ==
  IF "blast_radius" \in d.due THEN "prepare_blast_radius_approval"
  ELSE IF \/ d.answer["blast_radius"] = "refused"
          \/ Judged(d) # {} /\ \A a \in Judged(d) : d.verdict[a] = "blocked"
  THEN "record_escalation"
  ELSE RouteSharedOrPlant(d)

\* D06: a demand still open is put to a human; an answer once given decides every later pass.
\* (P10 always writes an RCA before D06 is asked, so its "no RCA" arm is never taken.)
RouteRcaConfidence(d) ==
  IF "low_confidence" \in d.due THEN "prepare_low_confidence_review"
  ELSE IF d.answer["low_confidence"] = "refused" THEN "assemble_case_evidence"
  ELSE "generate_resolution_options"

\* D10: any remote action that ever fixed it counts.
RouteRemoteOutcome(d) == IF d.fixed THEN "await_service_stability" ELSE "assemble_case_evidence"

\* D16: the latest finding says whether the crew finished at the premises.
RouteCleanBootsOutcome(d) ==
  IF d.finding = "done" THEN "await_service_stability" ELSE "search_plant_mr"

\* D20: the latest conclusive test stands for the customer's service after the repair.
RouteResidualImpact(d) ==
  IF d.test = "failed" THEN "build_field_requirement" ELSE "await_service_stability"

\* D19: the latest MR's status.
RoutePlantOutcome(d) ==
  IF d.mr = "completed" THEN RouteResidualImpact(d)
  ELSE IF d.mr = "awaiting_osp" THEN "search_plant_mr"
  ELSE "determine_root_cause"

\* D21: passed, window still open, or not passing.  (No metric is handed to the validator, so its
\* list of regressed metrics is empty and that arm is never taken.)
RouteStability(d) ==
  CASE d.validation = "passed" -> "confirm_customer_outcome"
    [] d.validation \in {"none", "observing"} -> "await_service_stability"
    [] OTHER -> "determine_root_cause"

\* D22: a customer's denial outranks a validation that passed.
RouteResolution(d) ==
  IF d.validation = "passed" /\ d.confirmed # "no"
  THEN "reconcile_linked_systems" ELSE "determine_root_cause"

\* Mutant: has anyone ever approved this kind?
OptionGateOnce(d, approve, act, abandon) ==
  IF d.chosen = "none" THEN abandon
  ELSE LET v == d.verdict[d.chosen]
       IN CASE v = "allowed" -> act
            [] v \in {"none", "blocked"} -> abandon
            [] d.answer[v] = "approved" -> act
            [] v \in d.due -> IF v \in Dedicated THEN abandon ELSE approve
            [] OTHER -> abandon
\* `route_remote_gate`, `route_self_help_gate`: act only on what is allowed, or approved.  A kind
\* with a gate of its own is left to that gate.
OptionGate(d, approve, act, abandon) ==
  IF d.chosen = "none" THEN abandon
  ELSE LET v == d.verdict[d.chosen]
       IN CASE v = "allowed" -> act
            [] v \in {"none", "blocked"} -> abandon
            [] v \in d.due -> IF v \in Dedicated THEN abandon ELSE approve
            [] OTHER -> IF d.answer[v] = "approved" THEN act ELSE abandon

\* The option selected is judged; none left leaves the selection as it was.
SelectOption(d, options) ==
  IF Actionable(d, options) = {} THEN {d}
  ELSE UNION {{Decide([d EXCEPT !.chosen = a], a, v) : v \in Judgements(d, a)} :
                 a \in Actionable(d, options)}

\* The answer to a question about the chosen action.  Its approval id names the action and the
\* attempt, and `append_unique` keeps the first answer under an id.
AnsweredOnce(d, ans) ==
  IF d.chosen \in d.asked THEN d
  ELSE [Answered(d, d.verdict[d.chosen], ans) EXCEPT !.asked = @ \cup {d.chosen}]
=============================================================================
