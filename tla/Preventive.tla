----------------------------- MODULE Preventive -----------------------------
(***************************************************************************)
(* The preventive-maintenance subgraph: a degradation no customer has      *)
(* noticed yet is assessed, opened as a case, and given one treatment.     *)
(***************************************************************************)
EXTENDS Routing

AssessPredictiveRisk ==
  \E d \in Gathered(case) : Node("assess_predictive_risk", "diagnosing", d, "open_preventive_case")

Treatments == {"plan_preventive_field_work", "apply_remote_prevention", "record_monitoring"}

OpenPreventiveCase == \E next \in Treatments : Quiet("open_preventive_case", case, next)

\* Each treatment records what it would do; none of them acts.
PreventiveTreatment ==
  \E n \in Treatments : Quiet(n, case, End("preventive_maintenance"))

PreventiveNext == AssessPredictiveRisk \/ OpenPreventiveCase \/ PreventiveTreatment
=============================================================================
