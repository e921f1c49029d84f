----------------------------- MODULE FieldWork -----------------------------
(***************************************************************************)
(* A crew at the premises: planning the visit (P14-P16) and carrying it    *)
(* out (P17-P19), up to the work order being closed or the fault handed    *)
(* over to the plant crew.                                                 *)
(***************************************************************************)
EXTENDS Routing

(* Planning *)

\* D13: no dispatch selected, or a fault domain no crew serves, leaves the stage.
HasCrew(dom) == dom \notin {"unknown", "back_office"}
RouteFieldGate(d) ==
  IF d.chosen = Dispatch /\ HasCrew(d.dom) THEN "optimize_field_schedule" ELSE "abandon_field_planning"

BuildFieldRequirement ==
  LET d == IF Actionable(case, {Dispatch}) # {} /\ HasCrew(case.dom)
           THEN [case EXCEPT !.chosen = Dispatch] ELSE case
  IN Quiet("build_field_requirement", d, RouteFieldGate(d))

\* D14: the schedule found a crew, or it did not.
OptimizeFieldSchedule ==
  \E d \in Gathered(case), next \in {"evaluate_dispatch_policy", "queue_for_dispatcher"} :
    Node("optimize_field_schedule", "dispatch_planning", d, next)

\* D15 behind its gate: an open demand, then the latest answer, then the verdict.
RouteDispatchGate(d) ==
  IF d.verdict[Dispatch] \in {"none", "blocked"} THEN "queue_for_dispatcher"
  ELSE IF "dispatch" \in d.due THEN "prepare_dispatch_approval"
  ELSE CASE d.answer["dispatch"] = "approved" -> "commit_field_dispatch"
         [] d.answer["dispatch"] = "refused" -> "optimize_field_schedule"
         [] OTHER -> IF d.verdict[Dispatch] = "allowed"
                     THEN "commit_field_dispatch" ELSE "prepare_dispatch_approval"

EvaluateDispatchPolicy ==
  \E v \in Judgements(case, Dispatch) :
    LET d == Decide(case, Dispatch, v)
    IN Quiet("evaluate_dispatch_policy", d, RouteDispatchGate(d))

PrepareDispatchApproval ==
  Node("prepare_dispatch_approval", "awaiting_approval", case, "request_dispatch_approval")

\* The question is numbered by the schedule it is about, so each one is new.
RequestDispatchApproval ==
  \E ans \in Answers :
    LET d == Answered(case, "dispatch", ans)
    IN Quiet("request_dispatch_approval", d, RouteDispatchGate(d))

CommitFieldDispatch ==
  \E reached \in Reach :
    Node("commit_field_dispatch", "dispatch_planning",
         [Acted(case, Dispatch, reached) EXCEPT !.order = "open"], End("field_planning"))

QueueForDispatcher ==
  Node("queue_for_dispatcher", "dispatch_planning", case, End("field_planning"))

AbandonFieldPlanning == Node("abandon_field_planning", "diagnosing", case, End("field_planning"))

(* The visit *)

\* Mutant: opens a visit without a work order.
OpenFieldVisitAnyway ==
  Node("open_field_visit", "field_in_progress", case, "capture_field_evidence")
\* Without an open work order there is nothing to open, and the stage ends.
OpenFieldVisit ==
  IF case.order = "open"
  THEN Node("open_field_visit", "field_in_progress", case, "capture_field_evidence")
  ELSE Quiet("open_field_visit", case, End("field_execution"))

\* The crew reports, and the run waits for it; a report that cannot be read records no finding.
CaptureFieldEvidence ==
  Needs("capture_field_evidence", case.order = "open",
    \E f \in {"done", "unsure", "plant", case.finding} :
      LET d == [case EXCEPT !.finding = f]
      IN Quiet("capture_field_evidence", d,
               IF f = "done" THEN "close_clean_boots_visit" ELSE "determine_delimiter"))

\* Mutant: the closing time is written and the status is not.
OrderStamped(d) == IF d.order = "open" THEN Repaired(d) ELSE d
\* An order that is closed carries the time it was.
OrderClosed(d) == IF d.order = "open" THEN [Repaired(d) EXCEPT !.order = "done"] ELSE d

CloseCleanBootsVisit ==
  Needs("close_clean_boots_visit", case.order = "open" /\ case.finding # "none",
    \E f \in Domains :
      Node("close_clean_boots_visit", "validating", [OrderClosed(case) EXCEPT !.dom = f],
           End("field_execution")))

\* D17: plant work at a known delimiter is handed over; anything less sends the crew back.
DetermineDelimiter ==
  \E f \in IF case.finding = "none" THEN {case.dom} ELSE Domains :
    Node("determine_delimiter", "field_in_progress", [case EXCEPT !.dom = f],
         IF case.finding = "plant" THEN "evaluate_handover_policy"
         ELSE "request_additional_field_tests")

RequestAdditionalFieldTests ==
  Node("request_additional_field_tests", "field_in_progress", case, "open_field_visit")

\* The verdict, then the latest answer about a handover, whichever gate asked for it.
RouteHandoverGate(d) ==
  IF d.verdict[RaiseMR] \in {"none", "blocked"} THEN "abandon_handover"
  ELSE CASE d.answer["handover"] = "none" -> "build_handover_contract"
         [] d.answer["handover"] = "approved" -> "file_plant_mr"
         [] OTHER -> "abandon_handover"

EvaluateHandoverPolicy ==
  Needs("evaluate_handover_policy", case.finding # "none",
    \E v \in Judgements(case, RaiseMR) :
      LET d == Decide(case, RaiseMR, v)
      IN Quiet("evaluate_handover_policy", d, RouteHandoverGate(d)))

\* D18: the contract is complete, or the crew is sent back for what it lacks.
BuildHandoverContract ==
  Needs("build_handover_contract", case.finding # "none",
    \E c \in {"complete", "partial"}, f \in Domains :
      Node("build_handover_contract", "awaiting_handover",
           [case EXCEPT !.contract = c, !.dom = f],
           IF c = "complete" THEN "prepare_handover_approval"
           ELSE "request_additional_field_tests"))

PrepareHandoverApproval ==
  Needs("prepare_handover_approval", case.contract # "none" /\ case.finding # "none",
    Node("prepare_handover_approval", "awaiting_approval", case, "request_handover_approval"))

RequestHandoverApproval ==
  \E ans \in Answers :
    LET d == Answered(case, "handover", ans)
    IN Quiet("request_handover_approval", d, RouteHandoverGate(d))

FilePlantMR ==
  Needs("file_plant_mr", case.contract # "none" /\ case.finding # "none",
    \E reached \in Reach :
      Node("file_plant_mr", "mr_raised",
           [Submitted(OrderClosed(case), reached) EXCEPT !.contract = "accepted"],
           End("field_execution")))

\* Mutant: the crew's work order stays open.
AbandonHandoverOpen ==
  Node("abandon_handover", "diagnosing",
       [case EXCEPT !.contract = IF @ = "none" THEN @ ELSE "rejected"], End("field_execution"))
AbandonHandover ==
  Node("abandon_handover", "diagnosing",
       [OrderClosed(case) EXCEPT !.contract = IF @ = "none" THEN @ ELSE "rejected"],
       End("field_execution"))

FieldNext ==
  \/ BuildFieldRequirement \/ OptimizeFieldSchedule \/ EvaluateDispatchPolicy
  \/ PrepareDispatchApproval \/ RequestDispatchApproval \/ CommitFieldDispatch
  \/ QueueForDispatcher \/ AbandonFieldPlanning
  \/ OpenFieldVisit \/ CaptureFieldEvidence \/ CloseCleanBootsVisit \/ DetermineDelimiter
  \/ RequestAdditionalFieldTests \/ EvaluateHandoverPolicy \/ BuildHandoverContract
  \/ PrepareHandoverApproval \/ RequestHandoverApproval \/ FilePlantMR \/ AbandonHandover
=============================================================================
