---------------------------- MODULE Restoration ----------------------------
(***************************************************************************)
(* Proof that the repair held, and closure: the stability window (P22), the *)
(* customer's word (P23), reconciliation (P24), the closure gate and the   *)
(* records that are written last (P25-P28).                                *)
(***************************************************************************)
EXTENDS Routing

(* The stability window *)

\* The run waits here until the window measured from the last repair has passed, or, with no
\* repair on record, for whoever wakes it.
AwaitServiceStability == Quiet("await_service_stability", case, "snapshot_post_fix_state")

SnapshotPostFixState ==
  \E read \in Read(case) : \E d \in Gathered(read) :
    Node("snapshot_post_fix_state", "validating", d, "assess_restoration")

MustConfirm(d) == d.dom \in ConfirmDomains

\* Mutant: one good read is enough.
ValidatedEarly(d, worse, seen) ==
  IF ~d.fix THEN "observing"
  ELSE IF worse \/ (MustConfirm(d) /\ d.confirmed = "no") THEN "failed"
  ELSE IF ~seen \/ (MustConfirm(d) /\ d.confirmed = "unset") THEN "pending"
  ELSE "passed"
\* `validate_restoration`: a failure outranks what is still awaited.  Without a repair on record
\* the window starts now and is never complete.  `worse`: the anomaly did not clear; `seen`: some
\* detector could run.
Validated(d, worse, seen) ==
  LET failed == worse \/ (MustConfirm(d) /\ d.confirmed = "no")
      awaited == \/ ~seen \/ d.looks < MinSamples
                 \/ MustConfirm(d) /\ d.confirmed = "unset"
  IN IF ~d.fix THEN "observing"
     ELSE IF failed THEN "failed"
     ELSE IF awaited THEN "pending"
     ELSE "passed"

AssessRestoration ==
  \E worse \in BOOLEAN, seen \in BOOLEAN :
    Quiet("assess_restoration", [case EXCEPT !.validation = Validated(case, worse, seen)],
          End("restoration_validation"))

(* Reconciliation *)

\* D23: every linked system must be reached and agree.
ReconcileLinkedSystems ==
  \E r \in {"consistent", "mismatch"} : \E d \in Gathered([case EXCEPT !.recon = r]) :
    Node("reconcile_linked_systems", "reconciling", d,
         IF r = "consistent" THEN "evaluate_closure_policy" ELSE "hold_for_reconciliation_retry")

\* Mutant: one more try than the pack allows.
HoldOnceMore ==
  LET d == [case EXCEPT !.retries = @ + 1]
  IN IF d.retries > MaxReconciles
     THEN Write("hold_for_reconciliation_retry", "escalated", TRUE, d, End("reconciliation_closure"))
     ELSE Quiet("hold_for_reconciliation_retry", d, "reconcile_linked_systems")
HoldForReconciliationRetry ==
  LET d == [case EXCEPT !.retries = @ + 1]
  IN IF d.retries >= MaxReconciles
     THEN Write("hold_for_reconciliation_retry", "escalated", TRUE, d, End("reconciliation_closure"))
     ELSE Quiet("hold_for_reconciliation_retry", d, "reconcile_linked_systems")

(* Closure *)

\* `_check_closure`: an unreconciled case is blocked, and one not validated is never plainly allowed.
ClosureJudgements(d) ==
  IF d.recon # "consistent" THEN {"blocked"}
  ELSE IF d.validation # "passed" THEN Verdicts[Close] \ {"allowed"}
  ELSE Verdicts[Close]

\* Mutant: any answer closes, a refusal too.
RouteClosureGateAnswered(d) ==
  IF d.verdict[Close] = "allowed" THEN "close_linked_records"
  ELSE IF d.verdict[Close] # "closure" THEN "abandon_closure"
  ELSE IF d.answer["closure"] = "none" THEN "prepare_exceptional_closure_approval"
  ELSE "close_linked_records"
RouteClosureGate(d) ==
  IF d.verdict[Close] = "allowed" THEN "close_linked_records"
  ELSE IF d.verdict[Close] # "closure" THEN "abandon_closure"
  ELSE CASE d.answer["closure"] = "none" -> "prepare_exceptional_closure_approval"
         [] d.answer["closure"] = "approved" -> "close_linked_records"
         [] OTHER -> "abandon_closure"

EvaluateClosurePolicy ==
  \E v \in ClosureJudgements(case) :
    LET d == Decide(case, Close, v)
    IN Quiet("evaluate_closure_policy", d, RouteClosureGate(d))

PrepareExceptionalClosureApproval ==
  Node("prepare_exceptional_closure_approval", "awaiting_approval", case,
       "request_exceptional_closure_approval")

RequestExceptionalClosureApproval ==
  \E ans \in Answers :
    LET d == Answered(case, "closure", ans)
    IN Quiet("request_exceptional_closure_approval", d, RouteClosureGate(d))

AbandonClosure ==
  Write("abandon_closure", "escalated", TRUE, case, End("reconciliation_closure"))

\* The closure record refuses a normal closure without a passed validation, and an exceptional one
\* without a signature.  D24: a repeat is recorded as one before the KPIs are taken.
CloseLinkedRecords ==
  LET kind == IF case.verdict[Close] = "closure" THEN "exceptional" ELSE "normal"
  IN Needs("close_linked_records",
           IF kind = "normal" THEN case.validation = "passed" ELSE case.answer["closure"] # "none",
           \E next \in {"record_chronic_pattern", "update_kpis_and_learning"} :
             Node("close_linked_records", "resolved", [case EXCEPT !.closure = kind], next))

RecordChronicPattern == Quiet("record_chronic_pattern", case, "update_kpis_and_learning")

UpdateKpisAndLearning ==
  Node("update_kpis_and_learning", "closed", case, End("reconciliation_closure"))

RestorationNext ==
  \/ AwaitServiceStability \/ SnapshotPostFixState \/ AssessRestoration
  \/ ReconcileLinkedSystems \/ HoldForReconciliationRetry
  \/ EvaluateClosurePolicy \/ PrepareExceptionalClosureApproval
  \/ RequestExceptionalClosureApproval \/ AbandonClosure \/ CloseLinkedRecords
  \/ RecordChronicPattern \/ UpdateKpisAndLearning
=============================================================================
