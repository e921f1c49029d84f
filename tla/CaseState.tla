----------------------------- MODULE CaseState -----------------------------
(***************************************************************************)
(* The shared state of one incident's run, and what `@node` does around    *)
(* every node body: check the budgets, run the body, let the reducers      *)
(* accept or refuse its update, follow the guarded edge.                   *)
(*                                                                         *)
(* `pc` is the node to run next.  A subgraph is a group of nodes that ends *)
(* at its own name; the parent graph sees only the status it ends with, so *)
(* `outer` keeps the status the parent last accepted.                      *)
(***************************************************************************)
EXTENDS Lifecycle, Naturals, FiniteSets

CONSTANTS
  Metered,         \* TRUE: the budgets are counted; FALSE: any node may find one spent
  MaxSteps, MaxVisits, MaxDiagnostic, MaxResolution,   \* the four budgets of guards.py
  Watched,         \* the nodes whose visits are counted
  Remote,          \* remote actions in the catalogue (action types)
  Offered,         \* the options planned for a fault domain
  Verdicts,        \* what the policy may answer for an action
  Domains,         \* the fault domains a diagnosis may reach
  ConfirmDomains,  \* those where the customer must confirm the repair
  Flaws,           \* TRUE: a read may flag the data as poor
  Reach,           \* whether a write leaves the process: FALSE where an adapter may hold it back
  Tests,           \* what a diagnostic test may conclude
  MinSamples,      \* reads of the service a passing validation needs
  MaxMRs,          \* plant requests the policy allows for one incident
  MaxReconciles    \* tries at reconciling the linked systems

Selfhelp == "send_self_help"
Dispatch == "create_work_order"
RaiseMR == "raise_mr"
UpdateMR == "update_mr"   \* judged like an action, but no router reads the judgement
Close == "close_incident"
Options == Remote \cup {Selfhelp, Dispatch}
Actions == Options \cup {RaiseMR, Close}
Kinds == {"low_confidence", "blast_radius", "high_risk", "dispatch", "handover", "closure"}
\* Kinds with a gate of their own (DEDICATED_GATE_APPROVAL_KINDS).
Dedicated == Kinds \ {"high_risk"}
Outcomes == {"allowed", "blocked"} \cup Kinds

ASSUME BudgetAssumption ==
  /\ {Metered, Flaws} \subseteq BOOLEAN
  /\ {MaxSteps, MaxVisits, MaxDiagnostic, MaxResolution, MinSamples, MaxMRs, MaxReconciles}
       \subseteq Nat \ {0}
ASSUME CatalogueAssumption ==
  /\ Remote \cap {Selfhelp, Dispatch, RaiseMR, UpdateMR, Close} = {}
  /\ Offered \in [Domains -> SUBSET Options]
  /\ Verdicts \in [Actions \cup {UpdateMR} -> SUBSET Outcomes]
  /\ ConfirmDomains \subseteq Domains
  /\ Tests \subseteq {"passed", "failed"}
  /\ Reach \subseteq BOOLEAN /\ Reach # {}

Subgraphs ==
  [remote_resolution |-> {"select_remote_action", "prepare_remote_approval", "request_remote_approval",
     "execute_remote_repair", "verify_remote_repair", "abandon_remote_action"},
   self_help |-> {"select_self_help_script", "prepare_self_help_approval", "request_self_help_approval",
     "send_self_help_instructions", "mark_awaiting_customer", "await_customer_response",
     "verify_self_help", "abandon_self_help"},
   field_planning |-> {"build_field_requirement", "optimize_field_schedule", "evaluate_dispatch_policy",
     "prepare_dispatch_approval", "request_dispatch_approval", "commit_field_dispatch",
     "queue_for_dispatcher", "abandon_field_planning"},
   field_execution |-> {"open_field_visit", "capture_field_evidence", "close_clean_boots_visit",
     "determine_delimiter", "request_additional_field_tests", "evaluate_handover_policy",
     "build_handover_contract", "prepare_handover_approval", "request_handover_approval",
     "file_plant_mr", "abandon_handover"},
   plant_referral |-> {"evaluate_plant_referral", "prepare_plant_referral_approval",
     "request_plant_referral_approval", "file_plant_referral_mr", "abandon_plant_referral"},
   plant_execution |-> {"search_plant_mr", "update_plant_mr", "capture_plant_evidence"},
   restoration_validation |-> {"await_service_stability", "snapshot_post_fix_state",
     "assess_restoration"},
   reconciliation_closure |-> {"reconcile_linked_systems", "hold_for_reconciliation_retry",
     "evaluate_closure_policy", "prepare_exceptional_closure_approval",
     "request_exceptional_closure_approval", "abandon_closure", "close_linked_records",
     "record_chronic_pattern", "update_kpis_and_learning"},
   preventive_maintenance |-> {"assess_predictive_risk", "open_preventive_case",
     "plan_preventive_field_work", "apply_remote_prevention", "record_monitoring"}]

ParentNodes ==
  {"receive_signal", "normalize_event", "resolve_identity_and_topology", "deduplicate_and_correlate",
   "assess_impact_and_priority", "create_or_attach_incident", "assemble_case_evidence",
   "create_diagnostic_test_plan", "execute_read_only_tests", "determine_root_cause",
   "generate_resolution_options", "prepare_low_confidence_review", "request_low_confidence_review",
   "prepare_blast_radius_approval", "request_blast_radius_approval", "record_escalation",
   "confirm_customer_outcome"}
InnerNodes == UNION {Subgraphs[g] : g \in DOMAIN Subgraphs}
Nodes == ParentNodes \cup InnerNodes
\* A subgraph that has ended is at its own name: the parent is about to merge its writes.
End(g) == g
SubgraphOf(n) == CHOOSE g \in DOMAIN Subgraphs : n \in Subgraphs[g]
Stops == {"END", "crash:status", "crash:input"}
Places == Nodes \cup Stops \cup {End(g) : g \in DOMAIN Subgraphs}

VARIABLES pc, status, outer, escalated, steps, visits, diagnostic, resolution, case
control == <<pc, status, outer, escalated>>
meters == <<steps, visits, diagnostic, resolution>>
vars == <<control, meters, case>>

\* Mutant: `>` for `>=`.
SpentLate(n) ==
  \/ steps > MaxSteps
  \/ n \in Watched /\ visits[n] > MaxVisits
  \/ diagnostic > MaxDiagnostic
  \/ resolution > MaxResolution
\* `check_budgets`: every comparison is `>=`, and comes before the node's body.
Spent(n) ==
  \/ steps >= MaxSteps
  \/ n \in Watched /\ visits[n] >= MaxVisits
  \/ diagnostic >= MaxDiagnostic
  \/ resolution >= MaxResolution

Within(n) == Metered => ~Spent(n)

\* Mutant: what is counted inside a subgraph is lost when the subgraph is not the one counting.
TallyParentOnly(n, ran) ==
  LET plus(k, yes) == IF Metered /\ yes /\ n \in ParentNodes THEN k + 1 ELSE k
  IN /\ steps' = plus(steps, TRUE)
     /\ visits' = [w \in Watched |-> plus(visits[w], w = n)]
     /\ diagnostic' = plus(diagnostic, ran /\ n = "assemble_case_evidence")
     /\ resolution' = plus(resolution, ran /\ n = "generate_resolution_options")
\* The counters node n leaves; two of them are counted by one node's body each, when it runs.
Tally(n, ran) ==
  LET plus(k, yes) == IF Metered /\ yes THEN k + 1 ELSE k
  IN /\ steps' = plus(steps, TRUE)
     /\ visits' = [w \in Watched |-> plus(visits[w], w = n)]
     /\ diagnostic' = plus(diagnostic, ran /\ n = "assemble_case_evidence")
     /\ resolution' = plus(resolution, ran /\ n = "generate_resolution_options")

Crash(why) == pc' = why /\ UNCHANGED <<status, outer, escalated, meters, case>>

\* Node n's update is merged: the status reducer accepts s, or raises and nothing is kept.
Merge(n, ran, s, esc, d, next) ==
  IF CanTransition(status, s)
  THEN /\ status' = s
       /\ outer' = IF n \in InnerNodes THEN outer ELSE s
       /\ escalated' = esc
       /\ case' = d
       /\ pc' = next
       /\ Tally(n, ran)
  ELSE Crash("crash:status")

\* Node n's body runs: it writes status s and case data d, and the run goes on to `next`.
Write(n, s, esc, d, next) == pc = n /\ Within(n) /\ Merge(n, TRUE, s, esc, d, next)

Node(n, s, d, next) == Write(n, s, escalated, d, next)
\* A node whose update has no status.
Quiet(n, d, next) == Node(n, status, d, next)
\* A node that raises unless what it reads is there.
Needs(n, there, run) ==
  IF pc = n /\ Within(n) /\ ~there THEN Crash("crash:input") ELSE run

\* `escalation_update`: a spent budget replaces the body, and the guarded edge leaves the graph.
GuardTrips ==
  /\ pc \in Nodes
  /\ Metered => Spent(pc)
  /\ Merge(pc, FALSE, "escalated", TRUE, case,
           IF pc \in InnerNodes THEN End(SubgraphOf(pc)) ELSE "END")

\* Mutant: the edge out of a subgraph is not guarded.
ReturnUnguarded(g, next) ==
  /\ pc = End(g)
  /\ IF CanTransition(outer, status)
     THEN /\ outer' = status
          /\ pc' = next
          /\ UNCHANGED <<status, escalated, meters, case>>
     ELSE Crash("crash:status")
\* A subgraph returns: the parent's reducer sees one write, and its edge is guarded too.
Return(g, next) ==
  /\ pc = End(g)
  /\ IF CanTransition(outer, status)
     THEN /\ outer' = status
          /\ pc' = IF escalated THEN "END" ELSE next
          /\ UNCHANGED <<status, escalated, meters, case>>
     ELSE Crash("crash:status")

\* What one more read of the sources may do to the data quality: flags only accumulate.
Gathered(d) == {d} \cup (IF Flaws THEN {[d EXCEPT !.data = "poor"]} ELSE {})

\* `first_actionable_option`: untried, and not blocked by the latest decision on its action.
Actionable(d, options) == {a \in d.plan \cap options : d.verdict[a] # "blocked"}

\* A policy decision is appended; one that requires an approval puts its kind on demand.
Decide(d, a, v) ==
  [d EXCEPT !.verdict[a] = v, !.due = IF v \in Kinds THEN @ \cup {v} ELSE @]

\* What the policy may answer: `_check_duplicate` blocks what was already sent under the same key.
\* An option is keyed by its plan, so one that was sent and is still planned is from a new plan;
\* a plant request by the plant object, so it is refused for the same one, and past its limit.
Judgements(d, a) ==
  CASE a = RaiseMR /\ d.mrs >= MaxMRs -> {"blocked"}
    [] a = RaiseMR /\ d.mrs > 0 /\ d.mrs < MaxMRs -> Verdicts[a] \cup {"blocked"}
    [] a \in d.tried \ d.plan -> {"blocked"}
    [] OTHER -> Verdicts[a]

\* An answer that is recorded settles its kind's demand, approved or refused.
Answers == {"approved", "refused"}
Answered(d, kind, ans) == [d EXCEPT !.answer[kind] = ans, !.due = @ \ {kind}]

\* A repair is recorded, with the time it finished: the stability window starts again.
Repaired(d) == [d EXCEPT !.fix = TRUE, !.looks = 0]

\* Option a is done: `reached` says the attempt left the process.  Either way it is recorded, and
\* an attempt that did is the next question's number.
Acted(d, a, reached) ==
  [Repaired(d) EXCEPT !.tried = IF reached THEN @ \cup {a} ELSE @,
                      !.plan = @ \ {a},
                      !.asked = IF reached THEN @ \ {a} ELSE @]

\* A plant request is raised: even one held back by the adapter is on record as submitted.
Submitted(d, reached) ==
  [Repaired(d) EXCEPT !.mr = "awaiting_osp", !.mrs = IF reached THEN @ + 1 ELSE @]

\* A read of the service may count as one more sample since the last repair.
Read(d) == {d, [d EXCEPT !.looks = IF @ < MinSamples THEN @ + 1 ELSE @]}
=============================================================================
