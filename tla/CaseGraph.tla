----------------------------- MODULE CaseGraph -----------------------------
(***************************************************************************)
(* The whole graph: the parent's nodes, the nine subgraphs it calls, and   *)
(* the edges between them.                                                 *)
(***************************************************************************)
EXTENDS Diagnosis, RemoteRepair, SelfHelp, FieldWork, PlantWork, Restoration, Preventive

Init ==
  /\ pc = "receive_signal"
  /\ status = "new" /\ outer = "new"
  /\ escalated = FALSE
  /\ steps = 0 /\ visits = [w \in Watched |-> 0] /\ diagnostic = 0 /\ resolution = 0
  /\ case = [data |-> "ok", test |-> "none", dom |-> "unknown",
             plan |-> {}, chosen |-> "none", tried |-> {},
             verdict |-> [a \in Actions |-> "none"],
             due |-> {}, answer |-> [k \in Kinds |-> "none"], asked |-> {},
             ran |-> FALSE, fixed |-> FALSE, fix |-> FALSE, looks |-> 0,
             session |-> "none", order |-> "none", finding |-> "none", contract |-> "none",
             mr |-> "none", mrs |-> 0,
             validation |-> "none", confirmed |-> "unset",
             recon |-> "none", retries |-> 0, closure |-> "none"]

\* Where each subgraph's end leads.
Returns ==
  \/ Return("remote_resolution", RouteRemoteOutcome(case))
  \/ Return("self_help", RouteSelfHelpOutcome(case))
  \/ Return("field_planning", "open_field_visit")
  \/ Return("field_execution", RouteCleanBootsOutcome(case))
  \/ Return("plant_referral", "search_plant_mr")
  \/ Return("plant_execution", RoutePlantOutcome(case))
  \/ Return("restoration_validation", RouteStability(case))
  \/ Return("reconciliation_closure", "END")
  \/ Return("preventive_maintenance", "END")

Stopped == pc \in Stops /\ UNCHANGED vars

Next ==
  \/ DiagnosisNext \/ RemoteNext \/ SelfHelpNext \/ FieldNext \/ PlantNext
  \/ RestorationNext \/ PreventiveNext
  \/ Returns \/ GuardTrips \/ Stopped

Spec == Init /\ [][Next]_vars

\* A run that may step does: every task and approval it waits on is answered in the end.
FairSpec == Spec /\ WF_vars(Next)
-----------------------------------------------------------------------------
TypeOK ==
  /\ pc \in Places /\ status \in Statuses /\ outer \in Statuses /\ escalated \in BOOLEAN
  /\ {steps, diagnostic, resolution} \subseteq Nat /\ visits \in [Watched -> Nat]
  /\ case \in [data : {"ok", "poor"}, test : {"none"} \cup Tests, dom : Domains \cup {"unknown"},
               plan : SUBSET Options, chosen : Options \cup {"none"}, tried : SUBSET Options,
               verdict : [Actions -> Outcomes \cup {"none"}],
               due : SUBSET Kinds, answer : [Kinds -> Answers \cup {"none"}],
               asked : SUBSET Options,
               ran : BOOLEAN, fixed : BOOLEAN, fix : BOOLEAN, looks : 0..MinSamples,
               session : {"none", "open", "completed", "resolved", "declined", "timed_out",
                          "not_resolved"},
               order : {"none", "open", "done"}, finding : {"none", "done", "unsure", "plant"},
               contract : {"none", "complete", "partial", "accepted", "rejected"},
               mr : {"none", "awaiting_osp", "completed", "dead"}, mrs : 0..MaxMRs,
               validation : {"none", "passed", "observing", "pending", "failed"},
               confirmed : {"unset", "yes", "no"},
               recon : {"none", "consistent", "mismatch"}, retries : 0..MaxReconciles,
               closure : {"none", "normal", "exceptional"}]

(* Safety *)

\* No node writes a status the lifecycle forbids: `advance_status` (graph/state.py) never raises, so
\* no run is lost to an illegal hop, in the parent or in a subgraph.
LifecycleHolds == pc # "crash:status"

\* Every node finds what it reads: the `ValueError`s that say "only this gate leads here" are true.
InputsArePresent == pc # "crash:input"

\* A node that raises (its input is missing, or the lifecycle forbids its status) is the MR of a
\* visit, after an earlier MR of the incident that went by the same gate kind (one that was held back
\* counts: it was asked about too), and no other: everywhere else the word of the router is good.
AfterEarlierRequest == pc = "file_plant_mr" /\ case.mr # "none"
OnlyAnEarlierRequestMisleads ==
  [][pc' \in {"crash:input", "crash:status"} => AfterEarlierRequest]_vars

\* Once a run is escalated (by a spent budget, a gate or a refusal) no further node of it runs.
EscalationStops == escalated => status = "escalated" /\ pc \notin Nodes

\* A normal closure is proved: a repair on record, enough reads of the service since the latest one,
\* a passed validation that the customer does not deny, and linked systems that agree.
ClosedIsProven ==
  case.closure = "normal" =>
    /\ case.fix /\ case.looks >= MinSamples
    /\ case.validation = "passed" /\ case.confirmed # "no"
    /\ case.recon = "consistent"

\* A validation that still awaits something (samples, a detector that can run, the customer's word) is
\* asked again: `validate_restoration` keeps it apart from a repair that did not work, and only the
\* latter should go back to diagnosis at D21.
PendingIsAskedAgain ==
  [][pc = End("restoration_validation") /\ case.validation = "pending"
       => pc' # "determine_root_cause"]_vars

\* A closure that is not normal carries a supervisor's approval of that demand.
ExceptionalIsSigned ==
  case.closure = "exceptional" => case.answer["closure"] = "approved" /\ "closure" \notin case.due

\* Closing leaves no work order open and no plant request with the plant crew.
NothingLeftOpen == case.closure # "none" => case.order # "open" /\ case.mr # "awaiting_osp"

\* A visit is planned only when none is under way, and the plant is asked only when it holds nothing.
OneVisitAtATime ==
  /\ pc \in Subgraphs.field_planning => case.order # "open"
  /\ pc \in {"file_plant_mr", "file_plant_referral_mr"} => case.mr # "awaiting_osp"

\* What has left the process is never sent again, in this diagnosis or a later one.
NeverRepeated ==
  /\ pc \in {"execute_remote_repair", "send_self_help_instructions"} => case.chosen \notin case.tried
  /\ pc = "commit_field_dispatch" => Dispatch \notin case.tried

\* The kind of approval the gate that is about to act would have asked for.
GateKind == CASE pc = "commit_field_dispatch" -> "dispatch"
              [] pc \in {"file_plant_mr", "file_plant_referral_mr"} -> "handover"
              [] OTHER -> case.verdict[case.chosen]
Judgement == CASE pc = "commit_field_dispatch" -> case.verdict[Dispatch]
               [] pc \in {"file_plant_mr", "file_plant_referral_mr"} -> case.verdict[RaiseMR]
               [] OTHER -> case.verdict[case.chosen]

\* Nothing is acted on without consent: the policy allowed it, or a human approved it after the
\* latest demand for it.  (The MR of a visit after an earlier MR is the exception that
\* OnlyAnEarlierRequestMisleads names: it goes by the answer given for the earlier one.)
ActsWithConsent ==
  /\ ~AfterEarlierRequest
  /\ pc \in {"execute_remote_repair", "send_self_help_instructions", "commit_field_dispatch",
             "file_plant_mr", "file_plant_referral_mr"}
  =>
    \/ Judgement = "allowed"
    \/ Judgement \in Kinds /\ case.answer[GateKind] = "approved" /\ GateKind \notin case.due

\* No node runs past a spent budget: the one that finds it spent is counted and is the last.
BudgetsHold ==
  Metered => /\ steps <= MaxSteps + 1
             /\ \A w \in Watched : visits[w] <= MaxVisits + 1
             /\ diagnostic <= MaxDiagnostic /\ resolution <= MaxResolution

\* How the run stands, to those outside it.
Course == IF escalated THEN "escalated"
          ELSE IF pc = "END" THEN "ended"
          ELSE IF pc \in {"crash:status", "crash:input"} THEN "lost"
          ELSE "open"

Contract == INSTANCE IncidentContract
              WITH course <- Course, sent <- case.tried, crew <- case.order,
                   plant <- case.mr, record <- case.closure

\* Whatever the routers, gates and budgets do, the graph keeps what it promises the customer, the
\* crews and the reader of the record: one party at work at a time, nothing carried out twice, one
\* closure with nobody at work and nothing after it, and no incident dropped once it was acted on
\* (but for the plant request of a visit after an earlier one, which may raise).
KeepsContract == Contract!Spec

\* Every loop of the graph (retries, observation, parked waits that find nothing) is bounded by
\* `check_budgets`: each run leaves the graph.
Termination == Metered => <>(pc \in Stops)

=============================================================================
