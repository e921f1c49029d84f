-------------------------- MODULE CaseStatusProofs --------------------------
(***************************************************************************)
(* What may raise in the case graph, for every catalogue, policy, budget   *)
(* and set of domains: only the plant request of a visit, after an earlier *)
(* request of the incident.                                                *)
(*                                                                         *)
(* A run raises when the lifecycle refuses a node's status, or a stage's   *)
(* last status at the parent, or when a node lacks an input.  The          *)
(* invariant gives every place the statuses a run may have there           *)
(* (`Stage`), every subgraph the statuses it may have been entered with    *)
(* (`Entered`), and the inputs a place finds (`Inputs`); some depend on    *)
(* each other (`Tied`).                                                    *)
(*                                                                         *)
(* And what the graph promises those outside it, `IncidentContract`, which *)
(* it implements for every catalogue and policy too: most steps show       *)
(* nothing outside (`Unseen`), and each of the others is one step of the   *)
(* contract (`Honest`).                                                    *)
(***************************************************************************)
EXTENDS CaseDataProofs

(* The invariant *)

\* The statuses a run may have at a place.
Intake == {"normalize_event", "resolve_identity_and_topology", "deduplicate_and_correlate",
           "assess_impact_and_priority", "create_or_attach_incident", "assess_predictive_risk"}
Diagnosing == {"create_diagnostic_test_plan", "execute_read_only_tests", "generate_resolution_options",
               "prepare_low_confidence_review", "prepare_blast_radius_approval", "record_escalation",
               "select_remote_action", "select_self_help_script", "evaluate_plant_referral",
               "open_preventive_case", "plan_preventive_field_work", "apply_remote_prevention",
               "record_monitoring", "preventive_maintenance"}
Asked == {"request_low_confidence_review", "request_blast_radius_approval",
          "request_remote_approval", "request_self_help_approval", "request_dispatch_approval",
          "request_handover_approval", "request_plant_referral_approval",
          "request_exceptional_closure_approval"}
Gated == {"prepare_remote_approval", "execute_remote_repair", "abandon_remote_action",
          "prepare_self_help_approval", "send_self_help_instructions",
          "prepare_plant_referral_approval", "file_plant_referral_mr", "abandon_plant_referral"}
Scheduled == {"evaluate_dispatch_policy", "prepare_dispatch_approval", "commit_field_dispatch",
              "queue_for_dispatcher"}
OnSite == {"capture_field_evidence", "close_clean_boots_visit", "determine_delimiter",
           "evaluate_handover_policy", "build_handover_contract"}
\* The statuses a repair may end with, or a diagnosis that led to none.
Left == {"diagnosing", "self_help", "dispatch_planning", "awaiting_plant_repair", "validating"}
Stage(p, s) ==
  \/ p = "receive_signal" /\ s = "new"
  \/ p \in Intake /\ s = "triaging"
  \/ p = "assemble_case_evidence" /\ s \in {"triaging", "diagnosing", "remote_resolution"}
  \/ p \in Diagnosing /\ s = "diagnosing"
  \/ p \in Asked /\ s = "awaiting_approval"
  \/ p \in Gated /\ s \in {"diagnosing", "awaiting_approval"}
  \/ p = "verify_remote_repair" /\ s = "remote_resolution"
  \/ p = "remote_resolution" /\ s \in {"diagnosing", "remote_resolution"}
  \/ p = "mark_awaiting_customer" /\ s = "self_help"
  \/ p \in {"await_customer_response", "verify_self_help"} /\ s = "awaiting_customer"
  \/ p = "abandon_self_help" /\ s \in {"diagnosing", "awaiting_approval", "awaiting_customer"}
  \/ p = "self_help" /\ s \in {"diagnosing", "self_help"}
  \/ p \in {"determine_root_cause", "build_field_requirement", "abandon_field_planning"} /\ s \in Left
  \/ p = "optimize_field_schedule" /\ s \in Left \cup {"awaiting_approval"}
  \/ p \in Scheduled /\ s \in {"dispatch_planning", "awaiting_approval"}
  \/ p = "field_planning" /\ s \in {"diagnosing", "dispatch_planning"}
  \/ p = "open_field_visit" /\ s \in {"diagnosing", "dispatch_planning", "field_in_progress"}
  \/ p \in OnSite /\ s = "field_in_progress"
  \/ p = "request_additional_field_tests" /\ s \in {"field_in_progress", "awaiting_handover"}
  \/ p = "prepare_handover_approval" /\ s = "awaiting_handover"
  \/ p \in {"file_plant_mr", "abandon_handover"} /\ s \in {"field_in_progress", "awaiting_approval"}
  \/ p = "field_execution" /\ s \in {"diagnosing", "dispatch_planning", "mr_raised", "validating"}
  \/ p = "plant_referral" /\ s \in {"diagnosing", "mr_raised"}
  \/ p \in {"search_plant_mr", "plant_execution"} /\ s \in Left \cup {"mr_raised"}
  \/ p \in {"update_plant_mr", "capture_plant_evidence"} /\ s \in {"mr_raised", "awaiting_plant_repair"}
  \/ p \in {"await_service_stability", "snapshot_post_fix_state"} /\ s \in Left \cup {"remote_resolution"}
  \/ p \in {"assess_restoration", "restoration_validation", "confirm_customer_outcome"}
       /\ s = "validating"
  \/ p = "reconcile_linked_systems" /\ s \in {"validating", "reconciling"}
  \/ p \in {"hold_for_reconciliation_retry", "evaluate_closure_policy",
            "prepare_exceptional_closure_approval"} /\ s = "reconciling"
  \/ p \in {"close_linked_records", "abandon_closure"} /\ s \in {"reconciling", "awaiting_approval"}
  \/ p \in {"record_chronic_pattern", "update_kpis_and_learning"} /\ s = "resolved"
  \/ p = "reconciliation_closure" /\ s = "closed"

\* The statuses the parent has while subgraph g runs.
Entered(g, o) ==
  /\ g \in {"remote_resolution", "self_help", "plant_referral"} => o = "diagnosing"
  /\ g = "field_planning" => o \in Left
  /\ g = "field_execution" => o \in {"diagnosing", "dispatch_planning"}
  /\ g = "plant_execution" => o \in Left \cup {"mr_raised"}
  /\ g = "restoration_validation" => o \in Left \cup {"remote_resolution"}
  /\ g = "reconciliation_closure" => o = "validating"
  /\ g = "preventive_maintenance" => o = "triaging"

\* What a place finds.
InSession == {"mark_awaiting_customer", "await_customer_response", "verify_self_help"}
Found == {"close_clean_boots_visit", "evaluate_handover_policy", "build_handover_contract",
          "prepare_handover_approval", "request_handover_approval", "file_plant_mr"}
Inputs(p, s, d) ==
  /\ p = "prepare_blast_radius_approval" => "blast_radius" \in d.due
  /\ p \in InSession => d.session # "none"
  /\ p \in Subgraphs.field_execution \ {"open_field_visit"} => d.order = "open"
  /\ p = "open_field_visit" /\ s = "field_in_progress" => d.order = "open"
  /\ p \in Found => d.finding # "none"
  /\ p \in {"prepare_handover_approval", "request_handover_approval"} => d.contract # "none"
  /\ p = "file_plant_mr" /\ d.mr = "none" => d.contract # "none" /\ s = "awaiting_approval"
  /\ p \in {"update_plant_mr", "capture_plant_evidence"} => d.mr = "awaiting_osp"

\* A status that says what is under way, and a stage that has written only once its crew has.
Tied(p, s, o, d) ==
  /\ d.order = "open" => s # "diagnosing"
  /\ d.mr = "awaiting_osp" => s \in {"mr_raised", "awaiting_plant_repair"}
  /\ s = "mr_raised" => d.mr = "awaiting_osp"
  /\ p \in Subgraphs.plant_execution => s = o
  /\ p = "plant_execution" => s = o \/ (s = "awaiting_plant_repair" /\ o = "mr_raised")

At(p, s, o, d) == Stage(p, s) /\ Inputs(p, s, d) /\ Tied(p, s, o, d)
Nested(p, s, o) ==
  /\ p \in ParentNodes => o = s
  /\ \A g \in Names : p \in Subgraphs[g] \cup {g} => Entered(g, o)
Over == {"closed", "cancelled"}
StatusInv ==
  /\ pc \in Places /\ status \in Statuses /\ outer \in Statuses
  /\ \/ pc \in Stops
     \/ outer \notin Over /\ (escalated \/ (At(pc, status, outer, case) /\ Nested(pc, status, outer)))

\* A step that keeps the invariant, and raises only where it may, and without a change of the case.
Sure ==
  /\ StatusInv'
  /\ pc' \in {"crash:input", "crash:status"} => AfterEarlierRequest /\ UNCHANGED case

-----------------------------------------------------------------------------
(* The lifecycle, and the layout of the graph *)

\* The statuses a node's status may be written over.
LEMMA Hops ==
  /\ \A t \in Statuses : CanTransition(t, t)
  /\ \A t \in Statuses \ Over : CanTransition(t, "escalated")
  /\ CanTransition("new", "triaging")
  /\ \A t \in Left \cup {"triaging", "awaiting_approval", "remote_resolution", "awaiting_customer",
                         "field_in_progress"} : CanTransition(t, "diagnosing")
  /\ \A t \in {"diagnosing", "remote_resolution", "dispatch_planning", "awaiting_handover",
               "reconciling"} : CanTransition(t, "awaiting_approval")
  /\ \A t \in {"diagnosing", "awaiting_approval"} : CanTransition(t, "remote_resolution")
  /\ \A t \in {"diagnosing", "awaiting_approval", "awaiting_customer"} : CanTransition(t, "self_help")
  /\ CanTransition("self_help", "awaiting_customer")
  /\ \A t \in Left \cup {"awaiting_approval"} : CanTransition(t, "dispatch_planning")
  /\ \A t \in {"dispatch_planning", "awaiting_handover"} : CanTransition(t, "field_in_progress")
  /\ CanTransition("field_in_progress", "awaiting_handover")
  /\ \A t \in {"diagnosing", "dispatch_planning", "awaiting_approval"} : CanTransition(t, "mr_raised")
  /\ CanTransition("mr_raised", "awaiting_plant_repair")
  /\ \A t \in Left \cup {"remote_resolution", "field_in_progress"} : CanTransition(t, "validating")
  /\ \A t \in {"validating", "awaiting_approval"} : CanTransition(t, "reconciling")
  /\ \A t \in {"reconciling", "awaiting_approval"} : CanTransition(t, "resolved")
  /\ CanTransition("resolved", "closed") /\ CanTransition("validating", "closed")
BY DEF CanTransition, Statuses, Transitions, StageTransitions, Over, Left

\* A place belongs to one subgraph or to the parent.
LEMMA Apart ==
  ASSUME NEW g \in Names, NEW p \in Subgraphs[g] \cup {g}
  PROVE  p \notin ParentNodes /\ \A h \in Names : p \in Subgraphs[h] \cup {h} => h = g
<1> USE NameList DEF Subgraphs
<1>1. CASE g = "remote_resolution" BY <1>1 DEF ParentNodes
<1>2. CASE g = "self_help" BY <1>2 DEF ParentNodes
<1>3. CASE g = "field_planning" BY <1>3 DEF ParentNodes
<1>4. CASE g = "field_execution" BY <1>4 DEF ParentNodes
<1>5. CASE g = "plant_referral" BY <1>5 DEF ParentNodes
<1>6. CASE g = "plant_execution" BY <1>6 DEF ParentNodes
<1>7. CASE g = "restoration_validation" BY <1>7 DEF ParentNodes
<1>8. CASE g = "reconciliation_closure" BY <1>8 DEF ParentNodes
<1>9. CASE g = "preventive_maintenance" BY <1>9 DEF ParentNodes
<1> QED BY <1>1, <1>2, <1>3, <1>4, <1>5, <1>6, <1>7, <1>8, <1>9

\* Statuses are listed; places are nodes, ends and stops.
LEMMA Listed ==
  /\ Statuses = {"new", "triaging", "diagnosing", "awaiting_approval", "remote_resolution",
       "self_help", "awaiting_customer", "dispatch_planning", "field_in_progress",
       "awaiting_handover", "mr_raised", "awaiting_plant_repair", "validating", "reconciling",
       "resolved", "closed", "cancelled", "escalated"}
  /\ Nodes \subseteq Places /\ Names \subseteq Places /\ Stops \subseteq Places
BY DEF Statuses, Transitions, Places, Names, End

-----------------------------------------------------------------------------
(* Steps *)

\* At a node, the run is not escalated and the invariant says what there is.
LEMMA Standing ==
  ASSUME ControlInv, CaseInv, StatusInv, pc \in Nodes
  PROVE  /\ ~escalated /\ outer \notin Over /\ case \in Case /\ Here(pc, case)
         /\ At(pc, status, outer, case) /\ Nested(pc, status, outer)
BY EndsAreNotNodes, CaseIsSound, NodeIsHere DEF ControlInv, EscalationStops, StatusInv

\* What a merge that the lifecycle accepts leaves.
LEMMA Merged ==
  ASSUME ControlInv, CaseInv, CaseInv', StatusInv, NEW n \in Nodes, NEW s, NEW e, NEW next,
         Node(n, s, e, next), CanTransition(status, s)
  PROVE  /\ pc' = next /\ status' = s /\ case' = e /\ ~escalated'
         /\ outer' = IF n \in InnerNodes THEN outer ELSE s
         /\ e \in Case /\ (next \notin Stops => Here(next, e))
<1>1. pc = n /\ Merge(n, TRUE, s, escalated, e, next)
  BY DEF Node, Write
<1>2. /\ pc' = next /\ status' = s /\ case' = e /\ escalated' = escalated
      /\ outer' = IF n \in InnerNodes THEN outer ELSE s
  BY <1>1 DEF Merge
<1>3. ~escalated
  BY <1>1, Standing
<1> QED BY <1>2, <1>3 DEF CaseInv, Sound

\* A node of a subgraph, on to another of it or to its end.
LEMMA InnerStep ==
  ASSUME ControlInv, CaseInv, CaseInv', StatusInv, NEW g \in Names, NEW n \in Subgraphs[g],
         NEW s \in Statuses, NEW e, NEW next \in Subgraphs[g] \cup {g}, Node(n, s, e, next),
         At(n, status, outer, case) /\ Entered(g, outer) => CanTransition(status, s),
         e \in Case /\ Here(next, e) /\ At(n, status, outer, case) /\ Entered(g, outer)
           => At(next, s, outer, e)
  PROVE  Sure
<1>1. n \in Nodes /\ pc = n /\ n \in InnerNodes
  BY NodeNames DEF Node, Write, InnerNodes, Names
<1>2. /\ ~escalated /\ outer \notin Over
      /\ At(n, status, outer, case) /\ Entered(g, outer)
  BY <1>1, Standing DEF Nested
<1>3. /\ pc' = next /\ status' = s /\ case' = e /\ outer' = outer
      /\ e \in Case /\ (next \notin Stops => Here(next, e))
  BY <1>1, <1>2, Merged DEF At
<1>4. next \in Places /\ next \notin Stops
  <2>1. CASE next \in Subgraphs[g]
    BY <2>1, NodeNames, Listed, EndsAreNotNodes
  <2>2. CASE next = g
    BY <2>2, NameList, Listed DEF Stops
  <2> QED BY <2>1, <2>2
<1>5. At(next, s, outer, e)
  BY <1>2, <1>3, <1>4
<1>6. Nested(next, s, outer)
  BY <1>2, Apart DEF Nested
<1>7. pc' \notin {"crash:input", "crash:status"}
  BY <1>3, <1>4 DEF Stops
<1> QED BY <1>2, <1>3, <1>4, <1>5, <1>6, <1>7 DEF StatusInv, Sure

\* A place the parent may go on to with status s: the end, or one that fits.
Lands(p, s, d) ==
  \/ p = "END"
  \/ /\ p \in Nodes /\ s \notin Over /\ At(p, s, s, d)
     /\ \A g \in Names : p \in Subgraphs[g] => Entered(g, s)

\* The parent has landed.
LEMMA Landed ==
  ASSUME StatusInv, NEW s \in Statuses, NEW e, NEW next, Lands(next, s, e),
         pc' = next, status' = s, outer' = s, case' = e
  PROVE  Sure
<1>1. CASE next = "END"
  BY <1>1, Listed DEF StatusInv, Sure, Stops
<1>2. CASE next # "END"
  <2>1. next \in Nodes /\ s \notin Over /\ At(next, s, s, e) /\ next \in Places /\ next \notin Names
    BY <1>2, Listed, EndsAreNotNodes DEF Lands
  <2>2. Nested(next, s, s)
    BY <1>2, <2>1 DEF Lands, Nested
  <2>3. pc' \notin {"crash:input", "crash:status"}
    BY <2>1, EndsAreNotNodes DEF Stops
  <2> QED BY <2>1, <2>2, <2>3 DEF StatusInv, Sure
<1> QED BY <1>1, <1>2

\* A node of the parent.
LEMMA ParentStep ==
  ASSUME ControlInv, CaseInv, CaseInv', StatusInv, NEW n \in ParentNodes,
         NEW s \in Statuses, NEW e, NEW next, Node(n, s, e, next),
         Stage(n, status) => CanTransition(status, s),
         e \in Case /\ (next \in Nodes => Here(next, e)) /\ At(n, status, status, case)
           => Lands(next, s, e)
  PROVE  Sure
<1>1. n \in Nodes /\ pc = n /\ n \notin InnerNodes
  BY NodeNames, Apart DEF Node, Write, InnerNodes, Names
<1>2. ~escalated /\ At(n, status, status, case)
  BY <1>1, Standing DEF Nested
<1>3. /\ pc' = next /\ status' = s /\ case' = e /\ outer' = s
      /\ e \in Case /\ (next \in Nodes => Here(next, e))
  BY <1>1, <1>2, Merged, EndsAreNotNodes DEF At
<1> QED BY <1>2, <1>3, Landed

\* A subgraph's end, at the parent, for a case that was escalated in it,
LEMMA EscalatedReturn ==
  ASSUME ControlInv, StatusInv, NEW g \in Names, NEW next, Return(g, next), escalated
  PROVE  Sure
<1>1. pc = g /\ g \notin Stops
  BY NameList DEF Return, End, Stops
<1>2. outer \in Statuses /\ outer \notin Over /\ status \in Statuses
  BY <1>1 DEF StatusInv
<1>3. status = "escalated"
  BY DEF ControlInv, EscalationStops
<1>4. CanTransition(outer, status)
  BY <1>2, <1>3, Hops
<1>5. pc' = "END" /\ status' = status /\ outer' = status
  BY <1>4 DEF Return
<1> QED BY <1>2, <1>5, Listed DEF StatusInv, Sure, Stops

\* and for any other.
LEMMA ReturnStep ==
  ASSUME ControlInv, CaseInv, CaseInv', StatusInv, NEW g \in Names, NEW next, Return(g, next),
         Stage(g, status) /\ Entered(g, outer) /\ Tied(g, status, outer, case)
           => CanTransition(outer, status),
         (next \in Nodes => Here(next, case)) /\ At(g, status, outer, case) /\ Entered(g, outer)
           => Lands(next, status, case)
  PROVE  Sure
<1>1. pc = g /\ g \notin Stops
  BY NameList DEF Return, End, Stops
<1>2. outer \in Statuses /\ outer \notin Over /\ status \in Statuses
  BY <1>1 DEF StatusInv
<1>3. CASE escalated
  BY <1>3, EscalatedReturn
<1>4. CASE ~escalated
  <2>1. At(g, status, outer, case) /\ Entered(g, outer)
    BY <1>1, <1>4 DEF StatusInv, Nested
  <2>2. CanTransition(outer, status)
    BY <2>1 DEF At
  <2>3. pc' = next /\ status' = status /\ outer' = status /\ case' = case /\ ~escalated'
    BY <1>4, <2>2 DEF Return
  <2>4. next \in Nodes => Here(next, case)
    BY <2>3, EndsAreNotNodes DEF CaseInv
  <2> QED BY <1>2, <2>1, <2>3, <2>4, Landed
<1> QED BY <1>3, <1>4

\* A case that is not over can be escalated, at every node.
LEMMA NotOver == ASSUME NEW p \in Nodes, NEW s, Stage(p, s) PROVE s \notin Over
<1>1. p # "reconciliation_closure"
  BY NameList, EndsAreNotNodes
<1> QED BY <1>1 DEF Stage, Over, Left

\* An escalated case leaves the graph it is in.
LEMMA EscalatedStep ==
  ASSUME ControlInv, CaseInv, StatusInv, pc \in Nodes, NEW ran, NEW e, NEW next,
         Merge(pc, ran, "escalated", TRUE, e, next),
         next = "END" \/ (pc \in InnerNodes /\ next \in Names)
  PROVE  Sure
<1>1. status \in Statuses \ Over /\ outer \in Statuses \ Over
  BY Standing, NotOver DEF At, StatusInv
<1>2. /\ pc' = next /\ status' = "escalated" /\ escalated'
      /\ outer' = IF pc \in InnerNodes THEN outer ELSE "escalated"
  BY <1>1, Hops DEF Merge
<1>3. "escalated" \in Statuses
  BY Listed
<1>4. next \in Places /\ next \notin {"crash:input", "crash:status"}
  BY Listed, NameList DEF Stops
<1> QED BY <1>1, <1>2, <1>3, <1>4 DEF StatusInv, Sure, Stops

\* A spent budget escalates the case.
LEMMA GuardSure == ASSUME ControlInv, CaseInv, StatusInv, GuardTrips PROVE Sure
<1>1. pc \in InnerNodes => End(SubgraphOf(pc)) \in Names
  BY NodeNames DEF End
<1>2. pc \in Nodes /\ Merge(pc, FALSE, "escalated", TRUE, case,
         IF pc \in InnerNodes THEN End(SubgraphOf(pc)) ELSE "END")
  BY DEF GuardTrips
<1> QED BY <1>1, <1>2, EscalatedStep

(* Places that ask for nothing but a status *)

\* Places where a visit or the plant crew may be at work, or that find something particular.
Engaged == Visiting \cup Following \cup InSession \cup {"prepare_blast_radius_approval"}

\* Where nobody is at work, only what the place finds and the status matter,
LEMMA Calm ==
  ASSUME NEW p, p \notin Visiting \cup Following, NEW d, Here(p, d), NEW s, s # "mr_raised",
         NEW o, Stage(p, s), Inputs(p, s, d)
  PROVE  At(p, s, o, d)
<1>1. d.order # "open" /\ d.mr # "awaiting_osp"
  BY DEF Here, Clear
<1> QED BY <1>1 DEF At, Tied, Following

\* and elsewhere only the status.
LEMMA Idle ==
  ASSUME NEW p, p \notin Engaged, NEW d, Here(p, d), NEW s, s # "mr_raised", NEW o, Stage(p, s)
  PROVE  At(p, s, o, d)
<1>1. p \notin Visiting /\ p \notin Following /\ p \notin InSession
      /\ p # "prepare_blast_radius_approval"
  BY DEF Engaged
<1>2. p \notin Subgraphs.field_execution /\ p \notin Subgraphs.plant_execution
  BY <1>1 DEF Visiting, Following
<1>3. /\ p \notin Found /\ p \notin {"open_field_visit", "file_plant_mr"}
      /\ p \notin {"update_plant_mr", "capture_plant_evidence"}
  BY <1>2 DEF Found, Subgraphs
<1> QED BY <1>1, <1>2, <1>3, Calm DEF Inputs, Found

\* A node of a subgraph that goes on to such a place.
LEMMA InnerIdle ==
  ASSUME ControlInv, CaseInv, CaseInv', StatusInv, NEW g \in Names, NEW n \in Subgraphs[g],
         NEW s \in Statuses, NEW e, NEW next \in Subgraphs[g] \cup {g}, Node(n, s, e, next),
         next \notin Engaged,
         Stage(n, status) => CanTransition(status, s) /\ s # "mr_raised" /\ Stage(next, s)
  PROVE  Sure
BY InnerStep, Idle DEF At

\* The same, without a status of its own.
LEMMA InnerQuiet ==
  ASSUME ControlInv, CaseInv, CaseInv', StatusInv, NEW g \in Names, NEW n \in Subgraphs[g],
         NEW e, NEW next \in Subgraphs[g] \cup {g}, Quiet(n, e, next), next \notin Engaged,
         Stage(n, status) => status # "mr_raised" /\ Stage(next, status)
  PROVE  Sure
BY InnerIdle, Hops DEF Quiet, StatusInv

\* Where the parent's status leads it, at its own nodes or at the first node of a subgraph.
LEMMA Lit ==
  ASSUME NEW p \in Nodes, p \notin Engaged, NEW d, Here(p, d), NEW s, s # "mr_raised", Stage(p, s),
         p \in ParentNodes \/ \E g \in Names : p \in Subgraphs[g] /\ Entered(g, s)
  PROVE  Lands(p, s, d)
BY Idle, NotOver, Apart DEF Lands

-----------------------------------------------------------------------------
(* The stages *)

\* Where a plan leads, from a diagnosis.
LEMMA PlanLands ==
  ASSUME NEW d, NEW p, p = RouteSafetyAndBlastRadius(d), p \in Nodes => Here(p, d)
  PROVE  Lands(p, "diagnosing", d)
<1>1. p \in {"prepare_blast_radius_approval", "record_escalation", "evaluate_plant_referral",
             "select_remote_action", "select_self_help_script", "build_field_requirement"}
  BY DEF RouteSafetyAndBlastRadius, RouteSharedOrPlant, RouteRemoteEligibility,
         RouteSelfHelpSuitability
<1>2. p = "prepare_blast_radius_approval" => "blast_radius" \in d.due
  BY DEF RouteSafetyAndBlastRadius, RouteSharedOrPlant, RouteRemoteEligibility,
         RouteSelfHelpSuitability
<1>3. Stage(p, "diagnosing")
  BY <1>1 DEF Stage, Diagnosing, Left
<1>4. p \in ParentNodes \/ \E g \in Names : p \in Subgraphs[g] /\ Entered(g, "diagnosing")
  BY <1>1, NameList DEF ParentNodes, Subgraphs, Entered, Left
<1>5. p \in Nodes
  BY <1>4, NodeNames
<1>6. CASE p = "prepare_blast_radius_approval"
  <2>1. p \in ParentNodes /\ p \notin Visiting /\ p \notin Following
    BY <1>6 DEF ParentNodes, Visiting, Following, Subgraphs
  <2>2. At(p, "diagnosing", "diagnosing", d)
    BY <1>2, <1>3, <1>5, <1>6, <2>1, Calm DEF Inputs, Found, InSession, Subgraphs
  <2> QED BY <1>5, <2>1, <2>2, Apart DEF Lands, Over
<1>7. CASE p # "prepare_blast_radius_approval"
  <2>1. p \notin Engaged
    BY <1>1, <1>7 DEF Engaged, Visiting, Following, InSession, Subgraphs
  <2> QED BY <1>3, <1>4, <1>5, <2>1, Lit
<1> QED BY <1>6, <1>7

\* Where a diagnosis leads.
LEMMA RcaLands ==
  ASSUME NEW d, NEW p, p = RouteRcaConfidence(d), p \in Nodes => Here(p, d)
  PROVE  Lands(p, "diagnosing", d)
<1>1. p \in {"prepare_low_confidence_review", "assemble_case_evidence",
             "generate_resolution_options"}
  BY DEF RouteRcaConfidence
<1>2. Stage(p, "diagnosing") /\ p \in ParentNodes /\ p \notin Engaged
  BY <1>1 DEF Stage, Diagnosing, ParentNodes, Engaged, Visiting, Following, InSession, Subgraphs
<1> QED BY <1>2, Lit, NodeNames

\* An ordinary step of the parent to one of its own nodes.
LEMMA ParentMoves ==
  ASSUME ControlInv, CaseInv, CaseInv', StatusInv, NEW n \in ParentNodes,
         NEW s \in Statuses, NEW e, NEW next \in ParentNodes, Node(n, s, e, next),
         next \notin Engaged,
         Stage(n, status) => CanTransition(status, s) /\ s # "mr_raised" /\ Stage(next, s)
  PROVE  Sure
BY ParentStep, Lit, NodeNames DEF At

\* The same, without a status of its own.
LEMMA ParentMovesQuiet ==
  ASSUME ControlInv, CaseInv, CaseInv', StatusInv, NEW n \in ParentNodes,
         NEW e, NEW next \in ParentNodes, Quiet(n, e, next), next \notin Engaged,
         Stage(n, status) => status # "mr_raised" /\ Stage(next, status)
  PROVE  Sure
BY ParentMoves, Hops DEF Quiet, StatusInv

\* The statuses of intake and diagnosis.
LEMMA DiagnosisStages ==
  ASSUME NEW s
  PROVE  /\ Stage("receive_signal", s) <=> s = "new"
         /\ \A p \in Intake : Stage(p, s) <=> s = "triaging"
         /\ Stage("assemble_case_evidence", s) <=> s \in {"triaging", "diagnosing", "remote_resolution"}
         /\ \A p \in Diagnosing \ {"preventive_maintenance"} : Stage(p, s) <=> s = "diagnosing"
         /\ Stage("determine_root_cause", s) <=> s \in Left
         /\ \A p \in Asked : Stage(p, s) <=> s = "awaiting_approval"
         /\ Stage("confirm_customer_outcome", s) <=> s = "validating"
BY DEF Stage, Intake, Diagnosing, Asked, Gated, Scheduled, OnSite

\* Every node of intake, diagnosis and the parent gates.
LEMMA DiagnosisSure ==
  ASSUME ControlInv, CaseInv, CaseInv', StatusInv, DiagnosisNext PROVE Sure
<1> DEFINE plain == ParentNodes \ {"prepare_blast_radius_approval"}
<1>0. plain \cap Engaged = {}
  BY DEF Engaged, ParentNodes, Visiting, Following, InSession, Subgraphs
<1>a. ASSUME NEW n \in ParentNodes, NEW d, Node(n, "diagnosing", d, RouteRcaConfidence(d)),
             Stage(n, status) => status \in Left \cup {"awaiting_approval"}
      PROVE  Sure
  <2>1. Stage(n, status) => CanTransition(status, "diagnosing")
    BY <1>a, Hops
  <2>2. "diagnosing" \in Statuses
    BY Listed
  <2>3. ASSUME RouteRcaConfidence(d) \in Nodes => Here(RouteRcaConfidence(d), d)
        PROVE  Lands(RouteRcaConfidence(d), "diagnosing", d)
    BY <2>3, RcaLands
  <2> QED BY <1>a, <2>1, <2>2, <2>3, ParentStep
<1>b. ASSUME NEW n \in ParentNodes, NEW d, Node(n, "diagnosing", d, RouteSafetyAndBlastRadius(d)),
             Stage(n, status) => status \in Left \cup {"awaiting_approval"}
      PROVE  Sure
  <2>1. Stage(n, status) => CanTransition(status, "diagnosing")
    BY <1>b, Hops
  <2>2. "diagnosing" \in Statuses
    BY Listed
  <2>3. ASSUME RouteSafetyAndBlastRadius(d) \in Nodes => Here(RouteSafetyAndBlastRadius(d), d)
        PROVE  Lands(RouteSafetyAndBlastRadius(d), "diagnosing", d)
    BY <2>3, PlanLands
  <2> QED BY <1>b, <2>1, <2>2, <2>3, ParentStep
<1> USE Hops, Listed
<1>1. CASE ReceiveSignal
  BY <1>0, <1>1, DiagnosisStages, ParentMoves DEF ReceiveSignal, ParentNodes, Intake
<1>2. CASE NormalizeEvent
  <2>1. PICK d \in Gathered(case), next \in {"resolve_identity_and_topology", "END"} :
          Quiet("normalize_event", d, next)
    BY <1>2 DEF NormalizeEvent
  <2>2. CASE next = "END"
    BY <2>1, <2>2, ParentStep DEF Quiet, Lands, ParentNodes, StatusInv
  <2>3. CASE next # "END"
    BY <1>0, <2>1, <2>3, DiagnosisStages, ParentMovesQuiet DEF ParentNodes, Intake
  <2> QED BY <2>2, <2>3
<1>3. CASE ResolveIdentityAndTopology
  BY <1>0, <1>3, DiagnosisStages, ParentMovesQuiet DEF ResolveIdentityAndTopology, ParentNodes, Intake
<1>4. CASE DeduplicateAndCorrelate
  BY <1>0, <1>4, DiagnosisStages, ParentMovesQuiet DEF DeduplicateAndCorrelate, ParentNodes, Intake
<1>5. CASE AssessImpactAndPriority
  <2>1. PICK d \in Gathered(case), next \in {"create_or_attach_incident", "assess_predictive_risk"} :
          Quiet("assess_impact_and_priority", d, next)
    BY <1>5 DEF AssessImpactAndPriority
  <2>2. CASE next = "create_or_attach_incident"
    BY <1>0, <2>1, <2>2, DiagnosisStages, ParentMovesQuiet DEF ParentNodes, Intake
  <2>3. CASE next = "assess_predictive_risk"
    <3>1. next \in Subgraphs.preventive_maintenance /\ next \in Nodes /\ next \notin Engaged
      BY <2>3, NameList, NodeNames
        DEF Subgraphs, Engaged, Visiting, Following, InSession
    <3>2. Stage("assess_impact_and_priority", status) => status = "triaging"
      BY DiagnosisStages DEF Intake
    <3>3. Stage(next, "triaging") /\ Entered("preventive_maintenance", "triaging")
      BY <2>3, DiagnosisStages DEF Intake, Entered
    <3>4. ASSUME NEW e, Here(next, e) PROVE Lands(next, "triaging", e)
      BY <3>1, <3>3, <3>4, NameList, Lit
    <3>5. "assess_impact_and_priority" \in ParentNodes
      BY DEF ParentNodes
    <3> QED BY <2>1, <3>1, <3>2, <3>4, <3>5, ParentStep DEF Quiet, At, StatusInv
  <2> QED BY <2>1, <2>2, <2>3
<1>6. CASE CreateOrAttachIncident
  <2>1. CASE Quiet("create_or_attach_incident", case, "assemble_case_evidence")
    BY <1>0, <2>1, DiagnosisStages, ParentMovesQuiet DEF ParentNodes, Intake
  <2>2. CASE Write("create_or_attach_incident", "escalated", TRUE, case, "END")
    BY <2>2, EscalatedStep, NodeNames DEF Write, ParentNodes
  <2> QED BY <1>6, <2>1, <2>2 DEF CreateOrAttachIncident
<1>7. CASE AssembleCaseEvidence
  <2>1. PICK d : Node("assemble_case_evidence", "diagnosing", d, RouteEvidenceSufficiency(d))
    BY <1>7 DEF AssembleCaseEvidence
  <2>2. RouteEvidenceSufficiency(d) \in {"create_diagnostic_test_plan", "assemble_case_evidence"}
    BY DEF RouteEvidenceSufficiency
  <2>3. ASSUME NEW p \in {"create_diagnostic_test_plan", "assemble_case_evidence"}
        PROVE  p \in ParentNodes /\ p \notin Engaged /\ Stage(p, "diagnosing")
    BY <1>0, DiagnosisStages DEF ParentNodes, Diagnosing
  <2>4. Stage("assemble_case_evidence", status) => CanTransition(status, "diagnosing")
    BY DiagnosisStages DEF Left
  <2>5. "assemble_case_evidence" \in ParentNodes
    BY DEF ParentNodes
  <2> QED BY <2>1, <2>2, <2>3, <2>4, <2>5, ParentMoves
<1>8. CASE CreateDiagnosticTestPlan
  BY <1>0, <1>8, DiagnosisStages, ParentMovesQuiet DEF CreateDiagnosticTestPlan, ParentNodes, Diagnosing
<1>9. CASE ExecuteReadOnlyTests
  BY <1>0, <1>9, DiagnosisStages, ParentMovesQuiet DEF ExecuteReadOnlyTests, ParentNodes, Diagnosing, Left
<1>10. CASE DetermineRootCause
  <2>1. PICK d : Node("determine_root_cause", "diagnosing", d, RouteRcaConfidence(d))
    BY <1>10 DEF DetermineRootCause
  <2>2. Stage("determine_root_cause", status) => status \in Left
    BY DiagnosisStages DEF Left
  <2>3. "determine_root_cause" \in ParentNodes
    BY DEF ParentNodes
  <2> QED BY <1>a, <2>1, <2>2, <2>3
<1>11. CASE GenerateResolutionOptions
  <2>1. PICK d : Quiet("generate_resolution_options", d, RouteSafetyAndBlastRadius(d))
    BY <1>11 DEF GenerateResolutionOptions
  <2>2. Stage("generate_resolution_options", status) => status = "diagnosing"
    BY DiagnosisStages DEF Diagnosing
  <2>3. "generate_resolution_options" \in ParentNodes
    BY DEF ParentNodes
  <2>4. status = "diagnosing"
    <3>1. pc = "generate_resolution_options" /\ pc \in Nodes
      BY <2>1, <2>3, NodeNames DEF Quiet, Node, Write
    <3> QED BY <2>2, <3>1, Standing DEF At
  <2>5. Node("generate_resolution_options", "diagnosing", d, RouteSafetyAndBlastRadius(d))
    BY <2>1, <2>4 DEF Quiet
  <2>6. status \in Left
    BY <2>4 DEF Left
  <2> HIDE Hops, Listed
  <2> QED BY <1>b, <2>3, <2>5, <2>6
<1>12. CASE PrepareLowConfidenceReview
  <2>1. Node("prepare_low_confidence_review", "awaiting_approval", case,
             "request_low_confidence_review")
    BY <1>12 DEF PrepareLowConfidenceReview
  <2>2. {"prepare_low_confidence_review", "request_low_confidence_review"} \subseteq plain
    BY DEF ParentNodes
  <2>3. Stage("prepare_low_confidence_review", status) => status = "diagnosing"
    BY DiagnosisStages DEF Diagnosing
  <2>4. Stage("request_low_confidence_review", "awaiting_approval")
    BY DiagnosisStages DEF Asked
  <2>5. CanTransition("diagnosing", "awaiting_approval") /\ "awaiting_approval" \in Statuses
    OBVIOUS
  <2>6. /\ "prepare_low_confidence_review" \in ParentNodes
        /\ "request_low_confidence_review" \in ParentNodes \ Engaged
    BY <1>0, <2>2
  <2> HIDE Hops, Listed
  <2> QED BY <2>1, <2>3, <2>4, <2>5, <2>6, ParentMoves
<1>13. CASE RequestLowConfidenceReview
  <2>1. PICK d : Node("request_low_confidence_review", "diagnosing", d, RouteRcaConfidence(d))
    BY <1>13 DEF RequestLowConfidenceReview
  <2>2. Stage("request_low_confidence_review", status) => status = "awaiting_approval"
    BY DiagnosisStages DEF Asked
  <2>3. "request_low_confidence_review" \in ParentNodes
    BY DEF ParentNodes
  <2> QED BY <1>a, <2>1, <2>2, <2>3
<1>14. CASE PrepareBlastRadiusApproval
  <2>1. pc = "prepare_blast_radius_approval" => "blast_radius" \in case.due
    BY Standing, NodeNames DEF At, Inputs, ParentNodes
  <2>2. Node("prepare_blast_radius_approval", "awaiting_approval", case,
             "request_blast_radius_approval")
    BY <1>14, <2>1 DEF PrepareBlastRadiusApproval, Needs, Node, Write
  <2>3. /\ "prepare_blast_radius_approval" \in ParentNodes
        /\ "request_blast_radius_approval" \in plain
    BY DEF ParentNodes
  <2>4. Stage("prepare_blast_radius_approval", status) => status = "diagnosing"
    BY DiagnosisStages DEF Diagnosing
  <2>5. Stage("request_blast_radius_approval", "awaiting_approval")
    BY DiagnosisStages DEF Asked
  <2>6. CanTransition("diagnosing", "awaiting_approval") /\ "awaiting_approval" \in Statuses
    OBVIOUS
  <2>7. "request_blast_radius_approval" \in ParentNodes \ Engaged
    BY <1>0, <2>3
  <2> HIDE Hops, Listed
  <2> QED BY <2>2, <2>3, <2>4, <2>5, <2>6, <2>7, ParentMoves
<1>15. CASE RequestBlastRadiusApproval
  <2>1. PICK d : Node("request_blast_radius_approval", "diagnosing", d, RouteSafetyAndBlastRadius(d))
    BY <1>15 DEF RequestBlastRadiusApproval
  <2>2. Stage("request_blast_radius_approval", status) => status = "awaiting_approval"
    BY DiagnosisStages DEF Asked
  <2>3. "request_blast_radius_approval" \in ParentNodes
    BY DEF ParentNodes
  <2> QED BY <1>b, <2>1, <2>2, <2>3
<1>16. CASE RecordEscalation
  BY <1>16, EscalatedStep, NodeNames DEF RecordEscalation, Write, ParentNodes
<1>17. CASE ConfirmCustomerOutcome
  <2>1. pc = "confirm_customer_outcome" => case.validation # "none"
    BY Standing, NodeNames DEF Here, Decided, Ending, Proven, ParentNodes
  <2>2. PICK d : Quiet("confirm_customer_outcome", d, RouteResolution(d))
    BY <1>17, <2>1 DEF ConfirmCustomerOutcome, Needs, Quiet, Node, Write
  <2>3. RouteResolution(d) \in {"reconcile_linked_systems", "determine_root_cause"}
    BY DEF RouteResolution
  <2>4. ASSUME NEW p \in {"reconcile_linked_systems", "determine_root_cause"},
               NEW e, p \in Nodes => Here(p, e)
        PROVE  Lands(p, "validating", e)
    <3>1. /\ p \notin Engaged
          /\ p \in ParentNodes \/ p \in Subgraphs["reconciliation_closure"]
      BY DEF Engaged, Visiting, Following, InSession, Subgraphs, ParentNodes
    <3>2. Stage(p, "validating") /\ Entered("reconciliation_closure", "validating")
      BY DEF Stage, Left, Entered
    <3> QED BY <2>4, <3>1, <3>2, NameList, NodeNames, Lit
  <2>5. "confirm_customer_outcome" \in ParentNodes
    BY DEF ParentNodes
  <2> QED BY <2>2, <2>3, <2>4, <2>5, DiagnosisStages, ParentStep DEF Quiet, At, StatusInv
<1> QED
  BY <1>1, <1>2, <1>3, <1>4, <1>5, <1>6, <1>7, <1>8, <1>9, <1>10, <1>11, <1>12,
    <1>13, <1>14, <1>15, <1>16, <1>17 DEF DiagnosisNext

\* Where an option's gate leads.
LEMMA OptionGateLeads ==
  ASSUME NEW d, NEW approve, NEW act, NEW abandon
  PROVE  OptionGate(d, approve, act, abandon) \in {approve, act, abandon}
BY DEF OptionGate

\* The statuses of a remote repair.
LEMMA RemoteStages ==
  ASSUME NEW s
  PROVE  /\ Stage("select_remote_action", s) <=> s = "diagnosing"
         /\ \A p \in {"prepare_remote_approval", "execute_remote_repair", "abandon_remote_action"} :
              Stage(p, s) <=> s \in {"diagnosing", "awaiting_approval"}
         /\ Stage("request_remote_approval", s) <=> s = "awaiting_approval"
         /\ Stage("verify_remote_repair", s) <=> s = "remote_resolution"
         /\ Stage("remote_resolution", s) <=> s \in {"diagnosing", "remote_resolution"}
BY DEF Stage, Intake, Diagnosing, Asked, Gated, Scheduled, OnSite

\* Every node of a remote repair.
LEMMA RemoteSure ==
  ASSUME ControlInv, CaseInv, CaseInv', StatusInv, RemoteNext PROVE Sure
<1> DEFINE g == "remote_resolution"
           gate == {"prepare_remote_approval", "execute_remote_repair", "abandon_remote_action"}
<1>0. /\ g \in Names /\ (Subgraphs[g] \cup {g}) \cap Engaged = {}
      /\ Subgraphs[g] = gate \cup {"select_remote_action", "request_remote_approval",
                                   "verify_remote_repair"}
  BY NameList DEF Subgraphs, Engaged, Visiting, Following, InSession
<1>a. ASSUME NEW d PROVE RouteRemoteGate(d) \in gate
  BY OptionGateLeads DEF RouteRemoteGate
<1> HIDE DEF g
<1> USE <1>0, RemoteStages, Hops, Listed
<1>1. CASE SelectRemoteAction
  <2>1. PICK d : Quiet("select_remote_action", d, RouteRemoteGate(d))
    BY <1>1 DEF SelectRemoteAction
  <2>2. RouteRemoteGate(d) \in gate
    BY <1>a
  <2>3. \A p \in gate : Stage("select_remote_action", status)
                            => status # "mr_raised" /\ Stage(p, status)
    OBVIOUS
  <2>4. /\ "select_remote_action" \in Subgraphs[g] /\ g \in Names
        /\ \A p \in gate : p \in Subgraphs[g] /\ p \notin Engaged
    OBVIOUS
  <2> HIDE <1>0, RemoteStages, Hops, Listed
  <2> HIDE DEF gate
  <2> QED BY <2>1, <2>2, <2>3, <2>4, InnerQuiet
<1>2. CASE PrepareRemoteApproval
  <2>1. Node("prepare_remote_approval", "awaiting_approval", case, "request_remote_approval")
    BY <1>2 DEF PrepareRemoteApproval
  <2>2. /\ "prepare_remote_approval" \in Subgraphs[g] /\ g \in Names
        /\ "request_remote_approval" \in Subgraphs[g] /\ "request_remote_approval" \notin Engaged
    OBVIOUS
  <2>3. /\ Stage("prepare_remote_approval", status) => CanTransition(status, "awaiting_approval")
        /\ Stage("request_remote_approval", "awaiting_approval")
        /\ "awaiting_approval" \in Statuses
    OBVIOUS
  <2> HIDE <1>0, RemoteStages, Hops, Listed
  <2> QED BY <2>1, <2>2, <2>3, InnerIdle
<1>3. CASE RequestRemoteApproval
  BY <1>3, <1>a, InnerQuiet DEF RequestRemoteApproval
<1>4. CASE AbandonRemoteAction
  BY <1>4, InnerIdle DEF AbandonRemoteAction, End, g, Left
<1>5. CASE ExecuteRemoteRepair
  BY <1>5, InnerIdle DEF ExecuteRemoteRepair
<1>6. CASE VerifyRemoteRepair
  BY <1>6, InnerQuiet DEF VerifyRemoteRepair, End, g
<1> QED BY <1>1, <1>2, <1>3, <1>4, <1>5, <1>6 DEF RemoteNext

\* The statuses of self-help.
LEMMA SelfHelpStages ==
  ASSUME NEW s
  PROVE  /\ Stage("select_self_help_script", s) <=> s = "diagnosing"
         /\ \A p \in {"prepare_self_help_approval", "send_self_help_instructions"} :
              Stage(p, s) <=> s \in {"diagnosing", "awaiting_approval"}
         /\ Stage("request_self_help_approval", s) <=> s = "awaiting_approval"
         /\ Stage("mark_awaiting_customer", s) <=> s = "self_help"
         /\ \A p \in {"await_customer_response", "verify_self_help"} :
              Stage(p, s) <=> s = "awaiting_customer"
         /\ Stage("abandon_self_help", s) <=>
              s \in {"diagnosing", "awaiting_approval", "awaiting_customer"}
         /\ Stage("self_help", s) <=> s \in {"diagnosing", "self_help"}
BY DEF Stage, Intake, Diagnosing, Asked, Gated, Scheduled, OnSite

\* A session that has been written is on record.
LEMMA SessionWritten ==
  ASSUME NEW d, NEW x, NEW e \in Case, e = [d EXCEPT !.session = x]
  PROVE  e.session = x
<1>1. "session" \in DOMAIN e
  BY CaseFields DEF Fields
<1>2. DOMAIN e = DOMAIN d
  OBVIOUS
<1> QED BY <1>1, <1>2

\* Every node of self-help.
LEMMA SelfHelpSure ==
  ASSUME ControlInv, CaseInv, CaseInv', StatusInv, SelfHelpNext PROVE Sure
<1> DEFINE g == "self_help"
           gate == {"prepare_self_help_approval", "send_self_help_instructions",
                    "abandon_self_help"}
<1>0. /\ g \in Names /\ (Subgraphs[g] \cup {g}) \cap Engaged = InSession
      /\ Subgraphs[g] = gate \cup {"select_self_help_script", "request_self_help_approval"}
                        \cup InSession
  BY NameList DEF Subgraphs, Engaged, Visiting, Following, InSession
<1>a. ASSUME NEW d PROVE RouteSelfHelpGate(d) \in gate
  BY OptionGateLeads DEF RouteSelfHelpGate
<1>b. \A p \in gate \cup {g} : p \notin Engaged
  BY <1>0 DEF InSession
<1>c. pc \in InSession => case.session # "none"
  BY <1>0, NodeNames, Standing DEF At, Inputs
<1>d. ASSUME NEW p \in InSession, NEW d, Here(p, d), d.session # "none", NEW s, s # "mr_raised",
             NEW o, Stage(p, s)
      PROVE  At(p, s, o, d)
  <2>1. p \notin Visiting /\ p \notin Following
    BY DEF InSession, Visiting, Following, Subgraphs
  <2>2. p # "prepare_blast_radius_approval"
    BY DEF InSession
  <2> QED BY <1>d, <2>1, <2>2, Calm DEF Inputs, InSession, Found, Visiting, Following, Subgraphs
<1>e. ASSUME NEW n \in Subgraphs[g], NEW s \in Statuses, NEW e, NEW next \in InSession,
             Node(n, s, e, next), e \in Case => e.session # "none",
             Stage(n, status) => CanTransition(status, s) /\ s # "mr_raised" /\ Stage(next, s)
      PROVE  Sure
  <2>1. next \in Subgraphs[g]
    BY <1>0
  <2>2. ASSUME e \in Case, Here(next, e), At(n, status, outer, case)
        PROVE  At(next, s, outer, e)
    BY <1>d, <1>e, <2>2 DEF At
  <2>3. g \in Names
    BY <1>0
  <2> HIDE DEF g
  <2> QED BY <1>e, <2>1, <2>2, <2>3, InnerStep DEF At
<1> HIDE DEF g
<1> USE <1>0, SelfHelpStages, Hops, Listed
<1>1. CASE SelectSelfHelpScript
  <2>1. PICK d : Quiet("select_self_help_script", d, RouteSelfHelpGate(d))
    BY <1>1 DEF SelectSelfHelpScript
  <2>2. RouteSelfHelpGate(d) \in gate
    BY <1>a
  <2>3. \A p \in gate : Stage("select_self_help_script", status)
                            => status # "mr_raised" /\ Stage(p, status)
    OBVIOUS
  <2>4. /\ "select_self_help_script" \in Subgraphs[g] /\ g \in Names
        /\ \A p \in gate : p \in Subgraphs[g] /\ p \notin Engaged
    BY <1>b
  <2> HIDE <1>0, SelfHelpStages, Hops, Listed
  <2> HIDE DEF gate
  <2> QED BY <2>1, <2>2, <2>3, <2>4, InnerQuiet
<1>2. CASE PrepareSelfHelpApproval
  <2>1. Node("prepare_self_help_approval", "awaiting_approval", case, "request_self_help_approval")
    BY <1>2 DEF PrepareSelfHelpApproval
  <2>2. /\ "prepare_self_help_approval" \in Subgraphs[g] /\ g \in Names
        /\ "request_self_help_approval" \in Subgraphs[g] /\ "request_self_help_approval" \notin Engaged
    BY DEF InSession
  <2>3. /\ Stage("prepare_self_help_approval", status) => CanTransition(status, "awaiting_approval")
        /\ Stage("request_self_help_approval", "awaiting_approval")
        /\ "awaiting_approval" \in Statuses
    OBVIOUS
  <2> HIDE <1>0, SelfHelpStages, Hops, Listed
  <2> QED BY <2>1, <2>2, <2>3, InnerIdle
<1>3. CASE RequestSelfHelpApproval
  BY <1>3, <1>a, <1>b, InnerQuiet DEF RequestSelfHelpApproval
<1>4. CASE SendSelfHelpInstructions
  <2>1. PICK d, e : /\ e = [d EXCEPT !.session = "open"]
                    /\ Node("send_self_help_instructions", "self_help", e, "mark_awaiting_customer")
    BY <1>4 DEF SendSelfHelpInstructions
  <2>2. e \in Case => e.session # "none"
    BY <2>1, SessionWritten
  <2>3. "mark_awaiting_customer" \in InSession
    BY DEF InSession
  <2> HIDE <2>1
  <2> QED BY <2>1, <2>2, <2>3, <1>e
<1>5. CASE MarkAwaitingCustomer
  <2>1. Node("mark_awaiting_customer", "awaiting_customer", case, "await_customer_response")
    BY <1>5, <1>c DEF MarkAwaitingCustomer, Needs, InSession, Node, Write
  <2>2. "await_customer_response" \in InSession /\ "mark_awaiting_customer" \in InSession
    BY DEF InSession
  <2>3. case.session # "none"
    BY <1>c, <2>1, <2>2 DEF Node, Write
  <2> QED BY <2>1, <2>2, <2>3, <1>e
<1>6. CASE AwaitCustomerResponse
  <2>0. PICK s \in {"open", "completed", "declined", "timed_out"} : \E d :
          /\ d = [case EXCEPT !.session = s]
          /\ Quiet("await_customer_response", d, RouteCustomerAnswer(d))
    BY <1>6, <1>c DEF AwaitCustomerResponse, Needs, InSession, Quiet, Node, Write
  <2>1. PICK d :
          /\ d = [case EXCEPT !.session = s]
          /\ Quiet("await_customer_response", d, RouteCustomerAnswer(d))
    BY <2>0
  <2>2. d \in Case => d.session # "none"
    BY <2>1, SessionWritten
  <2>3. RouteCustomerAnswer(d) \in {"await_customer_response", "verify_self_help", "abandon_self_help"}
    BY DEF RouteCustomerAnswer
  <2>4. "await_customer_response" \in InSession /\ "verify_self_help" \in InSession
    BY DEF InSession
  <2>5. CASE RouteCustomerAnswer(d) = "abandon_self_help"
    <3>1. Quiet("await_customer_response", d, "abandon_self_help")
      BY <2>1, <2>5
    <3>2. /\ "await_customer_response" \in Subgraphs[g] /\ "abandon_self_help" \in Subgraphs[g]
          /\ "abandon_self_help" \notin Engaged
      BY <1>b, <2>4
    <3>3. Stage("await_customer_response", status)
            => status # "mr_raised" /\ Stage("abandon_self_help", status)
      BY <2>4
    <3>4. g \in Names
      OBVIOUS
    <3> HIDE <1>0, SelfHelpStages, Hops, Listed
    <3> QED BY <3>1, <3>2, <3>3, <3>4, InnerQuiet
  <2>6. CASE RouteCustomerAnswer(d) # "abandon_self_help"
    <3>1. RouteCustomerAnswer(d) \in InSession
      BY <2>3, <2>4, <2>6
    <3>2. status \in Statuses /\ Node("await_customer_response", status, d, RouteCustomerAnswer(d))
      BY <2>1 DEF Quiet, StatusInv
    <3>3. "await_customer_response" \in Subgraphs[g]
      BY <2>4
    <3>4. Stage("await_customer_response", status)
            => /\ CanTransition(status, status) /\ status # "mr_raised"
               /\ Stage(RouteCustomerAnswer(d), status)
      BY <2>3, <2>6, <3>2
    <3> HIDE <1>0, SelfHelpStages, Hops, Listed
    <3> QED BY <1>e, <2>2, <3>1, <3>2, <3>3, <3>4
  <2> QED BY <2>5, <2>6
<1>7. CASE VerifySelfHelp
  <2>1. PICK e : Node("verify_self_help", "self_help", e, End("self_help"))
    BY <1>7, <1>c DEF VerifySelfHelp, Needs, InSession, Node, Write
  <2>2. "verify_self_help" \in InSession
    BY DEF InSession
  <2> QED BY <1>b, <2>1, <2>2, InnerIdle DEF End, g
<1>8. CASE AbandonSelfHelp
  BY <1>8, <1>b, InnerIdle DEF AbandonSelfHelp, End, g, Left
<1> QED BY <1>1, <1>2, <1>3, <1>4, <1>5, <1>6, <1>7, <1>8 DEF SelfHelpNext

\* The statuses of planning a visit.
LEMMA PlanningStages ==
  ASSUME NEW s
  PROVE  /\ \A p \in {"build_field_requirement", "abandon_field_planning"} : Stage(p, s) <=> s \in Left
         /\ Stage("optimize_field_schedule", s) <=> s \in Left \cup {"awaiting_approval"}
         /\ \A p \in Scheduled : Stage(p, s) <=> s \in {"dispatch_planning", "awaiting_approval"}
         /\ Stage("request_dispatch_approval", s) <=> s = "awaiting_approval"
         /\ Stage("field_planning", s) <=> s \in {"diagnosing", "dispatch_planning"}
BY DEF Stage, Intake, Diagnosing, Asked, Gated, Scheduled, OnSite

\* Every node of planning a visit.
LEMMA PlanningSure ==
  ASSUME ControlInv, CaseInv, CaseInv', StatusInv,
         \/ BuildFieldRequirement \/ OptimizeFieldSchedule \/ EvaluateDispatchPolicy
         \/ PrepareDispatchApproval \/ RequestDispatchApproval \/ CommitFieldDispatch
         \/ QueueForDispatcher \/ AbandonFieldPlanning
  PROVE  Sure
<1> DEFINE g == "field_planning"
           gate == {"queue_for_dispatcher", "prepare_dispatch_approval", "commit_field_dispatch",
                    "optimize_field_schedule"}
<1>0. /\ g \in Names /\ Subgraphs[g] \cap Engaged = {}
      /\ Subgraphs[g] = gate \cup {"build_field_requirement", "evaluate_dispatch_policy",
                                   "request_dispatch_approval", "abandon_field_planning"}
      /\ Scheduled \subseteq Subgraphs[g]
  BY NameList DEF Subgraphs, Engaged, Visiting, Following, InSession, Scheduled
<1>a. ASSUME NEW d PROVE RouteDispatchGate(d) \in gate
  BY DEF RouteDispatchGate
<1>b. \A p \in gate \ {"optimize_field_schedule"} : p \in Scheduled
  BY DEF Scheduled
<1>c. ASSUME NEW e, Here(g, e), NEW s \in {"diagnosing", "dispatch_planning"}, NEW o,
             e.order = "open" => s = "dispatch_planning"
      PROVE  At(g, s, o, e)
  <2>1. e.mr # "awaiting_osp"
    BY <1>c DEF Here, Clear, Following, Subgraphs
  <2>2. Stage(g, s)
    BY <1>c, PlanningStages
  <2> QED BY <1>c, <2>1, <2>2 DEF At, Inputs, Tied, InSession, Found, Subgraphs
<1>d. ASSUME NEW n \in Scheduled, NEW e, Node(n, "dispatch_planning", e, g) PROVE Sure
  <2>1. /\ g \in Names /\ n \in Subgraphs[g] /\ g \in Subgraphs[g] \cup {g}
        /\ "dispatch_planning" \in Statuses
    BY <1>0, <1>d, Listed
  <2>2. Stage(n, status) => CanTransition(status, "dispatch_planning")
    BY <1>d, PlanningStages, Hops DEF Left
  <2>3. ASSUME Here(g, e)
        PROVE  At(g, "dispatch_planning", outer, e)
    BY <1>c, <2>3
  <2> HIDE DEF g
  <2> QED BY <1>d, <2>1, <2>2, <2>3, InnerStep DEF At
<1> HIDE DEF g
<1> USE <1>0, PlanningStages, Hops, Listed
<1>1. CASE BuildFieldRequirement
  <2>1. PICK d : Quiet("build_field_requirement", d, RouteFieldGate(d))
    BY <1>1 DEF BuildFieldRequirement
  <2>2. RouteFieldGate(d) \in {"optimize_field_schedule", "abandon_field_planning"}
    BY DEF RouteFieldGate
  <2> QED BY <2>1, <2>2, InnerQuiet DEF Left
<1>2. CASE OptimizeFieldSchedule
  BY <1>2, <1>b, InnerIdle DEF OptimizeFieldSchedule, Scheduled
<1>3. CASE EvaluateDispatchPolicy
  <2>1. PICK d : Quiet("evaluate_dispatch_policy", d, RouteDispatchGate(d))
    BY <1>3 DEF EvaluateDispatchPolicy
  <2>2. RouteDispatchGate(d) \in gate
    BY <1>a
  <2>3. \A p \in gate : Stage("evaluate_dispatch_policy", status) => Stage(p, status)
    <3>1. Stage("evaluate_dispatch_policy", status)
            => status \in {"dispatch_planning", "awaiting_approval"}
      BY DEF Scheduled
    <3>2. \A p \in Scheduled : status \in {"dispatch_planning", "awaiting_approval"} => Stage(p, status)
      OBVIOUS
    <3>3. status \in {"dispatch_planning", "awaiting_approval"} => Stage("optimize_field_schedule", status)
      BY DEF Left
    <3> HIDE <1>0, PlanningStages, Hops, Listed
    <3> QED BY <1>b, <3>1, <3>2, <3>3
  <2>4. Stage("evaluate_dispatch_policy", status) => status # "mr_raised"
    BY DEF Scheduled
  <2>5. /\ "evaluate_dispatch_policy" \in Subgraphs[g]
        /\ \A p \in gate : p \in Subgraphs[g] /\ p \notin Engaged
    OBVIOUS
  <2> HIDE <1>0, PlanningStages, Hops, Listed
  <2> HIDE DEF gate
  <2> QED BY <1>0, <2>1, <2>2, <2>3, <2>4, <2>5, InnerQuiet
<1>4. CASE PrepareDispatchApproval
  <2>1. Node("prepare_dispatch_approval", "awaiting_approval", case, "request_dispatch_approval")
    BY <1>4 DEF PrepareDispatchApproval
  <2>2. /\ "prepare_dispatch_approval" \in Subgraphs[g] /\ g \in Names
        /\ "request_dispatch_approval" \in Subgraphs[g] /\ "request_dispatch_approval" \notin Engaged
    OBVIOUS
  <2>3. /\ Stage("prepare_dispatch_approval", status) => CanTransition(status, "awaiting_approval")
        /\ Stage("request_dispatch_approval", "awaiting_approval")
        /\ "awaiting_approval" \in Statuses
    BY <1>b
  <2> HIDE <1>0, PlanningStages, Hops, Listed
  <2> QED BY <2>1, <2>2, <2>3, InnerIdle
<1>5. CASE RequestDispatchApproval
  <2>1. PICK d : Quiet("request_dispatch_approval", d, RouteDispatchGate(d))
    BY <1>5 DEF RequestDispatchApproval
  <2> QED BY <1>a, <1>b, <2>1, InnerQuiet
<1>6. CASE CommitFieldDispatch
  <2>1. PICK e : Node("commit_field_dispatch", "dispatch_planning", e, g)
    BY <1>6 DEF CommitFieldDispatch, End, g
  <2> QED BY <1>b, <1>d, <2>1
<1>7. CASE QueueForDispatcher
  <2>1. Node("queue_for_dispatcher", "dispatch_planning", case, g)
    BY <1>7 DEF QueueForDispatcher, End, g
  <2> QED BY <1>b, <1>d, <2>1
<1>8. CASE AbandonFieldPlanning
  <2>1. pc = "abandon_field_planning" => case.order # "open"
    BY Standing, NodeNames DEF Here, Clear, Visiting, Subgraphs
  <2>2. "abandon_field_planning" \in Subgraphs[g]
    OBVIOUS
  <2> QED BY <1>8, <1>c, <2>1, <2>2, InnerStep DEF AbandonFieldPlanning, End, g, At, Node, Write
<1> QED BY <1>1, <1>2, <1>3, <1>4, <1>5, <1>6, <1>7, <1>8

\* The statuses of a visit.
LEMMA VisitStages ==
  ASSUME NEW s
  PROVE  /\ Stage("open_field_visit", s) <=>
              s \in {"diagnosing", "dispatch_planning", "field_in_progress"}
         /\ \A p \in OnSite : Stage(p, s) <=> s = "field_in_progress"
         /\ Stage("request_additional_field_tests", s) <=>
              s \in {"field_in_progress", "awaiting_handover"}
         /\ Stage("prepare_handover_approval", s) <=> s = "awaiting_handover"
         /\ Stage("request_handover_approval", s) <=> s = "awaiting_approval"
         /\ \A p \in {"file_plant_mr", "abandon_handover"} :
              Stage(p, s) <=> s \in {"field_in_progress", "awaiting_approval"}
         /\ Stage("field_execution", s) <=>
              s \in {"diagnosing", "dispatch_planning", "mr_raised", "validating"}
BY DEF Stage, Intake, Diagnosing, Asked, Gated, Scheduled, OnSite

\* What a visit writes of a case.
LEMMA VisitWrites ==
  ASSUME NEW d \in Case, NEW x
  PROVE  /\ Differs(d, [d EXCEPT !.finding = x], {"finding"})
         /\ [d EXCEPT !.finding = x].finding = x
         /\ Differs(d, [d EXCEPT !.dom = x], {"dom"})
         /\ Differs(d, [d EXCEPT !.contract = x], {"contract"})
         /\ [d EXCEPT !.contract = x].contract = x
BY CaseFields DEF Differs, Fields

\* At work on a visit, the plant crew holds nothing; after it, no order is open.
LEMMA AtVisit ==
  ASSUME NEW p \in Subgraphs.field_execution, NEW d, Here(p, d),
         NEW s, s \notin {"diagnosing", "mr_raised"}, NEW o, Stage(p, s), Inputs(p, s, d)
  PROVE  At(p, s, o, d)
<1>1. d.mr # "awaiting_osp"
  BY DEF Here, Clear, Following, Subgraphs
<1>2. p \notin Subgraphs.plant_execution /\ p # "plant_execution"
  BY DEF Subgraphs
<1> QED BY <1>1, <1>2 DEF At, Tied

\* After a visit that asked the plant for nothing,
LEMMA AfterVisit ==
  ASSUME NEW d, Here("field_execution", d), d.mr # "awaiting_osp",
         NEW s \in {"diagnosing", "dispatch_planning", "validating"}, NEW o
  PROVE  At("field_execution", s, o, d)
<1>1. d.order # "open"
  BY DEF Here, Clear, Visiting, Subgraphs
<1> QED BY <1>1, VisitStages DEF At, Inputs, Tied, InSession, Found, Subgraphs

\* and after one that did.
LEMMA AfterRequest ==
  ASSUME NEW d, Here("field_execution", d), d.mr = "awaiting_osp", NEW o
  PROVE  At("field_execution", "mr_raised", o, d)
<1>1. d.order # "open"
  BY DEF Here, Clear, Visiting, Subgraphs
<1> QED BY <1>1, VisitStages DEF At, Inputs, Tied, InSession, Found, Subgraphs

\* A node that raises where it may.
LEMMA CrashSure ==
  ASSUME StatusInv, AfterEarlierRequest, NEW why \in Stops, Crash(why)
  PROVE  Sure
BY Listed DEF StatusInv, Sure, Crash

\* The visit itself, up to the question of a handover.
LEMMA OnSiteSure ==
  ASSUME ControlInv, CaseInv, CaseInv', StatusInv,
         \/ OpenFieldVisit \/ CaptureFieldEvidence \/ CloseCleanBootsVisit \/ DetermineDelimiter
         \/ RequestAdditionalFieldTests \/ BuildHandoverContract
  PROVE  Sure
<1> DEFINE g == "field_execution"
<1>0. /\ g \in Names
      /\ Subgraphs[g] = OnSite \cup Found \cup {"open_field_visit", "request_additional_field_tests",
                                                "abandon_handover"}
  BY NameList DEF Subgraphs, OnSite, Found
<1>a. pc \in Subgraphs[g] =>
        /\ case \in Case /\ Here(pc, case) /\ case.mr # "awaiting_osp"
        /\ pc # "open_field_visit" => case.order = "open"
        /\ pc \in Found => case.finding # "none"
        /\ pc = "open_field_visit" /\ status # "field_in_progress" /\ case.order = "open"
             => status = "dispatch_planning"
  <2>1. pc \in Subgraphs[g] => pc \notin Following
    BY DEF Subgraphs, Following
  <2> QED BY <1>0, <2>1, NodeNames, Standing, VisitStages DEF At, Inputs, Tied, Here, Clear
<1>b. ASSUME NEW p \in {"evaluate_handover_policy", "build_handover_contract",
                        "close_clean_boots_visit"}, NEW d, Here(p, d), d.order = "open",
             d.finding # "none", NEW o
      PROVE  At(p, "field_in_progress", o, d)
  <2>1. p \in Subgraphs.field_execution /\ p \in OnSite
    BY DEF Subgraphs, OnSite
  <2>2. Inputs(p, "field_in_progress", d)
    BY <1>b DEF Inputs, InSession
  <2> QED BY <1>b, <2>1, <2>2, VisitStages, AtVisit
<1>c. ASSUME NEW p \in {"open_field_visit", "capture_field_evidence", "determine_delimiter",
                        "request_additional_field_tests"}, NEW d, Here(p, d), d.order = "open", NEW o
      PROVE  At(p, "field_in_progress", o, d)
  <2>1. p \in Subgraphs.field_execution /\ (p \in OnSite \/ p = "open_field_visit"
                                              \/ p = "request_additional_field_tests")
    BY DEF Subgraphs, OnSite
  <2>2. Inputs(p, "field_in_progress", d)
    BY <1>c DEF Inputs, InSession, Found
  <2> QED BY <1>c, <2>1, <2>2, VisitStages, AtVisit
<1> HIDE DEF g
<1> USE <1>0, Hops, Listed
<1>1. CASE OpenFieldVisit
  <2>1. pc = "open_field_visit"
    BY <1>1 DEF OpenFieldVisit, Quiet, Node, Write
  <2>2. CASE case.order = "open"
    <3>1. Node("open_field_visit", "field_in_progress", case, "capture_field_evidence")
      BY <1>1, <2>2 DEF OpenFieldVisit
    <3>2. status \in {"field_in_progress", "dispatch_planning"}
      BY <1>a, <2>1, <2>2
    <3>3. "capture_field_evidence" \in Subgraphs[g]
      BY DEF OnSite
    <3> QED BY <1>c, <2>2, <3>1, <3>2, <3>3, InnerStep
  <2>3. CASE case.order # "open"
    <3>1. Quiet("open_field_visit", case, g)
      BY <1>1, <2>3 DEF OpenFieldVisit, End, g
    <3>2. At("open_field_visit", status, outer, case) => status \in {"diagnosing", "dispatch_planning"}
      BY <2>3, VisitStages DEF At, Inputs
    <3> QED BY <1>a, <2>1, <3>1, <3>2, AfterVisit, InnerStep DEF g, Quiet, StatusInv
  <2> QED BY <2>2, <2>3
<1>2. CASE CaptureFieldEvidence
  <2>1. pc = "capture_field_evidence" => case.order = "open" /\ case \in Case
    BY <1>a DEF OnSite
  <2>2. PICK f : LET d == [case EXCEPT !.finding = f]
                 IN Quiet("capture_field_evidence", d,
                          IF f = "done" THEN "close_clean_boots_visit" ELSE "determine_delimiter")
    BY <1>2, <2>1 DEF CaptureFieldEvidence, Needs, Quiet, Node, Write
  <2> DEFINE d == [case EXCEPT !.finding = f]
             next == IF f = "done" THEN "close_clean_boots_visit" ELSE "determine_delimiter"
  <2>3. Quiet("capture_field_evidence", d, next) /\ pc = "capture_field_evidence"
    BY <2>2 DEF Quiet, Node, Write
  <2>4. d.finding = f /\ d.order = "open"
    BY <2>1, <2>3, VisitWrites DEF Differs, Fields
  <2>5. next \in {"close_clean_boots_visit", "determine_delimiter"} /\ next \in Subgraphs[g]
        /\ (next = "close_clean_boots_visit" => d.finding # "none")
    BY <2>4 DEF OnSite
  <2>6. At("capture_field_evidence", status, outer, case) => status = "field_in_progress"
    BY VisitStages DEF At, OnSite
  <2>7. "capture_field_evidence" \in Subgraphs[g]
    BY DEF OnSite
  <2> HIDE DEF d, next
  <2> QED BY <1>b, <1>c, <2>3, <2>4, <2>5, <2>6, <2>7, InnerStep DEF Quiet, StatusInv
<1>3. CASE CloseCleanBootsVisit
  <2>1. pc = "close_clean_boots_visit" =>
          case.order = "open" /\ case.finding # "none" /\ case \in Case /\ case.mr # "awaiting_osp"
    BY <1>a DEF OnSite, Found
  <2>2. PICK f : Node("close_clean_boots_visit", "validating", [OrderClosed(case) EXCEPT !.dom = f], g)
    BY <1>3, <2>1 DEF CloseCleanBootsVisit, Needs, Node, Write, End, g
  <2> DEFINE r == OrderClosed(case)
             d == [r EXCEPT !.dom = f]
  <2>3. pc = "close_clean_boots_visit"
    BY <2>2 DEF Node, Write
  <2>4. r \in Case /\ r.mr = case.mr
    BY <2>1, <2>3, OrderClosedChanges DEF Differs, Fields
  <2> HIDE DEF r
  <2>5. d.mr # "awaiting_osp"
    BY <2>1, <2>3, <2>4, VisitWrites DEF Differs, Fields
  <2>6. Node("close_clean_boots_visit", "validating", d, g)
    BY <2>2 DEF r
  <2>7. At("close_clean_boots_visit", status, outer, case) => status = "field_in_progress"
    BY VisitStages DEF At, OnSite
  <2>8. "close_clean_boots_visit" \in Subgraphs[g]
    BY DEF OnSite
  <2> HIDE DEF d
  <2> QED BY <2>5, <2>6, <2>7, <2>8, AfterVisit, InnerStep DEF g
<1>4. CASE DetermineDelimiter
  <2> DEFINE next == IF case.finding = "plant" THEN "evaluate_handover_policy"
                     ELSE "request_additional_field_tests"
  <2>1. PICK f : Node("determine_delimiter", "field_in_progress", [case EXCEPT !.dom = f], next)
    BY <1>4 DEF DetermineDelimiter
  <2> DEFINE d == [case EXCEPT !.dom = f]
  <2>2. pc = "determine_delimiter"
    BY <2>1 DEF Node, Write
  <2>3. pc \in Subgraphs[g]
    BY <2>2 DEF OnSite
  <2>4. d.order = "open" /\ d.finding = case.finding
    BY <1>a, <2>2, <2>3, VisitWrites DEF Differs, Fields
  <2>5. /\ next \in {"evaluate_handover_policy", "request_additional_field_tests"}
        /\ next \in Subgraphs[g]
        /\ next = "evaluate_handover_policy" => d.finding # "none"
    BY <2>4 DEF Found
  <2>6. At("determine_delimiter", status, outer, case) => status = "field_in_progress"
    BY VisitStages DEF At, OnSite
  <2>7. Node("determine_delimiter", "field_in_progress", d, next)
    BY <2>1
  <2>8. case.order = "open" /\ "determine_delimiter" \in Subgraphs[g]
    BY <1>a, <2>2, <2>3
  <2> HIDE DEF d, next
  <2>9. ASSUME Here(next, d) PROVE At(next, "field_in_progress", outer, d)
    BY <1>b, <1>c, <2>4, <2>5, <2>9
  <2> QED BY <2>5, <2>6, <2>7, <2>8, <2>9, InnerStep
<1>5. CASE RequestAdditionalFieldTests
  <2>1. pc = "request_additional_field_tests"
    BY <1>5 DEF RequestAdditionalFieldTests, Node, Write
  <2>2. At("request_additional_field_tests", status, outer, case) =>
          status \in {"field_in_progress", "awaiting_handover"}
    BY VisitStages DEF At
  <2> QED BY <1>5, <1>a, <1>c, <2>1, <2>2, InnerStep DEF RequestAdditionalFieldTests
<1>6. CASE BuildHandoverContract
  <2>1. pc = "build_handover_contract" =>
          case.order = "open" /\ case.finding # "none" /\ case \in Case
    BY <1>a DEF OnSite, Found
  <2>0. PICK c \in {"complete", "partial"} : \E f :
          Node("build_handover_contract", "awaiting_handover",
               [case EXCEPT !.contract = c, !.dom = f],
               IF c = "complete" THEN "prepare_handover_approval"
               ELSE "request_additional_field_tests")
    BY <1>6, <2>1 DEF BuildHandoverContract, Needs, Node, Write
  <2>2. PICK f :
          Node("build_handover_contract", "awaiting_handover",
               [case EXCEPT !.contract = c, !.dom = f],
               IF c = "complete" THEN "prepare_handover_approval"
               ELSE "request_additional_field_tests")
    BY <2>0
  <2> DEFINE d == [case EXCEPT !.contract = c, !.dom = f]
             next == IF c = "complete" THEN "prepare_handover_approval"
                     ELSE "request_additional_field_tests"
  <2>3. pc = "build_handover_contract"
    BY <2>2 DEF Node, Write
  <2>4. d.contract = c /\ d.order = "open" /\ d.finding # "none"
    BY <2>1, <2>3, CaseFields DEF Differs, Fields
  <2>5. Node("build_handover_contract", "awaiting_handover", d, next)
        /\ next \in {"prepare_handover_approval", "request_additional_field_tests"}
        /\ next \in Subgraphs[g] /\ "build_handover_contract" \in Subgraphs[g]
    BY <2>2 DEF Found
  <2> HIDE DEF d, next
  <2>6. Inputs(next, "awaiting_handover", d)
    BY <2>0, <2>4, <2>5 DEF Inputs, InSession
  <2>7. At("build_handover_contract", status, outer, case) => status = "field_in_progress"
    BY VisitStages DEF At, OnSite
  <2>8. Stage(next, "awaiting_handover") /\ next \in Subgraphs.field_execution
    BY <2>5, VisitStages DEF g
  <2> QED BY <2>5, <2>6, <2>7, <2>8, AtVisit, InnerStep
<1> QED BY <1>1, <1>2, <1>3, <1>4, <1>5, <1>6

\* The question of a handover, and the request to the plant: the one that may raise.
LEMMA HandoverSure ==
  ASSUME ControlInv, CaseInv, CaseInv', StatusInv,
         \/ EvaluateHandoverPolicy \/ PrepareHandoverApproval \/ RequestHandoverApproval
         \/ FilePlantMR \/ AbandonHandover
  PROVE  Sure
<1> DEFINE g == "field_execution"
           here == {"evaluate_handover_policy", "prepare_handover_approval",
                    "request_handover_approval", "file_plant_mr", "abandon_handover"}
<1>0. g \in Names /\ here \subseteq Subgraphs[g] /\ "build_handover_contract" \in Subgraphs[g]
  BY NameList DEF Subgraphs
<1>a. pc \in here =>
        /\ case \in Case /\ Here(pc, case) /\ case.mr # "awaiting_osp" /\ case.order = "open"
        /\ pc # "abandon_handover" => case.finding # "none"
        /\ At(pc, status, outer, case)
  <2>1. pc \in here => pc \notin Following /\ pc \in Nodes
    BY <1>0, NodeNames DEF Subgraphs, Following
  <2> QED BY <1>0, <2>1, Standing DEF At, Inputs, Here, Clear, Found
<1>b. ASSUME NEW p \in here \cup {"build_handover_contract"}, NEW d, Here(p, d), d.order = "open",
             p # "abandon_handover" => d.finding # "none",
             p \in {"prepare_handover_approval", "request_handover_approval"} => d.contract # "none",
             NEW s, s \notin {"diagnosing", "mr_raised"}, Stage(p, s), NEW o,
             p = "file_plant_mr" /\ d.mr = "none" =>
               d.contract # "none" /\ s = "awaiting_approval"
      PROVE  At(p, s, o, d)
  <2>1. p \in Subgraphs.field_execution
    BY <1>0
  <2>2. Inputs(p, s, d)
    BY <1>b DEF Inputs, InSession, Found
  <2> QED BY <1>b, <2>1, <2>2, AtVisit
<1>c. "evaluate_handover_policy" \in OnSite /\ "build_handover_contract" \in OnSite
  BY DEF OnSite
<1> HIDE DEF g
<1> USE <1>0, <1>c, VisitStages, Hops, Listed
<1>1. CASE EvaluateHandoverPolicy
  <2>1. pc = "evaluate_handover_policy"
    BY <1>1 DEF EvaluateHandoverPolicy, Needs, Quiet, Node, Write, Crash
  <2>2. PICK v \in Judgements(case, RaiseMR) :
          LET d == Decide(case, RaiseMR, v)
          IN Quiet("evaluate_handover_policy", d, RouteHandoverGate(d))
    BY <1>1, <1>a, <2>1 DEF EvaluateHandoverPolicy, Needs
  <2> DEFINE d == Decide(case, RaiseMR, v)
  <2>3. RaiseMR \in Actions /\ v \in Outcomes
    BY <1>a, <2>1, JudgementsAreOutcomes DEF Actions
  <2>4. d \in Case /\ Differs(case, d, {"verdict", "due"})
    BY <1>a, <2>1, <2>3, DecideChanges
  <2>5. d.order = "open" /\ d.finding # "none" /\ d.mr = case.mr /\ d.answer = case.answer
    BY <1>a, <2>1, <2>4 DEF Differs, Fields
  <2>6. Quiet("evaluate_handover_policy", d, RouteHandoverGate(d))
    BY <2>2
  <2> HIDE DEF d
  <2>7. RouteHandoverGate(d) \in {"abandon_handover", "build_handover_contract", "file_plant_mr"}
        /\ (RouteHandoverGate(d) = "file_plant_mr" => d.answer["handover"] = "approved")
    BY DEF RouteHandoverGate
  <2>8. RouteHandoverGate(d) = "file_plant_mr" => d.mr # "none"
    BY <1>a, <2>1, <2>5, <2>7 DEF Here, Clear, Filing
  <2>9. status = "field_in_progress"
    BY <1>a, <2>1 DEF At
  <2>10. ASSUME Here(RouteHandoverGate(d), d)
         PROVE  At(RouteHandoverGate(d), "field_in_progress", outer, d)
    BY <1>b, <2>5, <2>7, <2>8, <2>10
  <2> QED BY <2>6, <2>7, <2>9, <2>10, InnerStep DEF Quiet
<1>2. CASE PrepareHandoverApproval
  <2>1. pc = "prepare_handover_approval"
    BY <1>2 DEF PrepareHandoverApproval, Needs, Node, Write, Crash
  <2>2. case.contract # "none" /\ status = "awaiting_handover"
    BY <1>a, <2>1 DEF At, Inputs
  <2>3. Node("prepare_handover_approval", "awaiting_approval", case, "request_handover_approval")
    BY <1>2, <1>a, <2>1, <2>2 DEF PrepareHandoverApproval, Needs
  <2>4. ASSUME Here("request_handover_approval", case)
        PROVE  At("request_handover_approval", "awaiting_approval", outer, case)
    BY <1>a, <1>b, <2>1, <2>2, <2>4
  <2> QED BY <2>2, <2>3, <2>4, InnerStep
<1>3. CASE RequestHandoverApproval
  <2>1. PICK ans \in Answers :
          LET d == Answered(case, "handover", ans)
          IN Quiet("request_handover_approval", d, RouteHandoverGate(d))
    BY <1>3 DEF RequestHandoverApproval
  <2> DEFINE d == Answered(case, "handover", ans)
  <2>2. Quiet("request_handover_approval", d, RouteHandoverGate(d)) /\ pc = "request_handover_approval"
    BY <2>1 DEF Quiet, Node, Write
  <2>3. Differs(case, d, {"answer", "due"}) /\ d.answer["handover"] # "none"
    BY <1>a, <2>2, AnsweredChanges DEF Kinds, Answers
  <2> HIDE DEF d
  <2>4. case.contract # "none" /\ status = "awaiting_approval"
    BY <1>a, <2>2 DEF At, Inputs
  <2>5. d.order = "open" /\ d.finding # "none" /\ d.contract # "none"
    BY <1>a, <2>2, <2>3, <2>4 DEF Differs, Fields
  <2>6. RouteHandoverGate(d) \in {"abandon_handover", "file_plant_mr"}
    BY <2>3 DEF RouteHandoverGate
  <2>7. ASSUME Here(RouteHandoverGate(d), d)
        PROVE  At(RouteHandoverGate(d), "awaiting_approval", outer, d)
    BY <1>b, <2>5, <2>6, <2>7
  <2> QED BY <2>2, <2>4, <2>6, <2>7, InnerStep DEF Quiet
<1>4. CASE FilePlantMR
  <2>1. pc = "file_plant_mr"
    BY <1>4 DEF FilePlantMR, Needs, Node, Write, Crash
  <2>2. CASE \/ case.contract = "none"
             \/ status # "awaiting_approval"
    <3>1. AfterEarlierRequest
      BY <1>a, <2>1, <2>2 DEF AfterEarlierRequest, At, Inputs
    <3>2. \/ Crash("crash:input")
          \/ \E e : Node("file_plant_mr", "mr_raised", e, End("field_execution"))
      BY <1>4, <1>a, <2>1 DEF FilePlantMR, Needs
    <3>3. CASE Crash("crash:input")
      BY <3>1, <3>3, CrashSure DEF Stops
    <3>4. CASE /\ status # "awaiting_approval"
               /\ \E e : Node("file_plant_mr", "mr_raised", e, End("field_execution"))
      <4>1. status = "field_in_progress"
        BY <1>a, <2>1, <3>4 DEF At
      <4>2. ~CanTransition("field_in_progress", "mr_raised")
        BY DEF CanTransition, Transitions, StageTransitions
      <4>3. Crash("crash:status")
        BY <3>4, <4>1, <4>2 DEF Node, Write, Merge
      <4> QED BY <3>1, <4>3, CrashSure DEF Stops
    <3>5. CASE case.contract = "none"
      <4>1. pc = "file_plant_mr" /\ Within("file_plant_mr") => Crash("crash:input")
        BY <1>4, <3>5 DEF FilePlantMR, Needs
      <4>2. Within("file_plant_mr")
        BY <1>4, <2>1 DEF FilePlantMR, Needs, Node, Write
      <4> QED BY <2>1, <3>3, <4>1, <4>2
    <3> QED BY <2>2, <3>2, <3>3, <3>4, <3>5
  <2>3. CASE case.contract # "none" /\ status = "awaiting_approval"
    <3>1. PICK reached \in Reach :
            Node("file_plant_mr", "mr_raised",
                 [Submitted(OrderClosed(case), reached) EXCEPT !.contract = "accepted"], g)
      BY <1>4, <1>a, <2>1, <2>3 DEF FilePlantMR, Needs, End, g
    <3> DEFINE r == OrderClosed(case)
               t == Submitted(r, reached)
               d == [t EXCEPT !.contract = "accepted"]
    <3>2. r \in Case /\ r.mrs = case.mrs
      BY <1>a, <2>1, OrderClosedChanges DEF Differs, Fields
    <3>3. case.mrs < MaxMRs /\ reached \in BOOLEAN
      BY <1>a, <2>1, CatalogueAssumption DEF Here, Decided, Sending, HandingOver
    <3> HIDE DEF r
    <3>4. t \in Case /\ t.mr = "awaiting_osp"
      BY <3>2, <3>3, SubmittedChanges
    <3> HIDE DEF t
    <3>5. d.mr = "awaiting_osp"
      BY <3>4, VisitWrites DEF Differs, Fields
    <3>6. Node("file_plant_mr", "mr_raised", d, g)
      BY <3>1 DEF r, t
    <3> HIDE DEF d
    <3> QED BY <2>3, <3>5, <3>6, AfterRequest, InnerStep DEF g
  <2> QED BY <2>2, <2>3
<1>5. CASE AbandonHandover
  <2> DEFINE r == OrderClosed(case)
             d == [r EXCEPT !.contract = IF r.contract = "none" THEN r.contract ELSE "rejected"]
  <2>1. Node("abandon_handover", "diagnosing", d, g) /\ pc = "abandon_handover"
    BY <1>5 DEF AbandonHandover, End, g, Node, Write
  <2>2. r \in Case /\ r.mr = case.mr
    BY <1>a, <2>1, OrderClosedChanges DEF Differs, Fields
  <2> HIDE DEF r
  <2>3. d.mr # "awaiting_osp"
    BY <1>a, <2>1, <2>2, VisitWrites DEF Differs, Fields
  <2>4. status \in {"field_in_progress", "awaiting_approval"}
    BY <1>a, <2>1 DEF At
  <2> HIDE DEF d
  <2> QED BY <2>1, <2>3, <2>4, AfterVisit, InnerStep DEF g
<1> QED BY <1>1, <1>2, <1>3, <1>4, <1>5

\* Every node of the field.
LEMMA FieldSure ==
  ASSUME ControlInv, CaseInv, CaseInv', StatusInv, FieldNext PROVE Sure
BY PlanningSure, OnSiteSure, HandoverSure DEF FieldNext

\* The statuses of the plant.
LEMMA PlantStages ==
  ASSUME NEW s
  PROVE  /\ Stage("evaluate_plant_referral", s) <=> s = "diagnosing"
         /\ \A p \in {"prepare_plant_referral_approval", "file_plant_referral_mr",
                      "abandon_plant_referral"} :
              Stage(p, s) <=> s \in {"diagnosing", "awaiting_approval"}
         /\ Stage("request_plant_referral_approval", s) <=> s = "awaiting_approval"
         /\ Stage("plant_referral", s) <=> s \in {"diagnosing", "mr_raised"}
         /\ \A p \in {"search_plant_mr", "plant_execution"} :
              Stage(p, s) <=> s \in Left \cup {"mr_raised"}
         /\ \A p \in {"update_plant_mr", "capture_plant_evidence"} :
              Stage(p, s) <=> s \in {"mr_raised", "awaiting_plant_repair"}
BY DEF Stage, Intake, Diagnosing, Asked, Gated, Scheduled, OnSite

\* A plant request referred from the desk.
LEMMA ReferralSure ==
  ASSUME ControlInv, CaseInv, CaseInv', StatusInv,
         \/ EvaluatePlantReferral \/ PreparePlantReferralApproval \/ RequestPlantReferralApproval
         \/ FilePlantReferralMR \/ AbandonPlantReferral
  PROVE  Sure
<1> DEFINE g == "plant_referral"
<1>0. /\ g \in Names /\ Subgraphs[g] \cap Engaged = {}
      /\ Subgraphs[g] = Referring \cup {"evaluate_plant_referral", "abandon_plant_referral"}
  BY NameList DEF Subgraphs, Engaged, Visiting, Following, InSession, Referring
<1>a. pc \in Subgraphs[g] =>
        /\ case \in Case /\ Here(pc, case) /\ case.mr # "awaiting_osp"
        /\ pc \in Referring => case.mr = "none"
        /\ At(pc, status, outer, case)
  <2>1. pc \in Subgraphs[g] => pc \notin Following /\ pc \in Nodes
    BY <1>0, NodeNames DEF Subgraphs, Following
  <2> QED BY <2>1, Standing DEF Here, Clear, Decided, Sending
<1>b. ASSUME NEW d, Here(g, d), NEW s \in {"diagnosing", "mr_raised"}, NEW o,
             d.mr = "awaiting_osp" <=> s = "mr_raised"
      PROVE  At(g, s, o, d)
  <2>1. d.order # "open"
    BY <1>b DEF Here, Clear, Visiting, Subgraphs
  <2> QED BY <1>b, <2>1, PlantStages DEF At, Inputs, Tied, InSession, Found, Subgraphs
<1> HIDE DEF g
<1> USE <1>0, PlantStages, Hops, Listed
<1>1. CASE EvaluatePlantReferral
  <2>1. PICK d \in IF case.mr # "none" THEN {case}
                   ELSE {Decide(case, RaiseMR, v) : v \in Judgements(case, RaiseMR)} :
          Quiet("evaluate_plant_referral", d, RoutePlantReferralGate(d))
    BY <1>1 DEF EvaluatePlantReferral
  <2>2. pc = "evaluate_plant_referral"
    BY <2>1 DEF Quiet, Node, Write
  <2>3. status = "diagnosing" /\ case.mr # "awaiting_osp" /\ case \in Case
    BY <1>a, <2>2 DEF At
  <2>4. d.mr = case.mr
    <3>1. CASE d = case
      BY <3>1
    <3>2. CASE \E v \in Judgements(case, RaiseMR) : d = Decide(case, RaiseMR, v)
      <4>1. PICK v \in Judgements(case, RaiseMR) : d = Decide(case, RaiseMR, v)
        BY <3>2
      <4>2. RaiseMR \in Actions /\ v \in Outcomes
        BY <2>3, JudgementsAreOutcomes DEF Actions
      <4>3. Differs(case, d, {"verdict", "due"})
        BY <2>3, <4>1, <4>2, DecideChanges
      <4> QED BY <4>3 DEF Differs, Fields
    <3> QED BY <2>1, <3>1, <3>2
  <2>5. RoutePlantReferralGate(d) \in {g, "abandon_plant_referral", "prepare_plant_referral_approval",
                                       "file_plant_referral_mr"}
    BY DEF RoutePlantReferralGate, End, g
  <2>6. CASE RoutePlantReferralGate(d) = g
    <3>1. ASSUME Here(g, d) PROVE At(g, "diagnosing", outer, d)
      BY <1>b, <2>3, <2>4, <3>1
    <3> QED BY <2>1, <2>3, <2>6, <3>1, InnerStep DEF Quiet
  <2>7. CASE RoutePlantReferralGate(d) # g
    BY <2>1, <2>5, <2>7, InnerQuiet DEF Referring
  <2> QED BY <2>6, <2>7
<1>2. CASE PreparePlantReferralApproval
  BY <1>2, InnerIdle DEF PreparePlantReferralApproval, Referring
<1>3. CASE RequestPlantReferralApproval
  <2>1. PICK ans \in Answers :
          LET d == Answered(case, "handover", ans)
          IN Quiet("request_plant_referral_approval", d, RoutePlantReferralGate(d))
    BY <1>3 DEF RequestPlantReferralApproval
  <2> DEFINE d == Answered(case, "handover", ans)
  <2>2. Quiet("request_plant_referral_approval", d, RoutePlantReferralGate(d))
        /\ pc = "request_plant_referral_approval"
    BY <2>1 DEF Quiet, Node, Write
  <2>3. pc \in Referring
    BY <2>2 DEF Referring
  <2>4. Differs(case, d, {"answer", "due"}) /\ case.mr = "none"
    BY <1>a, <2>3, AnsweredChanges DEF Kinds
  <2> HIDE DEF d
  <2>5. d.mr = "none"
    BY <2>4 DEF Differs, Fields
  <2>6. RoutePlantReferralGate(d) \in {"abandon_plant_referral", "prepare_plant_referral_approval",
                                       "file_plant_referral_mr"}
    BY <2>5 DEF RoutePlantReferralGate
  <2> QED BY <2>2, <2>6, InnerQuiet DEF Referring
<1>4. CASE FilePlantReferralMR
  <2>1. PICK reached \in Reach :
          Node("file_plant_referral_mr", "mr_raised", Submitted(case, reached), g)
    BY <1>4 DEF FilePlantReferralMR, End, g
  <2>2. pc = "file_plant_referral_mr"
    BY <2>1 DEF Node, Write
  <2>3. pc \in Referring
    BY <2>2 DEF Referring
  <2>4. case \in Case /\ case.mrs < MaxMRs /\ reached \in BOOLEAN
        /\ status \in {"diagnosing", "awaiting_approval"}
    BY <1>a, <2>2, <2>3, CatalogueAssumption DEF Here, Decided, Sending, At
  <2> DEFINE d == Submitted(case, reached)
  <2>5. d.mr = "awaiting_osp" /\ Node("file_plant_referral_mr", "mr_raised", d, g)
    BY <2>1, <2>4, SubmittedChanges
  <2> HIDE DEF d
  <2>6. ASSUME Here(g, d) PROVE At(g, "mr_raised", outer, d)
    BY <1>b, <2>5, <2>6
  <2> QED BY <2>2, <2>3, <2>4, <2>5, <2>6, InnerStep
<1>5. CASE AbandonPlantReferral
  <2>1. pc = "abandon_plant_referral" /\ Merge(pc, TRUE, "escalated", TRUE, case, g)
    BY <1>5 DEF AbandonPlantReferral, Write, End, g
  <2>2. pc \in Nodes /\ pc \in InnerNodes
    BY <2>1, NodeNames DEF InnerNodes, Names
  <2> QED BY <2>1, <2>2, EscalatedStep
<1> QED BY <1>1, <1>2, <1>3, <1>4, <1>5

\* A plant request that is followed.
LEMMA FollowSure ==
  ASSUME ControlInv, CaseInv, CaseInv', StatusInv,
         SearchPlantMR \/ UpdatePlantMR \/ CapturePlantEvidence
  PROVE  Sure
<1> DEFINE g == "plant_execution"
<1>0. /\ g \in Names
      /\ Subgraphs[g] = {"search_plant_mr", "update_plant_mr", "capture_plant_evidence"}
  BY NameList DEF Subgraphs
<1>a. pc \in Subgraphs[g] => case \in Case /\ At(pc, status, outer, case) /\ status = outer
  BY <1>0, NodeNames, Standing DEF At, Tied
<1>b. ASSUME NEW p \in Subgraphs[g] \cup {g}, NEW d, Here(p, d), NEW s, NEW o, Stage(p, s),
             p \in {"update_plant_mr", "capture_plant_evidence"} => d.mr = "awaiting_osp",
             d.mr = "awaiting_osp" => s \in {"mr_raised", "awaiting_plant_repair"},
             s = "mr_raised" => d.mr = "awaiting_osp",
             \/ s = o
             \/ p = g /\ s = "awaiting_plant_repair" /\ o = "mr_raised"
      PROVE  At(p, s, o, d)
  <2>1. d.order # "open"
    BY <1>0, <1>b DEF Here, Clear, Visiting, Subgraphs
  <2>2. Inputs(p, s, d)
    BY <1>0, <1>b DEF Inputs, InSession, Found, Subgraphs
  <2>3. p = g => p \notin Subgraphs.plant_execution
    BY DEF Subgraphs
  <2> QED BY <1>b, <2>1, <2>2, <2>3 DEF At, Tied
<1> HIDE DEF g
<1> USE <1>0, PlantStages, Hops, Listed
<1>1. CASE SearchPlantMR
  <2> DEFINE next == IF case.mr = "awaiting_osp" THEN "update_plant_mr" ELSE g
  <2>1. Quiet("search_plant_mr", case, next) /\ pc = "search_plant_mr"
    BY <1>1 DEF SearchPlantMR, Quiet, Node, Write, End, g
  <2>2. /\ case.mr = "awaiting_osp" => status \in {"mr_raised", "awaiting_plant_repair"}
        /\ status = "mr_raised" => case.mr = "awaiting_osp"
        /\ status = outer /\ status \in Left \cup {"mr_raised"}
    BY <1>a, <2>1 DEF At, Tied
  <2>3. ASSUME Here(next, case) PROVE At(next, status, outer, case)
    BY <1>b, <2>2, <2>3 DEF g
  <2>4. next \in Subgraphs[g] \cup {g}
    OBVIOUS
  <2> HIDE DEF next
  <2> QED BY <2>1, <2>3, <2>4, InnerStep DEF Quiet, StatusInv
<1>2. CASE UpdatePlantMR
  <2>1. pc = "update_plant_mr"
    BY <1>2 DEF UpdatePlantMR, Needs, Quiet, Node, Write, Crash
  <2>2. /\ case.mr = "awaiting_osp" /\ case \in Case
        /\ status = outer /\ status \in {"mr_raised", "awaiting_plant_repair"}
    BY <1>a, <2>1 DEF At, Inputs
  <2>3. PICK d \in {case} \cup {Chased(case, v) : v \in Verdicts[UpdateMR]} :
          Quiet("update_plant_mr", d, "capture_plant_evidence")
    BY <1>2, <2>1, <2>2 DEF UpdatePlantMR, Needs
  <2>4. d.mr = "awaiting_osp"
    BY <2>2, ChasedChanges DEF Differs, Fields
  <2>5. ASSUME Here("capture_plant_evidence", d)
        PROVE  At("capture_plant_evidence", status, outer, d)
    BY <1>b, <2>2, <2>4, <2>5
  <2> QED BY <2>3, <2>5, InnerStep DEF Quiet, StatusInv
<1>3. CASE CapturePlantEvidence
  <2>1. pc = "capture_plant_evidence"
    BY <1>3 DEF CapturePlantEvidence, Needs, Node, Write, Crash
  <2>2. /\ case.mr = "awaiting_osp"
        /\ status = outer /\ status \in {"mr_raised", "awaiting_plant_repair"}
    BY <1>a, <2>1 DEF At, Inputs
  <2>3. PICK d : Node("capture_plant_evidence", "awaiting_plant_repair", d, g)
    BY <1>3, <2>1, <2>2 DEF CapturePlantEvidence, Needs, End, g
  <2>4. ASSUME Here(g, d) PROVE At(g, "awaiting_plant_repair", outer, d)
    BY <1>b, <2>2, <2>4 DEF Left, g
  <2> QED BY <2>2, <2>3, <2>4, InnerStep
<1> QED BY <1>1, <1>2, <1>3

\* Every node of the plant.
LEMMA PlantSure ==
  ASSUME ControlInv, CaseInv, CaseInv', StatusInv, PlantNext PROVE Sure
BY ReferralSure, FollowSure DEF PlantNext

\* The statuses of the stability window and of closure.
LEMMA RestorationStages ==
  ASSUME NEW s
  PROVE  /\ \A p \in {"await_service_stability", "snapshot_post_fix_state"} :
              Stage(p, s) <=> s \in Left \cup {"remote_resolution"}
         /\ \A p \in {"assess_restoration", "restoration_validation"} :
              Stage(p, s) <=> s = "validating"
         /\ Stage("reconcile_linked_systems", s) <=> s \in {"validating", "reconciling"}
         /\ \A p \in {"hold_for_reconciliation_retry", "evaluate_closure_policy",
                      "prepare_exceptional_closure_approval"} : Stage(p, s) <=> s = "reconciling"
         /\ Stage("request_exceptional_closure_approval", s) <=> s = "awaiting_approval"
         /\ \A p \in {"close_linked_records", "abandon_closure"} :
              Stage(p, s) <=> s \in {"reconciling", "awaiting_approval"}
         /\ \A p \in {"record_chronic_pattern", "update_kpis_and_learning"} :
              Stage(p, s) <=> s = "resolved"
         /\ Stage("reconciliation_closure", s) <=> s = "closed"
BY DEF Stage, Intake, Diagnosing, Asked, Gated, Scheduled, OnSite

\* Every node of the stability window.
LEMMA WindowSure ==
  ASSUME ControlInv, CaseInv, CaseInv', StatusInv,
         AwaitServiceStability \/ SnapshotPostFixState \/ AssessRestoration
  PROVE  Sure
<1> DEFINE g == "restoration_validation"
<1>0. /\ g \in Names /\ (Subgraphs[g] \cup {g}) \cap Engaged = {}
      /\ Subgraphs[g] = {"await_service_stability", "snapshot_post_fix_state", "assess_restoration"}
  BY NameList DEF Subgraphs, Engaged, Visiting, Following, InSession
<1> HIDE DEF g
<1> USE <1>0, RestorationStages, Hops, Listed
<1>1. CASE AwaitServiceStability
  BY <1>1, InnerQuiet DEF AwaitServiceStability, Left
<1>2. CASE SnapshotPostFixState
  BY <1>2, InnerIdle DEF SnapshotPostFixState
<1>3. CASE AssessRestoration
  BY <1>3, InnerQuiet DEF AssessRestoration, End, g
<1> QED BY <1>1, <1>2, <1>3

\* Every node of reconciliation and closure.
LEMMA ClosureSure ==
  ASSUME ControlInv, CaseInv, CaseInv', StatusInv,
         \/ ReconcileLinkedSystems \/ HoldForReconciliationRetry
         \/ EvaluateClosurePolicy \/ PrepareExceptionalClosureApproval
         \/ RequestExceptionalClosureApproval \/ AbandonClosure \/ CloseLinkedRecords
         \/ RecordChronicPattern \/ UpdateKpisAndLearning
  PROVE  Sure
<1> DEFINE g == "reconciliation_closure"
<1>0. /\ g \in Names /\ (Subgraphs[g] \cup {g}) \cap Engaged = {}
      /\ Subgraphs[g] =
           {"reconcile_linked_systems", "hold_for_reconciliation_retry", "evaluate_closure_policy",
            "prepare_exceptional_closure_approval", "request_exceptional_closure_approval",
            "abandon_closure", "close_linked_records", "record_chronic_pattern",
            "update_kpis_and_learning"}
  BY NameList DEF Subgraphs, Engaged, Visiting, Following, InSession
<1>a. ASSUME NEW n \in Subgraphs[g], NEW d, Write(n, "escalated", TRUE, d, g) PROVE Sure
  <2>1. pc = n /\ Merge(pc, TRUE, "escalated", TRUE, d, g)
    BY <1>a DEF Write
  <2>2. pc \in Nodes /\ pc \in InnerNodes /\ g \in Names
    BY <1>0, <1>a, <2>1, NodeNames DEF InnerNodes, Names
  <2> QED BY <2>1, <2>2, EscalatedStep
<1> HIDE DEF g
<1> USE <1>0, RestorationStages, Hops, Listed
<1>1. CASE ReconcileLinkedSystems
  <2>1. PICK r, d : Node("reconcile_linked_systems", "reconciling", d,
                        IF r = "consistent" THEN "evaluate_closure_policy"
                        ELSE "hold_for_reconciliation_retry")
    BY <1>1 DEF ReconcileLinkedSystems
  <2> DEFINE next == IF r = "consistent" THEN "evaluate_closure_policy"
                     ELSE "hold_for_reconciliation_retry"
  <2>2. next \in {"evaluate_closure_policy", "hold_for_reconciliation_retry"}
    OBVIOUS
  <2>3. Node("reconcile_linked_systems", "reconciling", d, next)
    BY <2>1
  <2> HIDE DEF next
  <2>4. /\ "reconcile_linked_systems" \in Subgraphs[g]
        /\ next \in Subgraphs[g] /\ next \notin Engaged
    BY <2>2
  <2>5. /\ Stage("reconcile_linked_systems", status) => CanTransition(status, "reconciling")
        /\ Stage(next, "reconciling") /\ "reconciling" \in Statuses
    BY <2>2
  <2> QED BY <2>3, <2>4, <2>5, InnerIdle
<1>2. CASE HoldForReconciliationRetry
  <2>1. PICK d : \/ Write("hold_for_reconciliation_retry", "escalated", TRUE, d, g)
                 \/ Quiet("hold_for_reconciliation_retry", d, "reconcile_linked_systems")
    BY <1>2 DEF HoldForReconciliationRetry, End, g
  <2>2. CASE Write("hold_for_reconciliation_retry", "escalated", TRUE, d, g)
    BY <1>a, <2>2
  <2>3. CASE Quiet("hold_for_reconciliation_retry", d, "reconcile_linked_systems")
    BY <2>3, InnerQuiet
  <2> QED BY <2>1, <2>2, <2>3
<1>3. CASE EvaluateClosurePolicy
  <2>1. PICK d : Quiet("evaluate_closure_policy", d, RouteClosureGate(d))
    BY <1>3 DEF EvaluateClosurePolicy
  <2>2. RouteClosureGate(d) \in {"close_linked_records", "abandon_closure",
                                 "prepare_exceptional_closure_approval"}
    BY DEF RouteClosureGate
  <2> QED BY <2>1, <2>2, InnerQuiet
<1>4. CASE PrepareExceptionalClosureApproval
  BY <1>4, InnerIdle DEF PrepareExceptionalClosureApproval
<1>5. CASE RequestExceptionalClosureApproval
  <2>1. PICK ans \in Answers :
          LET d == Answered(case, "closure", ans)
          IN Quiet("request_exceptional_closure_approval", d, RouteClosureGate(d))
    BY <1>5 DEF RequestExceptionalClosureApproval
  <2> DEFINE d == Answered(case, "closure", ans)
  <2>2. Quiet("request_exceptional_closure_approval", d, RouteClosureGate(d))
    BY <2>1
  <2>3. d.answer["closure"] # "none"
    BY CaseIsSound, AnsweredChanges DEF Kinds, Answers
  <2> HIDE DEF d
  <2>4. RouteClosureGate(d) \in {"close_linked_records", "abandon_closure"}
    BY <2>3 DEF RouteClosureGate
  <2> QED BY <2>2, <2>4, InnerQuiet
<1>6. CASE AbandonClosure
  BY <1>6, <1>a DEF AbandonClosure, End, g
<1>7. CASE CloseLinkedRecords
  <2>1. pc = "close_linked_records"
    BY <1>7 DEF CloseLinkedRecords, Needs, Node, Write, Crash
  <2>2. Here("close_linked_records", case)
    BY <2>1, NodeNames, Standing
  <2>3. IF case.verdict[Close] = "closure" THEN case.answer["closure"] # "none"
        ELSE case.validation = "passed"
    BY <2>2 DEF Here, Decided, Ending, Closing, Proven
  <2> DEFINE kind == IF case.verdict[Close] = "closure" THEN "exceptional" ELSE "normal"
             there == IF kind = "normal" THEN case.validation = "passed"
                      ELSE case.answer["closure"] # "none"
  <2>4. there
    BY <2>3
  <2>5. Needs("close_linked_records", there,
              \E next \in {"record_chronic_pattern", "update_kpis_and_learning"} :
                Node("close_linked_records", "resolved", [case EXCEPT !.closure = kind], next))
    BY <1>7 DEF CloseLinkedRecords
  <2> HIDE DEF kind, there
  <2>6. PICK next \in {"record_chronic_pattern", "update_kpis_and_learning"} :
          Node("close_linked_records", "resolved", [case EXCEPT !.closure = kind], next)
    BY <2>4, <2>5 DEF Needs
  <2> QED BY <2>6, InnerIdle
<1>8. CASE RecordChronicPattern
  BY <1>8, InnerQuiet DEF RecordChronicPattern
<1>9. CASE UpdateKpisAndLearning
  BY <1>9, InnerIdle DEF UpdateKpisAndLearning, End, g
<1> QED BY <1>1, <1>2, <1>3, <1>4, <1>5, <1>6, <1>7, <1>8, <1>9

\* Every node of preventive maintenance.
LEMMA PreventiveSure ==
  ASSUME ControlInv, CaseInv, CaseInv', StatusInv, PreventiveNext PROVE Sure
<1> DEFINE g == "preventive_maintenance"
<1>0. /\ g \in Names /\ (Subgraphs[g] \cup {g}) \cap Engaged = {}
      /\ Subgraphs[g] = Treatments \cup {"assess_predictive_risk", "open_preventive_case"}
  BY NameList DEF Subgraphs, Engaged, Visiting, Following, InSession, Treatments
<1>a. ASSUME NEW s
      PROVE  /\ Stage("assess_predictive_risk", s) <=> s = "triaging"
             /\ \A p \in Treatments \cup {"open_preventive_case", g} : Stage(p, s) <=> s = "diagnosing"
  BY DiagnosisStages DEF Intake, Treatments, Stage, Diagnosing, Asked, Gated, Scheduled, OnSite
<1> HIDE DEF g
<1> USE <1>0, <1>a, Hops, Listed
<1>1. CASE AssessPredictiveRisk
  BY <1>1, InnerIdle DEF AssessPredictiveRisk
<1>2. CASE OpenPreventiveCase
  BY <1>2, InnerQuiet DEF OpenPreventiveCase
<1>3. CASE PreventiveTreatment
  BY <1>3, InnerQuiet DEF PreventiveTreatment, End, g
<1> QED BY <1>1, <1>2, <1>3 DEF PreventiveNext

\* The plant's part is entered with what the lifecycle lets it follow.
LEMMA ToPlant ==
  ASSUME NEW d, NEW p \in Following, NEW s \in Left \cup {"mr_raised"}, NEW o, Tied(p, s, o, d),
         Here("search_plant_mr", d)
  PROVE  Lands("search_plant_mr", s, d)
<1>1. "search_plant_mr" \in Subgraphs["plant_execution"] /\ "plant_execution" \in Names
  BY NameList DEF Subgraphs
<1>2. "search_plant_mr" \in Nodes
  BY <1>1, NodeNames
<1>3. Stage("search_plant_mr", s) /\ Entered("plant_execution", s) /\ s \notin Over
  BY PlantStages DEF Entered, Left, Over
<1>4. d.order # "open"
  BY DEF Here, Clear, Visiting, Subgraphs
<1>5. Inputs("search_plant_mr", s, d)
  BY DEF Inputs, InSession, Found, Subgraphs
<1>6. At("search_plant_mr", s, s, d)
  BY <1>3, <1>4, <1>5 DEF At, Tied
<1> QED BY <1>1, <1>2, <1>3, <1>6, Apart DEF Lands

\* Where the parent lands after a subgraph: where only the status matters there.
LEMMA ReturnsIdle ==
  ASSUME ControlInv, CaseInv, CaseInv', StatusInv, NEW g \in Names, NEW next, Return(g, next),
         next = "END" \/ next \in Nodes \ Engaged,
         Stage(g, status) /\ Entered(g, outer) /\ Tied(g, status, outer, case)
           => /\ CanTransition(outer, status)
              /\ next # "END" =>
                   /\ status # "mr_raised" /\ Stage(next, status)
                   /\ next \in ParentNodes \/ \E h \in Names : next \in Subgraphs[h] /\ Entered(h, status)
  PROVE  Sure
<1>1. ASSUME next \in Nodes => Here(next, case), At(g, status, outer, case), Entered(g, outer)
      PROVE  Lands(next, status, case)
  <2>1. CASE next = "END"
    BY <2>1 DEF Lands
  <2>2. CASE next # "END"
    BY <1>1, <2>2, Lit DEF At
  <2> QED BY <2>1, <2>2
<1> QED BY <1>1, ReturnStep

\* Every return of a subgraph.
LEMMA ReturnsSure ==
  ASSUME ControlInv, CaseInv, CaseInv', StatusInv, Returns PROVE Sure
<1> DEFINE after == {"await_service_stability", "assemble_case_evidence", "build_field_requirement",
                     "determine_root_cause", "confirm_customer_outcome"}
<1>0. /\ after \subseteq Nodes \ Engaged
      /\ {"assemble_case_evidence", "determine_root_cause", "confirm_customer_outcome"}
           \subseteq ParentNodes
      /\ "build_field_requirement" \in Subgraphs["field_planning"]
      /\ "await_service_stability" \in Subgraphs["restoration_validation"]
  <2>1. after \cap Engaged = {}
    BY DEF Engaged, Visiting, Following, InSession, Subgraphs
  <2>2. after \subseteq ParentNodes \cup Subgraphs["field_planning"]
                          \cup Subgraphs["restoration_validation"]
    BY DEF ParentNodes, Subgraphs
  <2> QED BY <2>1, <2>2, NodeNames, NameList DEF ParentNodes, Subgraphs
<1>a. ASSUME NEW p \in after \ {"confirm_customer_outcome"}, NEW s \in Left,
             p # "assemble_case_evidence" \/ s = "diagnosing"
      PROVE  /\ Stage(p, s) /\ s # "mr_raised"
             /\ p \in ParentNodes \/ \E h \in Names : p \in Subgraphs[h] /\ Entered(h, s)
  <2>1. Stage(p, s)
    BY <1>a DEF Stage
  <2>2. Entered("field_planning", s) /\ Entered("restoration_validation", s)
    BY <1>a DEF Entered
  <2> QED BY <1>0, <1>a, <2>1, <2>2, NameList DEF Left
<1>b. /\ {"field_execution", "plant_referral", "plant_execution"} \subseteq Following
      /\ "search_plant_mr" \in Nodes
  BY NodeNames, NameList DEF Following, Subgraphs
<1> USE NameList, Hops, Listed
<1>1. CASE Return("remote_resolution", RouteRemoteOutcome(case))
  <2>1. RouteRemoteOutcome(case) \in {"await_service_stability", "assemble_case_evidence"}
    BY DEF RouteRemoteOutcome
  <2>2. Stage("remote_resolution", status) => status \in {"diagnosing", "remote_resolution"}
    BY RemoteStages
  <2>3. /\ Entered("remote_resolution", outer) => outer = "diagnosing"
        /\ Entered("restoration_validation", "remote_resolution")
        /\ Entered("restoration_validation", "diagnosing")
    BY DEF Entered, Left
  <2>4. \A s \in {"diagnosing", "remote_resolution"} :
          Stage("await_service_stability", s) /\ Stage("assemble_case_evidence", s)
    BY RestorationStages, DiagnosisStages DEF Left
  <2> QED BY <1>0, <1>1, <2>1, <2>2, <2>3, <2>4, ReturnsIdle
<1>2. CASE Return("self_help", RouteSelfHelpOutcome(case))
  <2>1. RouteSelfHelpOutcome(case) \in {"await_service_stability", "build_field_requirement",
                                        "determine_root_cause"}
    BY DEF RouteSelfHelpOutcome
  <2>2. Stage("self_help", status) => status \in {"diagnosing", "self_help"} /\ status \in Left
    BY SelfHelpStages DEF Left
  <2>3. Entered("self_help", outer) => outer = "diagnosing"
    BY DEF Entered
  <2> QED BY <1>0, <1>2, <1>a, <2>1, <2>2, <2>3, ReturnsIdle
<1>3. CASE Return("field_planning", "open_field_visit")
  <2>1. Stage("field_planning", status) => status \in {"diagnosing", "dispatch_planning"}
    BY PlanningStages
  <2>2. Entered("field_planning", outer) => outer \in Left
    BY DEF Entered
  <2>3. "open_field_visit" \in Subgraphs["field_execution"]
        /\ \A s \in {"diagnosing", "dispatch_planning"} : Entered("field_execution", s)
    BY DEF Subgraphs, Entered
  <2>4. "open_field_visit" \in Nodes
    BY <2>3, NodeNames
  <2>5. ASSUME Here("open_field_visit", case), At("field_planning", status, outer, case)
        PROVE  Lands("open_field_visit", status, case)
    <3>1. status \in {"diagnosing", "dispatch_planning"} /\ (case.order = "open" => status # "diagnosing")
      BY <2>1, <2>5 DEF At, Tied
    <3>2. Inputs("open_field_visit", status, case) /\ Stage("open_field_visit", status)
      BY <3>1, VisitStages DEF Inputs, InSession, Found
    <3>3. case.mr # "awaiting_osp" /\ "open_field_visit" \notin Subgraphs.plant_execution
      BY <2>5 DEF Here, Clear, Following, Subgraphs
    <3>4. At("open_field_visit", status, status, case)
      BY <3>1, <3>2, <3>3 DEF At, Tied
    <3>5. \A h \in Names : "open_field_visit" \in Subgraphs[h] => Entered(h, status)
      BY <2>3, <3>1, Apart
    <3> QED BY <2>4, <3>1, <3>4, <3>5 DEF Lands, Over
  <2> QED BY <1>3, <2>1, <2>2, <2>4, <2>5, ReturnStep
<1>4. CASE Return("field_execution", RouteCleanBootsOutcome(case))
  <2>1. Stage("field_execution", status) =>
          status \in {"diagnosing", "dispatch_planning", "mr_raised", "validating"}
    BY VisitStages
  <2>2. Entered("field_execution", outer) => outer \in {"diagnosing", "dispatch_planning"}
    BY DEF Entered
  <2>3. \A t \in {"diagnosing", "dispatch_planning"},
           s \in {"diagnosing", "dispatch_planning", "mr_raised", "validating"} : CanTransition(t, s)
    BY DEF Left
  <2>4. pc = "field_execution"
    BY <1>4 DEF Return, End
  <2>5. CASE case.finding = "done"
    <3>1. RouteCleanBootsOutcome(case) = "await_service_stability"
      BY <2>5 DEF RouteCleanBootsOutcome
    <3>2. escalated \/ case.mr # "awaiting_osp"
      BY <2>4, <2>5 DEF CaseInv, Here, Clear, Stops
    <3>3. CASE escalated
      BY <1>4, <3>3, EscalatedReturn
    <3>4. CASE case.mr # "awaiting_osp"
      <4>1. Tied("field_execution", status, outer, case) => status # "mr_raised"
        BY <3>4 DEF Tied
      <4>2. Stage("field_execution", status) /\ status # "mr_raised" => status \in Left
        BY <2>1 DEF Left
      <4> QED BY <1>0, <1>4, <1>a, <2>1, <2>2, <2>3, <3>1, <4>1, <4>2, ReturnsIdle
    <3> QED BY <3>2, <3>3, <3>4
  <2>6. CASE case.finding # "done"
    <3>1. RouteCleanBootsOutcome(case) = "search_plant_mr"
      BY <2>6 DEF RouteCleanBootsOutcome
    <3>2. At("field_execution", status, outer, case) => status \in Left \cup {"mr_raised"}
      BY <2>1 DEF At, Left
    <3> QED BY <1>4, <1>b, <2>1, <2>2, <2>3, <3>1, <3>2, ReturnStep, ToPlant DEF At
  <2> QED BY <2>5, <2>6
<1>5. CASE Return("plant_referral", "search_plant_mr")
  <2>1. Stage("plant_referral", status) => status \in {"diagnosing", "mr_raised"}
    BY PlantStages
  <2>2. Entered("plant_referral", outer) => outer = "diagnosing"
    BY DEF Entered
  <2>3. At("plant_referral", status, outer, case) => status \in Left \cup {"mr_raised"}
    BY <2>1 DEF At, Left
  <2> QED BY <1>5, <1>b, <2>1, <2>2, <2>3, ReturnStep, ToPlant DEF At
<1>6. CASE Return("plant_execution", RoutePlantOutcome(case))
  <2>1. Stage("plant_execution", status) => status \in Left \cup {"mr_raised"}
    BY PlantStages
  <2>2. Stage("plant_execution", status) /\ Tied("plant_execution", status, outer, case)
          => CanTransition(outer, status)
    <3>1. status = outer => CanTransition(outer, status)
      BY DEF StatusInv
    <3> QED BY <3>1 DEF Tied
  <2>3. CASE case.mr = "awaiting_osp"
    <3>1. RoutePlantOutcome(case) = "search_plant_mr"
      BY <2>3 DEF RoutePlantOutcome
    <3> QED BY <1>6, <1>b, <2>1, <2>2, <3>1, ReturnStep, ToPlant DEF At
  <2>4. CASE case.mr # "awaiting_osp"
    <3>1. RoutePlantOutcome(case) \in {"build_field_requirement", "await_service_stability",
                                       "determine_root_cause"}
      BY <2>4 DEF RoutePlantOutcome, RouteResidualImpact
    <3>2. Tied("plant_execution", status, outer, case) => status # "mr_raised"
      BY <2>4 DEF Tied
    <3> QED BY <1>0, <1>6, <1>a, <2>1, <2>2, <3>1, <3>2, ReturnsIdle
  <2> QED BY <2>3, <2>4
<1>7. CASE Return("restoration_validation", RouteStability(case))
  <2>1. RouteStability(case) \in {"confirm_customer_outcome", "await_service_stability",
                                  "determine_root_cause"}
    BY DEF RouteStability
  <2>2. Stage("restoration_validation", status) => status = "validating"
    BY RestorationStages
  <2>3. Entered("restoration_validation", outer) => CanTransition(outer, "validating")
    BY DEF Entered
  <2>4. Stage("confirm_customer_outcome", "validating") /\ "validating" \in Left
    BY DiagnosisStages DEF Left
  <2> QED BY <1>0, <1>7, <1>a, <2>1, <2>2, <2>3, <2>4, ReturnsIdle
<1>8. CASE Return("reconciliation_closure", "END")
  <2>1. /\ Stage("reconciliation_closure", status) => status = "closed"
        /\ Entered("reconciliation_closure", outer) => outer = "validating"
    BY RestorationStages DEF Entered
  <2> QED BY <1>8, <2>1, ReturnsIdle
<1>9. CASE Return("preventive_maintenance", "END")
  <2>1. /\ Stage("preventive_maintenance", status) => status = "diagnosing"
        /\ Entered("preventive_maintenance", outer) => outer = "triaging"
    BY DEF Entered, Stage, Intake, Diagnosing, Asked, Gated, Scheduled, OnSite
  <2> QED BY <1>9, <2>1, ReturnsIdle
<1> QED BY <1>1, <1>2, <1>3, <1>4, <1>5, <1>6, <1>7, <1>8, <1>9 DEF Returns

-----------------------------------------------------------------------------
(* The theorems *)

\* A run starts in order.
LEMMA InitStatus == Init => StatusInv
<1> SUFFICES ASSUME Init PROVE StatusInv
  OBVIOUS
<1>1. pc = "receive_signal" /\ status = "new" /\ outer = "new"
      /\ case.due = {} /\ case.session = "none" /\ case.order = "none" /\ case.mr = "none"
  BY DEF Init
<1>2. pc \in ParentNodes /\ \A g \in Names : pc \notin Subgraphs[g] \cup {g}
  BY <1>1, Apart DEF ParentNodes
<1>3. Stage(pc, status) /\ Nested(pc, status, outer)
  BY <1>1, <1>2, DiagnosisStages DEF Nested
<1>4. Inputs(pc, status, case) /\ Tied(pc, status, outer, case)
  BY <1>1 DEF Inputs, Tied, InSession, Found, Subgraphs
<1> QED BY <1>1, <1>2, <1>3, <1>4, NodeNames, Listed DEF StatusInv, At, Over

\* Every step keeps the invariant, and raises only where it may, or is none.
LEMMA NextStatus ==
  ControlInv /\ CaseInv /\ CaseInv' /\ StatusInv /\ [Next]_vars
    => StatusInv' /\ (Sure \/ UNCHANGED vars)
<1> SUFFICES ASSUME ControlInv, CaseInv, CaseInv', StatusInv, [Next]_vars
             PROVE  StatusInv' /\ (Sure \/ UNCHANGED vars)
  OBVIOUS
<1>1. CASE UNCHANGED vars
  BY <1>1 DEF vars, control, StatusInv
<1>2. CASE Sure
  BY <1>2 DEF Sure
<1>3. CASE Next
  BY <1>1, <1>2, <1>3, DiagnosisSure, RemoteSure, SelfHelpSure, FieldSure, PlantSure,
     WindowSure, ClosureSure,
     PreventiveSure, ReturnsSure, GuardSure DEF Next, RestorationNext, Stopped
<1> QED BY <1>1, <1>3

\* The invariant of the whole graph.
LEMMA StatusInvariant == Spec => [](ControlInv /\ CaseInv /\ StatusInv)
BY InitControl, InitCase, InitStatus, NextControl, NextCase, NextStatus, PTL DEF Spec

\* A node raises, because its input is missing or because the lifecycle forbids its status, only as
\* the plant request of a visit, after an earlier request of the incident: everywhere else
\* `advance_status` accepts what a node or a whole stage writes, and the routers lead no run to a node
\* whose input is not there (`graph/state.py`, `graph/routing.py`).
THEOREM RaisesOnlyForALaterRequest == Spec => OnlyAnEarlierRequestMisleads
<1>1. Sure \/ UNCHANGED vars =>
        [pc' \in {"crash:input", "crash:status"} => AfterEarlierRequest]_vars
  BY DEF Sure
<1> QED
  BY <1>1, NextStatus, NextCase, StatusInvariant, PTL DEF Spec, OnlyAnEarlierRequestMisleads

\* Until the incident asks the plant for something no run of it is lost: no status is refused and no
\* input is missing, whatever the catalogue, the policy and the budgets.
THEOREM NoneLostBeforeARequest == Spec => [](case.mr = "none" => LifecycleHolds /\ InputsArePresent)
<1> DEFINE Lost == pc \in {"crash:input", "crash:status"} => case.mr # "none"
<1>1. Init => Lost
  BY DEF Init
<1>2. Lost /\ (Sure \/ UNCHANGED vars) => Lost'
  BY DEF Sure, AfterEarlierRequest, vars, control
<1>3. Lost => (case.mr = "none" => LifecycleHolds /\ InputsArePresent)
  BY DEF LifecycleHolds, InputsArePresent
<1> HIDE DEF Lost
<1> QED BY <1>1, <1>2, <1>3, NextStatus, NextCase, StatusInvariant, PTL DEF Spec

\* The flag and the counters, whether they are counted or not.
Metering ==
  /\ escalated \in BOOLEAN
  /\ steps \in Nat /\ diagnostic \in Nat /\ resolution \in Nat /\ visits \in [Watched -> Nat]

\* A node's update leaves them typed, accepted or refused.
LEMMA MergeMeters ==
  ASSUME Metering, NEW n, NEW ran, NEW s, NEW esc \in BOOLEAN, NEW e, NEW next,
         Merge(n, ran, s, esc, e, next)
  PROVE  Metering'
<1>1. CASE CanTransition(status, s)
  <2>1. escalated' = esc /\ Tally(n, ran)
    BY <1>1 DEF Merge
  <2>2. steps' \in {steps, steps + 1} /\ diagnostic' \in {diagnostic, diagnostic + 1}
        /\ resolution' \in {resolution, resolution + 1}
    BY <2>1 DEF Tally
  <2>3. visits' = [w \in Watched |-> IF Metered /\ w = n THEN visits[w] + 1 ELSE visits[w]]
    BY <2>1 DEF Tally
  <2>4. visits' \in [Watched -> Nat]
    BY <2>3 DEF Metering
  <2> QED BY <2>1, <2>2, <2>4 DEF Metering
<1>2. CASE ~CanTransition(status, s)
  BY <1>2 DEF Merge, Crash, Metering, meters
<1> QED BY <1>1, <1>2

\* So does every step.
LEMMA NextMetering == Metering /\ [Next]_vars => Metering'
<1> SUFFICES ASSUME Metering, [Next]_vars PROVE Metering'
  OBVIOUS
<1>1. CASE \/ DiagnosisNext \/ RemoteNext \/ SelfHelpNext \/ FieldNext
           \/ PlantNext \/ RestorationNext \/ PreventiveNext
  <2>1. PICK n \in Nodes : StepOf(n)
    BY <1>1, DiagnosisSteps, RemoteSteps, SelfHelpSteps, FieldSteps, PlantSteps,
       RestorationSteps, PreventiveSteps
  <2>2. CASE Runs(n)
    <3>1. PICK s, d, next : Merge(n, TRUE, s, escalated, d, next)
      BY <2>2 DEF Runs, Node, Write
    <3> QED BY <3>1, MergeMeters DEF Metering
  <2>3. CASE Leaves(n)
    <3>1. PICK d, next : Merge(n, TRUE, "escalated", TRUE, d, next)
      BY <2>3 DEF Leaves, Write
    <3> QED BY <3>1, MergeMeters
  <2>4. CASE Fails(n)
    BY <2>4 DEF Fails, Crash, Metering, meters
  <2> QED BY <2>1, <2>2, <2>3, <2>4 DEF StepOf
<1>2. CASE Returns
  <2>1. PICK g, next : Return(g, next)
    BY <1>2 DEF Returns
  <2> QED BY <2>1 DEF Return, Crash, Metering, meters
<1>3. CASE GuardTrips
  BY <1>3, MergeMeters DEF GuardTrips
<1>4. CASE UNCHANGED vars
  BY <1>4 DEF vars, control, meters, Metering
<1> QED BY <1>1, <1>2, <1>3, <1>4 DEF Next, Stopped

\* The state of a run keeps its type: its place is one of the graph's, its statuses are of the
\* lifecycle, and every channel of the case holds what the reducers may leave in it.
THEOREM TypesHold == Spec => []TypeOK
<1>1. Init => Metering
  <2> SUFFICES ASSUME Init PROVE Metering
    OBVIOUS
  <2>1. escalated = FALSE /\ steps = 0 /\ diagnostic = 0 /\ resolution = 0
        /\ visits = [w \in Watched |-> 0]
    BY DEF Init
  <2> QED BY <2>1 DEF Metering
<1>2. CaseInv /\ StatusInv /\ Metering => TypeOK
  <2> SUFFICES ASSUME CaseInv, StatusInv, Metering PROVE TypeOK
    OBVIOUS
  <2>1. case \in Case
    BY CaseIsSound
  <2> QED BY <2>1 DEF TypeOK, Metering, StatusInv, Case, Looks, Requests, Tries
<1> QED BY <1>1, <1>2, NextMetering, StatusInvariant, PTL DEF Spec

-----------------------------------------------------------------------------
(* The contract *)

\* Statuses that say how far a run has come.
Marked == {"new", "triaging", "resolved", "closed"}
\* A run still being taken in has touched nothing, and one that is resolved has its record closed.
Kept ==
  /\ outer \in {"new", "triaging"} => Contract!Untouched
  /\ status \in {"resolved", "closed"} => case.closure # "none"
InOrder == ControlInv /\ CaseInv /\ StatusInv /\ Kept
\* A step that keeps this, and is one of the contract or none of it.
Honest == Kept' /\ [Contract!Next]_(Contract!vars)

\* What the contract sees of a case.
Outside == {"tried", "order", "mr", "closure"}
Same(d, e) == e.tried = d.tried /\ e.order = d.order /\ e.mr = d.mr /\ e.closure = d.closure

\* A node that runs and shows nothing outside, one that hands the incident over, one that raises.
Passes(n) ==
  \E s, e, next : /\ Node(n, s, e, next) /\ next \notin Stops
                  /\ Same(case, e) /\ (s = status \/ s \notin Marked)
HandsOver(n) == \E e, next : Write(n, "escalated", TRUE, e, next) /\ Same(case, e)
Unseen == \E n \in Nodes : Passes(n) \/ HandsOver(n) \/ Fails(n)

\* A record that differs in other fields looks the same from outside.
LEMMA SameOutside ==
  ASSUME NEW d, NEW e, NEW names, Differs(d, e, names), names \cap Outside = {}
  PROVE  Same(d, e)
<1>1. Outside \subseteq Fields \ names
  BY DEF Outside, Fields
<1>2. \A f \in Outside : e[f] = d[f]
  BY <1>1 DEF Differs
<1> QED BY <1>2 DEF Outside, Same

\* So does a case after each helper that neither acts nor closes.
LEMMA HelpersUnseen ==
  ASSUME NEW d \in Case
  PROVE  /\ Same(d, d)
         /\ \A g \in Gathered(d) : Same(d, g)
         /\ \A r \in Read(d) : \A g \in Gathered(r) : g \in Case /\ Same(d, g)
         /\ \A k, ans : Same(d, Answered(d, k, ans))
         /\ \A ans : Same(d, AnsweredOnce(d, ans))
         /\ \A a, v : Same(d, Decide(d, a, v))
         /\ \A options : \A e \in SelectOption(d, options) : Same(d, e)
         /\ Same(d, Repaired(d)) /\ \A v : Same(d, Chased(d, v))
<1> USE DEF Same
<1>0. DOMAIN d = Fields
  BY CaseFields
<1>1. \A g \in Gathered(d) : Same(d, g)
  BY <1>0 DEF Gathered, Fields
<1>2. \A r \in Read(d) : Same(d, r)
  BY <1>0 DEF Read, Fields
<1>3. ASSUME NEW r \in Read(d), NEW g \in Gathered(r) PROVE g \in Case /\ Same(d, g)
  <2>1. r \in Case /\ g \in Case
    BY ReadChanges, GatheredChanges
  <2>2. Differs(r, g, {"data"})
    BY <2>1, GatheredChanges
  <2> QED BY <1>2, <2>1, <2>2, SameOutside DEF Outside
<1>4. \A e, k, ans : DOMAIN e = Fields => Same(e, Answered(e, k, ans)) /\ DOMAIN Answered(e, k, ans) = Fields
  BY DEF Answered, Fields
<1>5. ASSUME NEW ans PROVE Same(d, AnsweredOnce(d, ans))
  <2>1. DOMAIN Answered(d, d.verdict[d.chosen], ans) = Fields
        /\ Same(d, Answered(d, d.verdict[d.chosen], ans))
    BY <1>0, <1>4
  <2> QED BY <2>1 DEF AnsweredOnce, Fields
<1>6. \A e, a, v : DOMAIN e = Fields => Same(e, Decide(e, a, v))
  BY DEF Decide, Fields
<1>7. ASSUME NEW options, NEW e \in SelectOption(d, options) PROVE Same(d, e)
  <2>1. CASE Actionable(d, options) = {}
    BY <2>1 DEF SelectOption
  <2>2. CASE Actionable(d, options) # {}
    <3>1. PICK a \in Actionable(d, options) :
            \E v \in Judgements(d, a) : e = Decide([d EXCEPT !.chosen = a], a, v)
      BY <2>2 DEF SelectOption
    <3>2. PICK v \in Judgements(d, a) : e = Decide([d EXCEPT !.chosen = a], a, v)
      BY <3>1
    <3> DEFINE r == [d EXCEPT !.chosen = a]
    <3>3. DOMAIN r = Fields /\ Same(d, r)
      BY <1>0 DEF Fields
    <3>4. e = Decide(r, a, v)
      BY <3>2
    <3> HIDE DEF r
    <3>5. Same(r, Decide(r, a, v))
      BY <1>6, <3>3
    <3> QED BY <3>3, <3>4, <3>5
  <2> QED BY <2>1, <2>2
<1>8. Same(d, Repaired(d))
  BY <1>0 DEF Repaired, Fields
<1>9. ASSUME NEW v PROVE Same(d, Chased(d, v))
  <2>1. CASE v = "allowed"
    BY <2>1, <1>8 DEF Chased
  <2>2. CASE v # "allowed"
    BY <2>2, <1>0 DEF Chased, Fields
  <2> QED BY <2>1, <2>2
<1> QED BY <1>0, <1>1, <1>3, <1>4, <1>5, <1>6, <1>7, <1>8, <1>9

\* At a node the run is open, and the invariants say what there is.
LEMMA OpenAtNode ==
  ASSUME InOrder, pc \in Nodes
  PROVE  /\ Course = "open" /\ ~escalated /\ case \in Case /\ Here(pc, case)
         /\ At(pc, status, outer, case) /\ Nested(pc, status, outer)
<1>1. /\ ~escalated /\ case \in Case /\ Here(pc, case)
      /\ At(pc, status, outer, case) /\ Nested(pc, status, outer)
  BY Standing DEF InOrder
<1>2. pc \notin Stops
  BY EndsAreNotNodes
<1> QED BY <1>1, <1>2 DEF Course, Stops

\* A run that raises is lost the one way the contract allows.
LEMMA LostHonestly ==
  ASSUME InOrder, Sure, NEW why \in {"crash:input", "crash:status"}, Crash(why)
  PROVE  Honest
<1>1. pc = "file_plant_mr" /\ case.mr # "none"
  BY DEF Sure, Crash, AfterEarlierRequest
<1>2. pc \in Nodes /\ pc \in Subgraphs.field_execution /\ pc # "open_field_visit"
  BY <1>1, NodeNames, NameList DEF Subgraphs
<1>3. /\ Course = "open" /\ ~escalated /\ case \in Case /\ Clear(pc, case)
      /\ Inputs(pc, status, case)
  BY <1>2, OpenAtNode DEF Here, At
<1>4. case.order = "open"
  BY <1>2, <1>3 DEF Inputs
<1>5. case.mr \in {"completed", "dead"} /\ case.closure = "none"
  BY <1>1, <1>3 DEF Clear, Case, Following, Late, Subgraphs
<1>6. Course' = "lost"
  BY <1>3 DEF Crash, Course
<1>7. Contract!Lose
  BY <1>3, <1>4, <1>5, <1>6 DEF Contract!Lose, Contract!Ends, Crash
<1>8. Kept'
  BY DEF InOrder, Kept, Contract!Untouched, Crash
<1> QED BY <1>7, <1>8 DEF Honest, Contract!Next

\* A node that runs leaves the run open, with what it wrote, or is the one that is lost.
LEMMA Ran ==
  ASSUME InOrder, Sure, NEW n \in Nodes, NEW s, NEW e, NEW next, Node(n, s, e, next),
         next \notin Stops
  PROVE  \/ Honest
         \/ /\ pc' = next /\ case' = e /\ status' = s
            /\ outer' = IF n \in InnerNodes THEN outer ELSE s
            /\ Course = "open" /\ Course' = "open"
<1>1. pc = n /\ Merge(n, TRUE, s, escalated, e, next)
  BY DEF Node, Write
<1>2. Course = "open" /\ ~escalated
  BY <1>1, OpenAtNode
<1>3. CASE CanTransition(status, s)
  <2>1. /\ pc' = next /\ case' = e /\ status' = s /\ ~escalated'
        /\ outer' = IF n \in InnerNodes THEN outer ELSE s
    BY <1>1, <1>2, <1>3 DEF Merge
  <2>2. Course' = "open"
    BY <2>1 DEF Course, Stops
  <2> QED BY <1>2, <2>1, <2>2
<1>4. CASE ~CanTransition(status, s)
  BY <1>1, <1>4, LostHonestly DEF Merge
<1> QED BY <1>3, <1>4

\* The case as the contract sees it, in two states.
LEMMA StillKept ==
  ASSUME InOrder, Same(case, case'), outer' = outer \/ outer' \notin Marked,
         status' = status \/ status' \notin Marked
  PROVE  Kept'
BY DEF InOrder, Kept, Same, Marked, Contract!Untouched

\* A node that runs and shows nothing outside keeps the contract.
LEMMA PassesHonestly ==
  ASSUME InOrder, Sure, NEW n \in Nodes, Passes(n)
  PROVE  Honest
<1>1. PICK s, e, next : /\ Node(n, s, e, next) /\ next \notin Stops
                        /\ Same(case, e) /\ (s = status \/ s \notin Marked)
  BY DEF Passes
<1>2. pc = n
  BY <1>1 DEF Node, Write
<1>3. n \in InnerNodes \/ outer = status
  BY <1>2, OpenAtNode DEF Nested, Nodes
<1>4. SUFFICES ASSUME /\ case' = e /\ status' = s
                      /\ outer' = IF n \in InnerNodes THEN outer ELSE s
                      /\ Course = "open" /\ Course' = "open"
               PROVE  Honest
  BY <1>1, Ran
<1>5. Kept'
  BY <1>1, <1>3, <1>4, StillKept
<1>6. UNCHANGED Contract!vars
  BY <1>1, <1>4 DEF Contract!vars, Same
<1> QED BY <1>5, <1>6 DEF Honest

\* A node that hands the case over, or a guard that does, keeps the contract.
LEMMA HandsOverHonestly ==
  ASSUME InOrder, Sure, pc \in Nodes, NEW ran, NEW e, NEW next,
         Merge(pc, ran, "escalated", TRUE, e, next), Same(case, e)
  PROVE  Honest
<1>1. CASE CanTransition(status, "escalated")
  <2>1. /\ escalated' = TRUE /\ case' = e /\ status' = "escalated"
        /\ outer' = IF pc \in InnerNodes THEN outer ELSE "escalated"
    BY <1>1 DEF Merge
  <2>2. Course = "open" /\ Course' = "escalated"
    BY <2>1, OpenAtNode DEF Course
  <2>3. Contract!HandOver
    BY <2>1, <2>2 DEF Contract!HandOver, Contract!Ends, Same
  <2>4. Kept'
    BY <2>1, StillKept DEF Marked
  <2> QED BY <2>3, <2>4 DEF Honest, Contract!Next
<1>2. CASE ~CanTransition(status, "escalated")
  BY <1>2, LostHonestly DEF Merge
<1> QED BY <1>1, <1>2

\* So does every step of these shapes.
LEMMA UnseenHonestly == ASSUME InOrder, Sure, Unseen PROVE Honest
<1>1. PICK n \in Nodes : Passes(n) \/ HandsOver(n) \/ Fails(n)
  BY DEF Unseen
<1>2. CASE Passes(n)
  BY <1>2, PassesHonestly
<1>3. CASE HandsOver(n)
  <2>1. PICK e, next : Write(n, "escalated", TRUE, e, next) /\ Same(case, e)
    BY <1>3 DEF HandsOver
  <2>2. pc \in Nodes /\ Merge(pc, TRUE, "escalated", TRUE, e, next)
    BY <2>1 DEF Write
  <2> QED BY <2>1, <2>2, HandsOverHonestly
<1>4. CASE Fails(n)
  BY <1>4, LostHonestly DEF Fails
<1> QED BY <1>1, <1>2, <1>3, <1>4

\* No router ends the run: only the intake and the ends of two subgraphs do.
LEMMA RoutesGoOn ==
  ASSUME NEW d
  PROVE  /\ RouteEvidenceSufficiency(d) \notin Stops /\ RouteSelfHelpOutcome(d) \notin Stops
         /\ RouteSafetyAndBlastRadius(d) \notin Stops /\ RouteRcaConfidence(d) \notin Stops
         /\ RouteRemoteOutcome(d) \notin Stops /\ RouteCleanBootsOutcome(d) \notin Stops
         /\ RoutePlantOutcome(d) \notin Stops /\ RouteStability(d) \notin Stops
         /\ RouteResolution(d) \notin Stops
         /\ RouteRemoteGate(d) \notin Stops /\ RouteSelfHelpGate(d) \notin Stops
         /\ RouteCustomerAnswer(d) \notin Stops
         /\ RouteFieldGate(d) \notin Stops /\ RouteDispatchGate(d) \notin Stops
         /\ RouteHandoverGate(d) \notin Stops /\ RoutePlantReferralGate(d) \notin Stops
         /\ RouteClosureGate(d) \notin Stops
<1> USE DEF Stops
<1>1. RouteSharedOrPlant(d) \notin Stops
  BY DEF RouteSharedOrPlant, RouteRemoteEligibility, RouteSelfHelpSuitability
<1>2. RouteSafetyAndBlastRadius(d) \notin Stops
  BY <1>1 DEF RouteSafetyAndBlastRadius
<1>3. /\ RouteEvidenceSufficiency(d) \notin Stops /\ RouteSelfHelpOutcome(d) \notin Stops
      /\ RouteRcaConfidence(d) \notin Stops /\ RouteRemoteOutcome(d) \notin Stops
      /\ RouteCleanBootsOutcome(d) \notin Stops /\ RoutePlantOutcome(d) \notin Stops
      /\ RouteStability(d) \notin Stops /\ RouteResolution(d) \notin Stops
  BY DEF RouteEvidenceSufficiency, RouteSelfHelpOutcome, RouteRcaConfidence, RouteRemoteOutcome,
     RouteCleanBootsOutcome, RoutePlantOutcome, RouteResidualImpact, RouteStability, RouteResolution
<1>4. RouteRemoteGate(d) \notin Stops /\ RouteSelfHelpGate(d) \notin Stops
  BY DEF RouteRemoteGate, RouteSelfHelpGate, OptionGate
<1>5. /\ RouteCustomerAnswer(d) \notin Stops /\ RouteFieldGate(d) \notin Stops
      /\ RouteDispatchGate(d) \notin Stops
  BY DEF RouteCustomerAnswer, RouteFieldGate, RouteDispatchGate
<1>6. /\ RouteHandoverGate(d) \notin Stops /\ RoutePlantReferralGate(d) \notin Stops
      /\ RouteClosureGate(d) \notin Stops
  BY DEF RouteHandoverGate, RoutePlantReferralGate, RouteClosureGate, End
<1> QED BY <1>2, <1>3, <1>4, <1>5, <1>6

\* A note in another field is not seen outside.
LEMMA NotesUnseen ==
  ASSUME NEW d, DOMAIN d = Fields, NEW x
  PROVE  /\ Same(d, [d EXCEPT !.test = x]) /\ Same(d, [d EXCEPT !.dom = x])
         /\ Same(d, [d EXCEPT !.confirmed = x]) /\ Same(d, [d EXCEPT !.session = x])
         /\ Same(d, [d EXCEPT !.finding = x]) /\ Same(d, [d EXCEPT !.chosen = x])
         /\ Same(d, [d EXCEPT !.validation = x]) /\ Same(d, [d EXCEPT !.retries = x])
         /\ Same(d, [d EXCEPT !.recon = x]) /\ DOMAIN [d EXCEPT !.recon = x] = Fields
         /\ Same(d, [d EXCEPT !.fixed = x])
         /\ \A y : Same(d, [d EXCEPT !.contract = x, !.dom = y])
         /\ \A y : Same(d, [d EXCEPT !.plan = x, !.chosen = y])
BY DEF Same, Fields

\* Intake and diagnosis are not seen outside, but for the first node and the one that may stop.
LEMMA DiagnosisUnseen ==
  ASSUME InOrder, DiagnosisNext PROVE Unseen \/ ReceiveSignal \/ NormalizeEvent
<1>0. case \in Case /\ DOMAIN case = Fields
  BY CaseIsSound, CaseFields DEF InOrder
<1>a. ParentNodes \subseteq Nodes
  BY NodeNames
<1>b. /\ Same(case, case) /\ \A g \in Gathered(case) : Same(case, g)
      /\ \A r \in Read(case) : \A g \in Gathered(r) : Same(case, g)
      /\ \A k, ans : Same(case, Answered(case, k, ans))
  BY <1>0, HelpersUnseen
<1> USE DEF Quiet, Stops, Marked
<1>1. ResolveIdentityAndTopology => Passes("resolve_identity_and_topology")
  BY <1>b DEF ResolveIdentityAndTopology, Passes
<1>2. DeduplicateAndCorrelate => Passes("deduplicate_and_correlate")
  BY <1>b DEF DeduplicateAndCorrelate, Passes
<1>3. AssessImpactAndPriority => Passes("assess_impact_and_priority")
  BY <1>b DEF AssessImpactAndPriority, Passes
<1>4. CreateOrAttachIncident =>
        Passes("create_or_attach_incident") \/ HandsOver("create_or_attach_incident")
  BY <1>b DEF CreateOrAttachIncident, Passes, HandsOver
<1>5. AssembleCaseEvidence => Passes("assemble_case_evidence")
  BY <1>b, RoutesGoOn DEF AssembleCaseEvidence, Passes
<1>6. CreateDiagnosticTestPlan => Passes("create_diagnostic_test_plan")
  BY <1>b DEF CreateDiagnosticTestPlan, Passes
<1>7. ASSUME ExecuteReadOnlyTests PROVE Passes("execute_read_only_tests")
  <2>1. PICK t : Node("execute_read_only_tests", status, [case EXCEPT !.test = t], "determine_root_cause")
    BY <1>7 DEF ExecuteReadOnlyTests
  <2> DEFINE e == [case EXCEPT !.test = t]
  <2>2. Same(case, e) /\ Node("execute_read_only_tests", status, e, "determine_root_cause")
    BY <1>0, <2>1, NotesUnseen
  <2> HIDE DEF e
  <2> QED BY <2>2 DEF Passes
<1>8. ASSUME DetermineRootCause PROVE Passes("determine_root_cause")
  <2>1. PICK f : Node("determine_root_cause", "diagnosing", [case EXCEPT !.dom = f],
                      RouteRcaConfidence([case EXCEPT !.dom = f]))
    BY <1>8 DEF DetermineRootCause
  <2> DEFINE e == [case EXCEPT !.dom = f]
  <2>2. Same(case, e) /\ Node("determine_root_cause", "diagnosing", e, RouteRcaConfidence(e))
    BY <1>0, <2>1, NotesUnseen
  <2> HIDE DEF e
  <2> QED BY <2>2, RoutesGoOn DEF Passes
<1>9. ASSUME GenerateResolutionOptions PROVE Passes("generate_resolution_options")
  <2> DEFINE e == [case EXCEPT !.plan = Offered[case.dom] \ case.tried, !.chosen = "none"]
  <2>1. Node("generate_resolution_options", status, e, RouteSafetyAndBlastRadius(e))
    BY <1>9 DEF GenerateResolutionOptions
  <2>2. Same(case, e)
    BY <1>0, NotesUnseen
  <2> HIDE DEF e
  <2> QED BY <2>1, <2>2, RoutesGoOn DEF Passes
<1>10. PrepareLowConfidenceReview => Passes("prepare_low_confidence_review")
  BY <1>b DEF PrepareLowConfidenceReview, Passes
<1>11. RequestLowConfidenceReview => Passes("request_low_confidence_review")
  BY <1>b, RoutesGoOn DEF RequestLowConfidenceReview, Passes
<1>12. PrepareBlastRadiusApproval =>
         Passes("prepare_blast_radius_approval") \/ Fails("prepare_blast_radius_approval")
  BY <1>b DEF PrepareBlastRadiusApproval, Needs, Passes, Fails
<1>13. RequestBlastRadiusApproval => Passes("request_blast_radius_approval")
  BY <1>b, RoutesGoOn DEF RequestBlastRadiusApproval, Passes
<1>14. RecordEscalation => HandsOver("record_escalation")
  BY <1>b DEF RecordEscalation, HandsOver
<1>15. ASSUME ConfirmCustomerOutcome
       PROVE  Passes("confirm_customer_outcome") \/ Fails("confirm_customer_outcome")
  <2>1. CASE Fails("confirm_customer_outcome")
    BY <2>1
  <2>2. CASE ~Fails("confirm_customer_outcome")
    <3>1. PICK c : Node("confirm_customer_outcome", status, [case EXCEPT !.confirmed = c],
                        RouteResolution([case EXCEPT !.confirmed = c]))
      BY <1>15, <2>2 DEF ConfirmCustomerOutcome, Needs, Fails
    <3> DEFINE e == [case EXCEPT !.confirmed = c]
    <3>2. Same(case, e) /\ Node("confirm_customer_outcome", status, e, RouteResolution(e))
      BY <1>0, <3>1, NotesUnseen
    <3> HIDE DEF e
    <3> QED BY <3>2, RoutesGoOn DEF Passes
  <2> QED BY <2>1, <2>2
<1>16. {"resolve_identity_and_topology", "deduplicate_and_correlate", "assess_impact_and_priority",
        "create_or_attach_incident", "assemble_case_evidence", "create_diagnostic_test_plan",
        "execute_read_only_tests", "determine_root_cause", "generate_resolution_options",
        "prepare_low_confidence_review", "request_low_confidence_review",
        "prepare_blast_radius_approval", "request_blast_radius_approval", "record_escalation",
        "confirm_customer_outcome"} \subseteq Nodes
  BY <1>a DEF ParentNodes
<1> QED
  BY <1>1, <1>2, <1>3, <1>4, <1>5, <1>6, <1>7, <1>8, <1>9, <1>10, <1>11, <1>12, <1>13, <1>14,
     <1>15, <1>16 DEF DiagnosisNext, Unseen

\* Remote repair is not seen outside, but for the attempt.
LEMMA RemoteUnseen == ASSUME InOrder, RemoteNext PROVE Unseen \/ ExecuteRemoteRepair
<1>0. case \in Case
  BY CaseIsSound DEF InOrder
<1>a. /\ Same(case, case)
      /\ \A d \in SelectOption(case, Remote) : Same(case, d)
      /\ \A ans : Same(case, AnsweredOnce(case, ans))
  BY <1>0, HelpersUnseen
<1> USE DEF Quiet, Stops, Marked, End
<1>1. SelectRemoteAction => Passes("select_remote_action")
  BY <1>a, RoutesGoOn DEF SelectRemoteAction, Passes
<1>2. PrepareRemoteApproval => Passes("prepare_remote_approval")
  BY <1>a DEF PrepareRemoteApproval, Passes
<1>3. RequestRemoteApproval => Passes("request_remote_approval")
  BY <1>a, RoutesGoOn DEF RequestRemoteApproval, Passes
<1>4. AbandonRemoteAction => Passes("abandon_remote_action")
  BY <1>a DEF AbandonRemoteAction, Passes
<1>5. ASSUME VerifyRemoteRepair PROVE Passes("verify_remote_repair")
  <2>1. PICK d, x : /\ \E read \in Read(case) : d \in Gathered(read)
                    /\ Node("verify_remote_repair", status, [d EXCEPT !.fixed = x], "remote_resolution")
    BY <1>5 DEF VerifyRemoteRepair
  <2>2. DOMAIN d = Fields /\ Same(case, d)
    BY <1>0, <2>1, HelpersUnseen, CaseFields
  <2> DEFINE e == [d EXCEPT !.fixed = x]
  <2>3. Same(d, e) /\ Node("verify_remote_repair", status, e, "remote_resolution")
    BY <2>1, <2>2, NotesUnseen
  <2> HIDE DEF e
  <2> QED BY <2>2, <2>3 DEF Passes, Same
<1>6. {"select_remote_action", "prepare_remote_approval", "request_remote_approval",
       "abandon_remote_action", "verify_remote_repair"} \subseteq Nodes
  BY NodeNames, NameList DEF Subgraphs
<1> QED BY <1>1, <1>2, <1>3, <1>4, <1>5, <1>6 DEF RemoteNext, Unseen

\* Self-help is not seen outside, but for the message.
LEMMA SelfHelpUnseen == ASSUME InOrder, SelfHelpNext PROVE Unseen \/ SendSelfHelpInstructions
<1>0. case \in Case /\ DOMAIN case = Fields
  BY CaseIsSound, CaseFields DEF InOrder
<1>a. /\ Same(case, case)
      /\ \A d \in SelectOption(case, {Selfhelp}) : Same(case, d)
      /\ \A ans : Same(case, AnsweredOnce(case, ans))
  BY <1>0, HelpersUnseen
<1> USE DEF Quiet, Stops, Marked, End
<1>1. SelectSelfHelpScript => Passes("select_self_help_script")
  BY <1>a, RoutesGoOn DEF SelectSelfHelpScript, Passes
<1>2. PrepareSelfHelpApproval => Passes("prepare_self_help_approval")
  BY <1>a DEF PrepareSelfHelpApproval, Passes
<1>3. RequestSelfHelpApproval => Passes("request_self_help_approval")
  BY <1>a, RoutesGoOn DEF RequestSelfHelpApproval, Passes
<1>4. MarkAwaitingCustomer => Passes("mark_awaiting_customer") \/ Fails("mark_awaiting_customer")
  BY <1>a DEF MarkAwaitingCustomer, Needs, Passes, Fails
<1>5. ASSUME AwaitCustomerResponse, ~Fails("await_customer_response")
      PROVE  Passes("await_customer_response")
  <2>1. PICK x : Node("await_customer_response", status, [case EXCEPT !.session = x],
                      RouteCustomerAnswer([case EXCEPT !.session = x]))
    BY <1>5 DEF AwaitCustomerResponse, Needs, Fails
  <2> DEFINE e == [case EXCEPT !.session = x]
  <2>2. Same(case, e) /\ Node("await_customer_response", status, e, RouteCustomerAnswer(e))
    BY <1>0, <2>1, NotesUnseen
  <2> HIDE DEF e
  <2> QED BY <2>2, RoutesGoOn DEF Passes
<1>6. ASSUME VerifySelfHelp, ~Fails("verify_self_help") PROVE Passes("verify_self_help")
  <2>1. PICK d, x : /\ \E read \in Read(case) : d \in Gathered(read)
                    /\ Node("verify_self_help", "self_help", [d EXCEPT !.session = x], "self_help")
    BY <1>6 DEF VerifySelfHelp, Needs, Fails
  <2>2. DOMAIN d = Fields /\ Same(case, d)
    BY <1>0, <2>1, HelpersUnseen, CaseFields
  <2> DEFINE e == [d EXCEPT !.session = x]
  <2>3. Same(d, e) /\ Node("verify_self_help", "self_help", e, "self_help")
    BY <2>1, <2>2, NotesUnseen
  <2> HIDE DEF e
  <2> QED BY <2>2, <2>3 DEF Passes, Same
<1>7. AbandonSelfHelp => Passes("abandon_self_help")
  BY <1>a DEF AbandonSelfHelp, Passes
<1>8. {"select_self_help_script", "prepare_self_help_approval", "request_self_help_approval",
       "mark_awaiting_customer", "await_customer_response", "verify_self_help",
       "abandon_self_help"} \subseteq Nodes
  BY NodeNames, NameList DEF Subgraphs
<1> QED BY <1>1, <1>2, <1>3, <1>4, <1>5, <1>6, <1>7, <1>8 DEF SelfHelpNext, Unseen

\* Planning and visiting are not seen outside, but for what is done about the work order and the
\* request of the visit.
LEMMA FieldUnseen ==
  ASSUME InOrder, FieldNext
  PROVE  Unseen \/ CommitFieldDispatch \/ CloseCleanBootsVisit \/ FilePlantMR \/ AbandonHandover
<1>0. case \in Case /\ DOMAIN case = Fields
  BY CaseIsSound, CaseFields DEF InOrder
<1>a. /\ Same(case, case)
      /\ \A d \in Gathered(case) : Same(case, d)
      /\ \A k, ans : Same(case, Answered(case, k, ans))
      /\ \A a, v : Same(case, Decide(case, a, v))
  BY <1>0, HelpersUnseen
<1> USE DEF Quiet, Stops, Marked, End
<1>1. ASSUME BuildFieldRequirement PROVE Passes("build_field_requirement")
  <2>1. PICK e : /\ e = case \/ e = [case EXCEPT !.chosen = Dispatch]
                 /\ Node("build_field_requirement", status, e, RouteFieldGate(e))
    BY <1>1 DEF BuildFieldRequirement
  <2>2. Same(case, [case EXCEPT !.chosen = Dispatch])
    BY <1>0, NotesUnseen
  <2>3. Same(case, e)
    BY <1>a, <2>1, <2>2
  <2> QED BY <2>1, <2>3, RoutesGoOn DEF Passes
<1>2. OptimizeFieldSchedule => Passes("optimize_field_schedule")
  BY <1>a DEF OptimizeFieldSchedule, Passes
<1>3. EvaluateDispatchPolicy => Passes("evaluate_dispatch_policy")
  BY <1>a, RoutesGoOn DEF EvaluateDispatchPolicy, Passes
<1>4. PrepareDispatchApproval => Passes("prepare_dispatch_approval")
  BY <1>a DEF PrepareDispatchApproval, Passes
<1>5. RequestDispatchApproval => Passes("request_dispatch_approval")
  BY <1>a, RoutesGoOn DEF RequestDispatchApproval, Passes
<1>6. QueueForDispatcher => Passes("queue_for_dispatcher")
  BY <1>a DEF QueueForDispatcher, Passes
<1>7. AbandonFieldPlanning => Passes("abandon_field_planning")
  BY <1>a DEF AbandonFieldPlanning, Passes
<1>8. OpenFieldVisit => Passes("open_field_visit")
  BY <1>a DEF OpenFieldVisit, Passes
<1>9. ASSUME CaptureFieldEvidence, ~Fails("capture_field_evidence")
      PROVE  Passes("capture_field_evidence")
  <2>1. PICK x, next : /\ Node("capture_field_evidence", status, [case EXCEPT !.finding = x], next)
                       /\ next \in {"close_clean_boots_visit", "determine_delimiter"}
    BY <1>9 DEF CaptureFieldEvidence, Needs, Fails
  <2> DEFINE e == [case EXCEPT !.finding = x]
  <2>2. Same(case, e) /\ Node("capture_field_evidence", status, e, next)
    BY <1>0, <2>1, NotesUnseen
  <2> HIDE DEF e
  <2> QED BY <2>1, <2>2 DEF Passes
<1>10. ASSUME DetermineDelimiter PROVE Passes("determine_delimiter")
  <2> DEFINE next == IF case.finding = "plant" THEN "evaluate_handover_policy"
                     ELSE "request_additional_field_tests"
  <2>1. PICK x : Node("determine_delimiter", "field_in_progress", [case EXCEPT !.dom = x], next)
    BY <1>10 DEF DetermineDelimiter
  <2>2. next \notin Stops
    OBVIOUS
  <2> DEFINE e == [case EXCEPT !.dom = x]
  <2>3. Same(case, e) /\ Node("determine_delimiter", "field_in_progress", e, next)
    BY <1>0, <2>1, NotesUnseen
  <2> HIDE DEF e, next
  <2> QED BY <2>2, <2>3 DEF Passes
<1>11. RequestAdditionalFieldTests => Passes("request_additional_field_tests")
  BY <1>a DEF RequestAdditionalFieldTests, Passes
<1>12. EvaluateHandoverPolicy => Passes("evaluate_handover_policy") \/ Fails("evaluate_handover_policy")
  BY <1>a, RoutesGoOn DEF EvaluateHandoverPolicy, Needs, Passes, Fails
<1>13. ASSUME BuildHandoverContract, ~Fails("build_handover_contract")
       PROVE  Passes("build_handover_contract")
  <2>1. PICK x, y, next :
          /\ Node("build_handover_contract", "awaiting_handover",
                  [case EXCEPT !.contract = x, !.dom = y], next)
          /\ next \in {"prepare_handover_approval", "request_additional_field_tests"}
    BY <1>13 DEF BuildHandoverContract, Needs, Fails
  <2> DEFINE e == [case EXCEPT !.contract = x, !.dom = y]
  <2>2. Same(case, e) /\ Node("build_handover_contract", "awaiting_handover", e, next)
    BY <1>0, <2>1, NotesUnseen
  <2> HIDE DEF e
  <2> QED BY <2>1, <2>2 DEF Passes
<1>14. PrepareHandoverApproval => Passes("prepare_handover_approval") \/ Fails("prepare_handover_approval")
  BY <1>a DEF PrepareHandoverApproval, Needs, Passes, Fails
<1>15. RequestHandoverApproval => Passes("request_handover_approval")
  BY <1>a, RoutesGoOn DEF RequestHandoverApproval, Passes
<1>16. {"build_field_requirement", "optimize_field_schedule", "evaluate_dispatch_policy",
        "prepare_dispatch_approval", "request_dispatch_approval", "queue_for_dispatcher",
        "abandon_field_planning"} \subseteq Nodes
  BY NodeNames, NameList DEF Subgraphs
<1>17. {"open_field_visit", "capture_field_evidence", "determine_delimiter",
        "request_additional_field_tests", "evaluate_handover_policy", "build_handover_contract",
        "prepare_handover_approval", "request_handover_approval"} \subseteq Nodes
  BY NodeNames, NameList DEF Subgraphs
<1> QED BY <1>1, <1>2, <1>3, <1>4, <1>5, <1>6, <1>7, <1>8, <1>9, <1>10, <1>11, <1>12, <1>13,
           <1>14, <1>15, <1>16, <1>17 DEF FieldNext, Unseen

\* Referring and following are not seen outside, but for the request and the crew's report on it.
LEMMA PlantUnseen ==
  ASSUME InOrder, PlantNext PROVE Unseen \/ FilePlantReferralMR \/ CapturePlantEvidence
<1>0. case \in Case
  BY CaseIsSound DEF InOrder
<1>a. /\ Same(case, case) /\ \A v : Same(case, Chased(case, v))
      /\ \A k, ans : Same(case, Answered(case, k, ans))
      /\ \A a, v : Same(case, Decide(case, a, v))
  BY <1>0, HelpersUnseen
<1> USE DEF Quiet, Stops, Marked, End
<1>1. ASSUME EvaluatePlantReferral PROVE Passes("evaluate_plant_referral")
  <2>1. PICK e : /\ e = case \/ \E v : e = Decide(case, RaiseMR, v)
                 /\ Node("evaluate_plant_referral", status, e, RoutePlantReferralGate(e))
    BY <1>1 DEF EvaluatePlantReferral
  <2>2. Same(case, e)
    BY <1>a, <2>1
  <2> QED BY <2>1, <2>2, RoutesGoOn DEF Passes
<1>2. PreparePlantReferralApproval => Passes("prepare_plant_referral_approval")
  BY <1>a DEF PreparePlantReferralApproval, Passes
<1>3. RequestPlantReferralApproval => Passes("request_plant_referral_approval")
  BY <1>a, RoutesGoOn DEF RequestPlantReferralApproval, Passes
<1>4. AbandonPlantReferral => HandsOver("abandon_plant_referral")
  BY <1>a DEF AbandonPlantReferral, HandsOver
<1>5. SearchPlantMR => Passes("search_plant_mr")
  BY <1>a DEF SearchPlantMR, Passes
<1>6. UpdatePlantMR => Passes("update_plant_mr") \/ Fails("update_plant_mr")
  BY <1>a DEF UpdatePlantMR, Needs, Passes, Fails
<1>7. {"evaluate_plant_referral", "prepare_plant_referral_approval",
       "request_plant_referral_approval", "abandon_plant_referral", "search_plant_mr",
       "update_plant_mr"} \subseteq Nodes
  BY NodeNames, NameList DEF Subgraphs
<1> QED BY <1>1, <1>2, <1>3, <1>4, <1>5, <1>6, <1>7 DEF PlantNext, Unseen

\* Nor are validation and reconciliation, but for the closure and the node after it that says so.
LEMMA RestorationUnseen ==
  ASSUME InOrder, RestorationNext PROVE Unseen \/ CloseLinkedRecords \/ UpdateKpisAndLearning
<1>0. case \in Case /\ DOMAIN case = Fields
  BY CaseIsSound, CaseFields DEF InOrder
<1>a. /\ Same(case, case)
      /\ \A r \in Read(case) : \A g \in Gathered(r) : Same(case, g)
      /\ \A k, ans : Same(case, Answered(case, k, ans))
      /\ \A a, v : Same(case, Decide(case, a, v))
  BY <1>0, HelpersUnseen
<1> USE DEF Quiet, Stops, Marked, End
<1>1. AwaitServiceStability => Passes("await_service_stability")
  BY <1>a DEF AwaitServiceStability, Passes
<1>2. SnapshotPostFixState => Passes("snapshot_post_fix_state")
  BY <1>a DEF SnapshotPostFixState, Passes
<1>3. ASSUME AssessRestoration PROVE Passes("assess_restoration")
  <2>1. PICK x : Node("assess_restoration", status, [case EXCEPT !.validation = x],
                      "restoration_validation")
    BY <1>3 DEF AssessRestoration
  <2> DEFINE e == [case EXCEPT !.validation = x]
  <2>2. Same(case, e) /\ Node("assess_restoration", status, e, "restoration_validation")
    BY <1>0, <2>1, NotesUnseen
  <2> HIDE DEF e
  <2> QED BY <2>2 DEF Passes
<1>4. ASSUME ReconcileLinkedSystems PROVE Passes("reconcile_linked_systems")
  <2>1. PICK x, d, next :
          /\ d \in Gathered([case EXCEPT !.recon = x])
          /\ Node("reconcile_linked_systems", "reconciling", d, next)
          /\ next \in {"evaluate_closure_policy", "hold_for_reconciliation_retry"}
    BY <1>4 DEF ReconcileLinkedSystems
  <2> DEFINE r == [case EXCEPT !.recon = x]
  <2>2. DOMAIN r = Fields /\ Same(case, r) /\ d \in Gathered(r)
    BY <1>0, <2>1, NotesUnseen
  <2> HIDE DEF r
  <2>3. Same(r, d)
    BY <2>2 DEF Gathered, Same, Fields
  <2> QED BY <2>1, <2>2, <2>3 DEF Passes, Same
<1>5. ASSUME HoldForReconciliationRetry
      PROVE  Passes("hold_for_reconciliation_retry") \/ HandsOver("hold_for_reconciliation_retry")
  <2> DEFINE e == [case EXCEPT !.retries = @ + 1]
  <2>1. \/ Write("hold_for_reconciliation_retry", "escalated", TRUE, e, "reconciliation_closure")
        \/ Node("hold_for_reconciliation_retry", status, e, "reconcile_linked_systems")
    BY <1>5 DEF HoldForReconciliationRetry
  <2>2. Same(case, e)
    BY <1>0, NotesUnseen
  <2> HIDE DEF e
  <2> QED BY <2>1, <2>2 DEF Passes, HandsOver
<1>6. EvaluateClosurePolicy => Passes("evaluate_closure_policy")
  BY <1>a, RoutesGoOn DEF EvaluateClosurePolicy, Passes
<1>7. PrepareExceptionalClosureApproval => Passes("prepare_exceptional_closure_approval")
  BY <1>a DEF PrepareExceptionalClosureApproval, Passes
<1>8. RequestExceptionalClosureApproval => Passes("request_exceptional_closure_approval")
  BY <1>a, RoutesGoOn DEF RequestExceptionalClosureApproval, Passes
<1>9. AbandonClosure => HandsOver("abandon_closure")
  BY <1>a DEF AbandonClosure, HandsOver
<1>10. RecordChronicPattern => Passes("record_chronic_pattern")
  BY <1>a DEF RecordChronicPattern, Passes
<1>11. {"await_service_stability", "snapshot_post_fix_state", "assess_restoration",
        "reconcile_linked_systems", "hold_for_reconciliation_retry", "evaluate_closure_policy",
        "prepare_exceptional_closure_approval", "request_exceptional_closure_approval",
        "abandon_closure", "record_chronic_pattern"} \subseteq Nodes
  BY NodeNames, NameList DEF Subgraphs
<1> QED BY <1>1, <1>2, <1>3, <1>4, <1>5, <1>6, <1>7, <1>8, <1>9, <1>10, <1>11
        DEF RestorationNext, Unseen

\* Preventive maintenance is never seen outside.
LEMMA PreventiveUnseen == ASSUME InOrder, PreventiveNext PROVE Unseen
<1>0. case \in Case
  BY CaseIsSound DEF InOrder
<1>a. Same(case, case) /\ \A g \in Gathered(case) : Same(case, g)
  BY <1>0, HelpersUnseen
<1> USE DEF Quiet, Stops, Marked, End
<1>1. AssessPredictiveRisk => Passes("assess_predictive_risk")
  BY <1>a DEF AssessPredictiveRisk, Passes
<1>2. OpenPreventiveCase => Passes("open_preventive_case")
  BY <1>a DEF OpenPreventiveCase, Passes, Treatments
<1>3. PreventiveTreatment => \E n \in Treatments : Passes(n)
  BY <1>a DEF PreventiveTreatment, Passes
<1>4. {"assess_predictive_risk", "open_preventive_case"} \cup Treatments \subseteq Nodes
  BY NodeNames, NameList DEF Subgraphs, Treatments
<1> QED BY <1>1, <1>2, <1>3, <1>4 DEF PreventiveNext, Unseen

(* What is seen *)

\* The signal is taken in.
LEMMA SignalHonest == ASSUME InOrder, Sure, ReceiveSignal PROVE Honest
<1>1. "receive_signal" \in Nodes /\ "receive_signal" \notin InnerNodes
  BY NodeNames, Apart DEF ParentNodes, InnerNodes, Names
<1>2. Node("receive_signal", "triaging", case, "normalize_event") /\ pc = "receive_signal"
  BY DEF ReceiveSignal, Node, Write
<1>3. outer = "new"
  BY <1>1, <1>2, OpenAtNode, DiagnosisStages DEF At, Nested, ParentNodes
<1>4. SUFFICES ASSUME case' = case, status' = "triaging", outer' = "triaging",
                      Course = "open", Course' = "open"
               PROVE  Honest
  BY <1>1, <1>2, Ran DEF Stops
<1>5. Kept'
  BY <1>3, <1>4 DEF InOrder, Kept, Contract!Untouched
<1> QED BY <1>4, <1>5 DEF Honest, Contract!vars

\* A quarantined event ends a run that has touched nothing.
LEMMA QuarantineHonest == ASSUME InOrder, Sure, NormalizeEvent PROVE Honest
<1>1. PICK d \in Gathered(case), next \in {"resolve_identity_and_topology", "END"} :
        Node("normalize_event", status, d, next)
  BY DEF NormalizeEvent, Quiet
<1>2. "normalize_event" \in Nodes /\ "normalize_event" \notin InnerNodes
  BY NodeNames, Apart DEF ParentNodes, InnerNodes, Names
<1>3. pc = "normalize_event"
  BY <1>1 DEF Node, Write
<1>4. Same(case, d)
  BY <1>2, <1>3, OpenAtNode, HelpersUnseen
<1>5. CASE next # "END"
  <2>1. Passes("normalize_event")
    BY <1>1, <1>4, <1>5 DEF Passes, Stops
  <2> QED BY <1>2, <2>1, PassesHonestly
<1>6. CASE next = "END"
  <2>1. Course = "open" /\ ~escalated /\ Stage(pc, status) /\ outer = status
    BY <1>2, <1>3, OpenAtNode DEF At, Nested, ParentNodes
  <2>2. status = "triaging" /\ outer = "triaging"
    BY <1>3, <2>1, DiagnosisStages DEF Intake
  <2>3. Merge("normalize_event", TRUE, "triaging", escalated, d, "END")
    BY <1>1, <1>6, <2>2 DEF Node, Write
  <2>4. CanTransition("triaging", "triaging")
    BY DEF CanTransition
  <2>5. case' = d /\ pc' = "END" /\ ~escalated' /\ status' = "triaging" /\ outer' = "triaging"
    BY <1>2, <2>1, <2>2, <2>3, <2>4 DEF Merge
  <2>6. Course' = "ended"
    BY <2>5 DEF Course
  <2>7. Contract!Leave
    BY <1>4, <2>1, <2>2, <2>5, <2>6 DEF InOrder, Kept, Contract!Leave, Contract!Ends, Same
  <2>8. Kept'
    BY <1>4, <2>2, <2>5, StillKept
  <2> QED BY <2>7, <2>8 DEF Honest, Contract!Next
<1> QED BY <1>5, <1>6

\* What the helpers that act show outside.
LEMMA ActedSeen ==
  ASSUME NEW d, DOMAIN d = Fields, NEW a, NEW reached, NEW e, e = Acted(d, a, reached)
  PROVE  /\ e.tried \in {d.tried, d.tried \cup {a}}
         /\ e.order = d.order /\ e.mr = d.mr /\ e.closure = d.closure
         /\ DOMAIN e = Fields
<1> DEFINE r == Repaired(d)
<1>1. DOMAIN r = Fields /\ Same(d, r)
  BY DEF Repaired, Fields, Same
<1>2. e = [r EXCEPT !.tried = IF reached THEN @ \cup {a} ELSE @, !.plan = @ \ {a},
                    !.asked = IF reached THEN @ \ {a} ELSE @]
  BY DEF Acted
<1> HIDE DEF r
<1> QED BY <1>1, <1>2 DEF Fields, Same

LEMMA OrderClosedSeen ==
  ASSUME NEW d, DOMAIN d = Fields, NEW e, e = OrderClosed(d)
  PROVE  /\ e.order = IF d.order = "open" THEN "done" ELSE d.order
         /\ e.tried = d.tried /\ e.mr = d.mr /\ e.closure = d.closure
         /\ DOMAIN e = Fields
<1>1. DOMAIN Repaired(d) = Fields /\ Same(d, Repaired(d))
  BY DEF Repaired, Fields, Same
<1> QED BY <1>1 DEF OrderClosed, Fields, Same

LEMMA SubmittedSeen ==
  ASSUME NEW d, DOMAIN d = Fields, NEW reached, NEW e, e = Submitted(d, reached)
  PROVE  /\ e.mr = "awaiting_osp"
         /\ e.tried = d.tried /\ e.order = d.order /\ e.closure = d.closure
         /\ DOMAIN e = Fields
<1>1. DOMAIN Repaired(d) = Fields /\ Same(d, Repaired(d))
  BY DEF Repaired, Fields, Same
<1> QED BY <1>1 DEF Submitted, Fields, Same

\* At a node of a stage the run is open, nothing is closed, and the parent's status is no mark.
LEMMA OpenInStage ==
  ASSUME InOrder, pc \in Attempting \cup Filing \cup {"commit_field_dispatch",
           "close_clean_boots_visit", "abandon_handover", "capture_plant_evidence",
           "close_linked_records"}
  PROVE  /\ pc \in Nodes /\ pc \in InnerNodes /\ Course = "open" /\ case.closure = "none"
         /\ case \in Case /\ DOMAIN case = Fields
         /\ Here(pc, case) /\ At(pc, status, outer, case)
<1>1. pc \in InnerNodes /\ pc \in Nodes
  <2>1. \E g \in Names : pc \in Subgraphs[g]
    BY NameList DEF Attempting, Filing, Subgraphs
  <2> QED BY <2>1, NodeNames DEF InnerNodes, Names
<1>2. /\ Course = "open" /\ case \in Case /\ Here(pc, case) /\ At(pc, status, outer, case)
  BY <1>1, OpenAtNode
<1>3. pc \notin Late
  BY DEF Late, Attempting, Filing
<1> QED BY <1>1, <1>2, <1>3, CaseFields DEF Here, Clear

\* An attempt is made when nobody else is at work, and is not made again.
LEMMA AttemptHonest ==
  ASSUME InOrder, Sure, NEW n \in Attempting, NEW s, s \notin Marked, NEW g \in Gathered(case),
         NEW reached, NEW e, Same(Acted(g, case.chosen, reached), e),
         NEW next, next \notin Stops, Node(n, s, e, next)
  PROVE  Honest
<1>1. pc = n
  BY DEF Node, Write
<1>2. /\ n \in Nodes /\ n \in InnerNodes /\ Course = "open" /\ case.closure = "none"
      /\ case \in Case /\ Here(n, case)
  BY <1>1, OpenInStage
<1>3. case.order # "open" /\ case.mr # "awaiting_osp"
  BY <1>2 DEF Here, Clear, Attempting, Visiting, Following, Subgraphs
<1>4. /\ case.chosen \in case.plan /\ case.chosen # Dispatch
      /\ case.chosen \notin case.tried /\ case.chosen \in Options
  <2>1. case.chosen \in case.plan /\ case.chosen # Dispatch
    BY <1>2 DEF Here, Decided, Repairing
  <2> QED BY <1>2, <2>1, CaseIsSound DEF InOrder, Case
<1>5. g \in Case /\ DOMAIN g = Fields /\ Same(case, g)
  BY <1>2, GatheredChanges, HelpersUnseen, CaseFields
<1>6. /\ e.tried \in {case.tried, case.tried \cup {case.chosen}}
      /\ e.order = case.order /\ e.mr = case.mr /\ e.closure = case.closure
  <2> DEFINE r == Acted(g, case.chosen, reached)
  <2>1. /\ r.tried \in {g.tried, g.tried \cup {case.chosen}}
        /\ r.order = g.order /\ r.mr = g.mr /\ r.closure = g.closure
    BY <1>5, ActedSeen
  <2> HIDE DEF r
  <2>2. Same(r, e)
    BY DEF r
  <2> QED BY <1>5, <2>1, <2>2 DEF Same
<1>7. SUFFICES ASSUME case' = e, status' = s, outer' = outer, Course' = "open"
               PROVE  Honest
  BY <1>2, Ran
<1>8. CASE e.tried = case.tried \cup {case.chosen}
  <2>1. Contract!Attempt(case.chosen)
    BY <1>2, <1>3, <1>4, <1>6, <1>7, <1>8
       DEF Contract!Attempt, Contract!Working, Contract!NobodyAtWork
  <2>2. Kept'
    <3>1. status' \notin {"resolved", "closed"}
      BY <1>7 DEF Marked
    <3>2. outer \notin {"new", "triaging"}
      <4>1. n \in Subgraphs["remote_resolution"] \/ n \in Subgraphs["self_help"]
        BY DEF Attempting, Subgraphs
      <4>2. outer = "diagnosing"
        BY <1>1, <1>2, <4>1, OpenAtNode, NameList DEF Nested, Entered
      <4> QED BY <4>2
    <3> QED BY <1>7, <3>1, <3>2 DEF Kept
  <2> QED BY <1>4, <2>1, <2>2 DEF Honest, Contract!Next
<1>9. CASE e.tried = case.tried
  <2>1. Same(case, e)
    BY <1>6, <1>9 DEF Same
  <2>2. Kept'
    BY <1>7, <2>1, StillKept
  <2>3. UNCHANGED Contract!vars
    BY <1>2, <1>7, <2>1 DEF Contract!vars, Same
  <2> QED BY <2>2, <2>3 DEF Honest
<1> QED BY <1>6, <1>8, <1>9

\* Remote repair and self-help attempt what was selected.
LEMMA RepairHonest ==
  ASSUME InOrder, Sure, ExecuteRemoteRepair \/ SendSelfHelpInstructions PROVE Honest
<1>0. case \in Case /\ DOMAIN case = Fields
  BY CaseIsSound, CaseFields DEF InOrder
<1>1. \A g \in Gathered(case) : DOMAIN g = Fields
  BY <1>0, GatheredChanges, CaseFields
<1>2. CASE ExecuteRemoteRepair
  <2>1. PICK g \in Gathered(case), reached \in Reach, x \in BOOLEAN :
          Node("execute_remote_repair", "remote_resolution",
               [Acted(g, case.chosen, reached) EXCEPT !.ran = x], "verify_remote_repair")
    BY <1>2 DEF ExecuteRemoteRepair
  <2> DEFINE r == Acted(g, case.chosen, reached)
             e == [r EXCEPT !.ran = x]
  <2>2. DOMAIN r = Fields
    BY <1>1, ActedSeen
  <2>3. Node("execute_remote_repair", "remote_resolution", e, "verify_remote_repair")
    BY <2>1
  <2> HIDE DEF r
  <2>4. Same(r, e)
    BY <2>2 DEF Same, Fields
  <2> HIDE DEF e
  <2> QED BY <2>3, <2>4, AttemptHonest DEF r, Attempting, Marked, Stops
<1>3. CASE SendSelfHelpInstructions
  <2>1. PICK g \in Gathered(case), reached \in Reach :
          Node("send_self_help_instructions", "self_help",
               [Acted(g, case.chosen, reached) EXCEPT !.session = "open"], "mark_awaiting_customer")
    BY <1>3 DEF SendSelfHelpInstructions
  <2> DEFINE r == Acted(g, case.chosen, reached)
             e == [r EXCEPT !.session = "open"]
  <2>2. DOMAIN r = Fields
    BY <1>1, ActedSeen
  <2>3. Node("send_self_help_instructions", "self_help", e, "mark_awaiting_customer")
    BY <2>1
  <2> HIDE DEF r
  <2>4. Same(r, e)
    BY <2>2 DEF Same, Fields
  <2> HIDE DEF e
  <2> QED BY <2>3, <2>4, AttemptHonest DEF r, Attempting, Marked, Stops
<1> QED BY <1>2, <1>3

\* What a node of a stage shows is the case it writes; the parent's status stays what it was.
StageNodes == Attempting \cup Filing \cup {"commit_field_dispatch", "close_clean_boots_visit",
                "abandon_handover", "capture_plant_evidence", "close_linked_records"}
LEMMA StageHonest ==
  ASSUME InOrder, Sure, NEW n \in StageNodes, NEW s, NEW e, NEW next, Node(n, s, e, next),
         next \notin Stops, s \in {"resolved", "closed"} => e.closure # "none"
  PROVE  Honest \/ (case' = e /\ Course' = "open" /\ Kept')
<1>1. pc = n
  BY DEF Node, Write
<1>2. n \in Nodes /\ n \in InnerNodes
  BY <1>1, OpenInStage DEF StageNodes
<1>3. PICK g \in Names \ {"preventive_maintenance"} : n \in Subgraphs[g]
  <2>1. \E g \in Names \ {"preventive_maintenance"} : n \in Subgraphs[g]
    BY NameList DEF StageNodes, Attempting, Filing, Subgraphs
  <2> QED BY <2>1
<1>4. Entered(g, outer)
  BY <1>1, <1>2, <1>3, OpenAtNode DEF Nested
<1>5. outer \notin {"new", "triaging"}
  BY <1>3, <1>4, NameList DEF Entered, Left
<1>6. CASE case' = e /\ status' = s /\ outer' = outer /\ Course' = "open"
  BY <1>5, <1>6 DEF Kept
<1> QED BY <1>2, <1>6, Ran

\* A work order is committed when nobody is at work, and no earlier one was sent.
LEMMA CommitHonest == ASSUME InOrder, Sure, CommitFieldDispatch PROVE Honest
<1> DEFINE n == "commit_field_dispatch"
<1>1. PICK reached \in Reach :
        Node(n, "dispatch_planning",
             [Acted(case, Dispatch, reached) EXCEPT !.order = "open"], "field_planning")
  BY DEF CommitFieldDispatch, End
<1>2. pc = n
  BY <1>1 DEF Node, Write
<1>3. /\ Course = "open" /\ case.closure = "none" /\ DOMAIN case = Fields /\ Here(n, case)
  BY <1>2, OpenInStage
<1>4. /\ case.order # "open" /\ case.mr # "awaiting_osp" /\ Dispatch \notin case.tried
  BY <1>3 DEF Here, Clear, Decided, Sending, Booking, Visiting, Following, Subgraphs
<1> DEFINE r == Acted(case, Dispatch, reached)
           e == [r EXCEPT !.order = "open"]
<1>5. /\ r.tried \in {case.tried, case.tried \cup {Dispatch}}
      /\ r.mr = case.mr /\ r.closure = case.closure /\ DOMAIN r = Fields
  BY <1>3, ActedSeen
<1>6. Node(n, "dispatch_planning", e, "field_planning")
  BY <1>1
<1> HIDE DEF r
<1>7. e.order = "open" /\ e.tried = r.tried /\ e.mr = r.mr /\ e.closure = r.closure
  BY <1>5 DEF Fields
<1> HIDE DEF e
<1>8. Honest \/ (case' = e /\ Course' = "open" /\ Kept')
  BY <1>6, StageHonest DEF StageNodes, Stops
<1>9. CASE case' = e /\ Course' = "open" /\ Kept'
  <2>1. Contract!SendCrew
    BY <1>3, <1>4, <1>5, <1>7, <1>9
       DEF Contract!SendCrew, Contract!Working, Contract!NobodyAtWork
  <2> QED BY <1>9, <2>1 DEF Honest, Contract!Next
<1> QED BY <1>8, <1>9

\* The crew is done: at the end of a visit it repaired, or of one whose handover was refused.
LEMMA VisitEndsHonest ==
  ASSUME InOrder, Sure, NEW n \in {"close_clean_boots_visit", "abandon_handover"},
         NEW s, s \notin Marked, NEW e, Same(OrderClosed(case), e), Node(n, s, e, "field_execution")
  PROVE  Honest
<1>1. pc = n
  BY DEF Node, Write
<1>2. /\ Course = "open" /\ case.closure = "none" /\ DOMAIN case = Fields
      /\ At(n, status, outer, case)
  BY <1>1, OpenInStage
<1>3. case.order = "open"
  BY <1>2 DEF At, Inputs, Subgraphs
<1>4. e.order = "done" /\ e.tried = case.tried /\ e.mr = case.mr /\ e.closure = case.closure
  <2> DEFINE r == OrderClosed(case)
  <2>1. r.order = "done" /\ r.tried = case.tried /\ r.mr = case.mr /\ r.closure = case.closure
    BY <1>2, <1>3, OrderClosedSeen
  <2> HIDE DEF r
  <2>2. Same(r, e)
    BY DEF r
  <2> QED BY <2>1, <2>2 DEF Same
<1>5. Honest \/ (case' = e /\ Course' = "open" /\ Kept')
  BY StageHonest DEF StageNodes, Stops, Marked
<1>6. CASE case' = e /\ Course' = "open" /\ Kept'
  <2>1. Contract!CrewDone
    BY <1>2, <1>3, <1>4, <1>6 DEF Contract!CrewDone, Contract!Working
  <2> QED BY <1>6, <2>1 DEF Honest, Contract!Next
<1> QED BY <1>5, <1>6

LEMMA VisitHonest == ASSUME InOrder, Sure, CloseCleanBootsVisit \/ AbandonHandover PROVE Honest
<1>0. DOMAIN case = Fields
  BY CaseIsSound, CaseFields DEF InOrder
<1> DEFINE r == OrderClosed(case)
<1>1. DOMAIN r = Fields
  BY <1>0, OrderClosedSeen
<1>2. CASE CloseCleanBootsVisit
  <2>1. CASE Crash("crash:input")
    BY <2>1, LostHonestly
  <2>2. CASE ~Crash("crash:input")
    <3>1. PICK f \in Domains :
            Node("close_clean_boots_visit", "validating", [r EXCEPT !.dom = f], "field_execution")
      BY <1>2, <2>2 DEF CloseCleanBootsVisit, Needs, End
    <3> HIDE DEF r
    <3> DEFINE e == [r EXCEPT !.dom = f]
    <3>2. Same(r, e) /\ Node("close_clean_boots_visit", "validating", e, "field_execution")
      BY <1>1, <3>1, NotesUnseen
    <3> HIDE DEF e
    <3> QED BY <3>2, VisitEndsHonest DEF r, Marked
  <2> QED BY <2>1, <2>2
<1>3. CASE AbandonHandover
  <2>1. PICK x : Node("abandon_handover", "diagnosing", [r EXCEPT !.contract = x], "field_execution")
    BY <1>3 DEF AbandonHandover, End
  <2> HIDE DEF r
  <2> DEFINE e == [r EXCEPT !.contract = x]
  <2>2. Same(r, e)
    BY <1>1 DEF Same, Fields
  <2>3. Node("abandon_handover", "diagnosing", e, "field_execution")
    BY <2>1
  <2> HIDE DEF e
  <2> QED BY <2>2, <2>3, VisitEndsHonest DEF r, Marked
<1> QED BY <1>2, <1>3

\* The plant is asked when it holds nothing; a crew on site leaves.
LEMMA FilingHonest ==
  ASSUME InOrder, Sure, NEW n \in Filing, NEW reached, NEW e, NEW next \in Names,
         Same(Submitted(OrderClosed(case), reached), e), Node(n, "mr_raised", e, next)
  PROVE  Honest
<1>1. pc = n
  BY DEF Node, Write
<1>2. /\ Course = "open" /\ case.closure = "none" /\ DOMAIN case = Fields /\ Here(n, case)
  BY <1>1, OpenInStage
<1>3. case.mr # "awaiting_osp"
  BY <1>2 DEF Here, Clear, Filing, Following, Subgraphs
<1> DEFINE r == OrderClosed(case)
<1>4. /\ r.order = IF case.order = "open" THEN "done" ELSE case.order
      /\ r.tried = case.tried /\ r.closure = case.closure /\ DOMAIN r = Fields
  BY <1>2, OrderClosedSeen
<1> HIDE DEF r
<1>5. /\ e.mr = "awaiting_osp" /\ e.tried = r.tried /\ e.order = r.order /\ e.closure = r.closure
  <2> DEFINE q == Submitted(r, reached)
  <2>1. q.mr = "awaiting_osp" /\ q.tried = r.tried /\ q.order = r.order /\ q.closure = r.closure
    BY <1>4, SubmittedSeen
  <2>2. Same(q, e)
    BY DEF r
  <2> HIDE DEF q
  <2> QED BY <2>1, <2>2 DEF Same
<1>6. Honest \/ (case' = e /\ Course' = "open" /\ Kept')
  BY NameList, StageHonest DEF StageNodes, Stops
<1>7. CASE case' = e /\ Course' = "open" /\ Kept'
  <2>1. Contract!AskPlant
    BY <1>2, <1>3, <1>4, <1>5, <1>7 DEF Contract!AskPlant, Contract!Working
  <2> QED BY <1>7, <2>1 DEF Honest, Contract!Next
<1> QED BY <1>6, <1>7

LEMMA RequestHonest == ASSUME InOrder, Sure, FilePlantMR \/ FilePlantReferralMR PROVE Honest
<1>0. DOMAIN case = Fields
  BY CaseIsSound, CaseFields DEF InOrder
<1>1. CASE FilePlantMR
  <2>1. CASE Crash("crash:input")
    BY <2>1, LostHonestly
  <2>2. CASE ~Crash("crash:input")
    <3> DEFINE r(x) == Submitted(OrderClosed(case), x)
               e(x) == [r(x) EXCEPT !.contract = "accepted"]
    <3>1. PICK reached \in Reach :
            Node("file_plant_mr", "mr_raised", e(reached), "field_execution")
      BY <1>1, <2>2 DEF FilePlantMR, Needs, End
    <3>2. DOMAIN r(reached) = Fields
      BY <1>0, OrderClosedSeen, SubmittedSeen
    <3> HIDE DEF r
    <3>3. Same(r(reached), e(reached))
      BY <3>2 DEF Same, Fields
    <3> HIDE DEF e
    <3> QED BY <3>1, <3>3, FilingHonest, NameList DEF r, Filing
  <2> QED BY <2>1, <2>2
<1>2. CASE FilePlantReferralMR
  <2>1. PICK reached \in Reach :
          Node("file_plant_referral_mr", "mr_raised", Submitted(case, reached), "plant_referral")
    BY <1>2 DEF FilePlantReferralMR, End
  <2>2. pc = "file_plant_referral_mr"
    BY <2>1 DEF Node, Write
  <2>3. Here("file_plant_referral_mr", case)
    BY <2>2, OpenInStage DEF Filing
  <2>4. OrderClosed(case) = case
    BY <2>3 DEF Here, Clear, Visiting, Subgraphs, OrderClosed
  <2>5. Same(Submitted(OrderClosed(case), reached), Submitted(case, reached))
    BY <2>4 DEF Same
  <2> QED BY <2>1, <2>5, FilingHonest, NameList DEF Filing
<1> QED BY <1>1, <1>2

\* The plant crew reports, and leaves.
LEMMA ReportHonest == ASSUME InOrder, Sure, CapturePlantEvidence PROVE Honest
<1> DEFINE n == "capture_plant_evidence"
<1>1. CASE Crash("crash:input")
  BY <1>1, LostHonestly
<1>2. CASE ~Crash("crash:input")
  <2> DEFINE e(m) == [case EXCEPT !.mr = m]
  <2>1. PICK m \in {"awaiting_osp", "completed", "dead"} :
          Node(n, "awaiting_plant_repair", e(m), "plant_execution")
    BY <1>2 DEF CapturePlantEvidence, Needs, End
  <2>2. pc = n
    BY <2>1 DEF Node, Write
  <2>3. /\ Course = "open" /\ case.closure = "none" /\ DOMAIN case = Fields
        /\ Here(n, case) /\ At(n, status, outer, case)
    BY <2>2, OpenInStage
  <2>4. case.order # "open" /\ case.mr = "awaiting_osp"
    BY <2>3 DEF Here, Clear, Visiting, At, Inputs, Subgraphs
  <2>5. /\ e(m).mr = m /\ e(m).tried = case.tried /\ e(m).order = case.order
        /\ e(m).closure = case.closure
    BY <2>3 DEF Fields
  <2> HIDE DEF e
  <2>6. Honest \/ (case' = e(m) /\ Course' = "open" /\ Kept')
    BY <2>1, StageHonest DEF StageNodes, Stops
  <2>7. CASE case' = e(m) /\ Course' = "open" /\ Kept'
    <3>1. CASE m = "awaiting_osp"
      <4>1. UNCHANGED Contract!vars
        BY <2>3, <2>4, <2>5, <2>7, <3>1 DEF Contract!vars
      <4> QED BY <2>7, <4>1 DEF Honest
    <3>2. CASE m # "awaiting_osp"
      <4>1. Contract!PlantReports
        BY <2>1, <2>3, <2>4, <2>5, <2>7, <3>2 DEF Contract!PlantReports, Contract!Working
      <4> QED BY <2>7, <4>1 DEF Honest, Contract!Next
    <3> QED BY <3>1, <3>2
  <2> QED BY <2>6, <2>7
<1> QED BY <1>1, <1>2

\* The record is closed when nobody is at work.
LEMMA CloseHonest == ASSUME InOrder, Sure, CloseLinkedRecords PROVE Honest
<1> DEFINE n == "close_linked_records"
<1>1. CASE Crash("crash:input")
  BY <1>1, LostHonestly
<1>2. CASE ~Crash("crash:input")
  <2> DEFINE kind == IF case.verdict[Close] = "closure" THEN "exceptional" ELSE "normal"
             e == [case EXCEPT !.closure = kind]
  <2>1. PICK next \in {"record_chronic_pattern", "update_kpis_and_learning"} :
          Node(n, "resolved", e, next)
    BY <1>2 DEF CloseLinkedRecords, Needs
  <2>2. pc = n
    BY <2>1 DEF Node, Write
  <2>3. /\ Course = "open" /\ case.closure = "none" /\ DOMAIN case = Fields /\ Here(n, case)
    BY <2>2, OpenInStage
  <2>4. case.order # "open" /\ case.mr # "awaiting_osp"
    BY <2>3 DEF Here, Clear, Visiting, Following, Subgraphs
  <2>5. kind \in {"normal", "exceptional"}
    OBVIOUS
  <2> HIDE DEF kind
  <2>6. e.closure = kind /\ e.tried = case.tried /\ e.order = case.order /\ e.mr = case.mr
    BY <2>3 DEF Fields
  <2> HIDE DEF e
  <2>7. Honest \/ (case' = e /\ Course' = "open" /\ Kept')
    BY <2>1, <2>5, <2>6, StageHonest DEF StageNodes, Stops
  <2>8. CASE case' = e /\ Course' = "open" /\ Kept'
    <3>1. Contract!Close
      BY <2>3, <2>4, <2>5, <2>6, <2>8 DEF Contract!Close, Contract!Working, Contract!NobodyAtWork
    <3> QED BY <2>8, <3>1 DEF Honest, Contract!Next
  <2> QED BY <2>7, <2>8
<1> QED BY <1>1, <1>2

\* A run is said to be closed when its record is.
LEMMA ClosedHonest == ASSUME InOrder, Sure, UpdateKpisAndLearning PROVE Honest
<1> DEFINE n == "update_kpis_and_learning"
<1>1. Node(n, "closed", case, "reconciliation_closure") /\ pc = n
  BY DEF UpdateKpisAndLearning, End, Node, Write
<1>2. n \in Subgraphs["reconciliation_closure"] /\ "reconciliation_closure" \in Names
  BY NameList DEF Subgraphs
<1>3. n \in Nodes /\ n \in InnerNodes
  BY <1>2, NodeNames DEF InnerNodes, Names
<1>4. status = "resolved" /\ outer = "validating"
  BY <1>1, <1>2, <1>3, OpenAtNode, RestorationStages DEF At, Nested, Entered
<1>5. CASE case' = case /\ outer' = outer /\ Course = "open" /\ Course' = "open"
  <2>1. Kept'
    BY <1>4, <1>5 DEF InOrder, Kept
  <2> QED BY <1>5, <2>1 DEF Honest, Contract!vars
<1> QED BY <1>1, <1>3, <1>5, Ran DEF Stops

\* A node that finds a budget spent hands the incident over.
LEMMA GuardHonest == ASSUME InOrder, Sure, GuardTrips PROVE Honest
<1>1. pc \in Nodes
  BY DEF GuardTrips
<1>2. Merge(pc, FALSE, "escalated", TRUE, case,
            IF pc \in InnerNodes THEN End(SubgraphOf(pc)) ELSE "END")
  BY DEF GuardTrips
<1> QED BY <1>1, <1>2, HandsOverHonestly DEF Same

\* The end of a subgraph leads on, or the run leaves: escalated, closed, or never acted on.
LEMMA ReturnHonest ==
  ASSUME InOrder, Sure, NEW g \in Names, NEW next, Return(g, next),
         next \notin Stops \/ (next = "END" /\ g \in {"reconciliation_closure", "preventive_maintenance"})
  PROVE  Honest
<1>1. pc = g /\ pc \notin Stops /\ pc \notin Nodes
  BY NameList, EndsAreNotNodes DEF Return, End, Stops
<1>2. Course = IF escalated THEN "escalated" ELSE "open"
  BY <1>1 DEF Course, Stops
<1>3. CASE ~CanTransition(outer, status)
  BY <1>3, LostHonestly DEF Return
<1>4. CASE CanTransition(outer, status)
  <2>1. /\ outer' = status /\ status' = status /\ escalated' = escalated /\ case' = case
        /\ pc' = IF escalated THEN "END" ELSE next
    BY <1>4 DEF Return
  <2>2. CASE escalated
    <3>1. status = "escalated"
      BY <2>2 DEF InOrder, ControlInv, EscalationStops
    <3>2. Kept'
      BY <2>1, <3>1 DEF Kept
    <3>3. UNCHANGED Contract!vars
      BY <1>2, <2>1, <2>2 DEF Contract!vars, Course
    <3> QED BY <3>2, <3>3 DEF Honest
  <2>3. CASE ~escalated
    <3>1. /\ Stage(g, status) /\ Entered(g, outer)
      BY <1>1, <2>3 DEF InOrder, StatusInv, At, Nested
    <3>2. status \notin {"new", "triaging"}
      BY <3>1, NameList DEF Stage, Intake, Diagnosing, Asked, Gated, Scheduled, OnSite, Left
    <3>3. Kept'
      BY <2>1, <3>2 DEF InOrder, Kept
    <3>4. CASE next \notin Stops
      <4>1. Course' = "open"
        BY <2>1, <2>3, <3>4 DEF Course, Stops
      <4>2. UNCHANGED Contract!vars
        BY <1>2, <2>1, <2>3, <4>1 DEF Contract!vars
      <4> QED BY <3>3, <4>2 DEF Honest
    <3>5. CASE next = "END" /\ g \in {"reconciliation_closure", "preventive_maintenance"}
      <4>1. Course' = "ended"
        BY <2>1, <2>3, <3>5 DEF Course
      <4>2. case.closure # "none" \/ Contract!Untouched
        <5>1. CASE g = "reconciliation_closure"
          <6>1. status = "closed"
            BY <3>1, <5>1, RestorationStages
          <6> QED BY <6>1 DEF InOrder, Kept
        <5>2. CASE g = "preventive_maintenance"
          <6>1. outer = "triaging"
            BY <3>1, <5>2 DEF Entered
          <6> QED BY <6>1 DEF InOrder, Kept
        <5> QED BY <3>5, <5>1, <5>2
      <4>3. Contract!Leave
        BY <1>2, <2>1, <2>3, <4>1, <4>2 DEF Contract!Leave, Contract!Ends
      <4> QED BY <3>3, <4>3 DEF Honest, Contract!Next
    <3> QED BY <3>4, <3>5
  <2> QED BY <2>2, <2>3
<1> QED BY <1>3, <1>4

\* Every end of a subgraph leads to a node, or is one of the two that leave.
LEMMA ReturnsHonest == ASSUME InOrder, Sure, Returns PROVE Honest
<1>1. /\ {"open_field_visit", "search_plant_mr"} \cap Stops = {}
      /\ RouteRemoteOutcome(case) \notin Stops /\ RouteSelfHelpOutcome(case) \notin Stops
      /\ RouteCleanBootsOutcome(case) \notin Stops /\ RoutePlantOutcome(case) \notin Stops
      /\ RouteStability(case) \notin Stops
  BY RoutesGoOn DEF Stops
<1>2. Return("remote_resolution", RouteRemoteOutcome(case)) => Honest
  BY <1>1, ReturnHonest, NameList
<1>3. Return("self_help", RouteSelfHelpOutcome(case)) => Honest
  BY <1>1, ReturnHonest, NameList
<1>4. Return("field_planning", "open_field_visit") => Honest
  BY <1>1, ReturnHonest, NameList
<1>5. Return("field_execution", RouteCleanBootsOutcome(case)) => Honest
  BY <1>1, ReturnHonest, NameList
<1>6. Return("plant_referral", "search_plant_mr") => Honest
  BY <1>1, ReturnHonest, NameList
<1>7. Return("plant_execution", RoutePlantOutcome(case)) => Honest
  BY <1>1, ReturnHonest, NameList
<1>8. Return("restoration_validation", RouteStability(case)) => Honest
  BY <1>1, ReturnHonest, NameList
<1>9. Return("reconciliation_closure", "END") => Honest
  BY ReturnHonest, NameList
<1>10. Return("preventive_maintenance", "END") => Honest
  BY ReturnHonest, NameList
<1> QED
  BY <1>2, <1>3, <1>4, <1>5, <1>6, <1>7, <1>8, <1>9, <1>10 DEF Returns

\* Every step keeps the contract.
LEMMA NextHonest == InOrder /\ CaseInv' /\ [Next]_vars => Honest
<1> SUFFICES ASSUME InOrder, CaseInv', [Next]_vars PROVE Honest
  OBVIOUS
<1>1. CASE UNCHANGED vars
  <2>1. Kept' /\ UNCHANGED Contract!vars
    BY <1>1 DEF InOrder, Kept, vars, control, Course, Contract!vars, Contract!Untouched
  <2> QED BY <2>1 DEF Honest
<1>2. CASE Next /\ Sure
  <2>1. CASE DiagnosisNext
    BY <1>2, <2>1, DiagnosisUnseen, UnseenHonestly, SignalHonest, QuarantineHonest
  <2>2. CASE RemoteNext \/ SelfHelpNext
    BY <1>2, <2>2, RemoteUnseen, SelfHelpUnseen, UnseenHonestly, RepairHonest
  <2>3. CASE FieldNext
    BY <1>2, <2>3, FieldUnseen, UnseenHonestly, CommitHonest, VisitHonest, RequestHonest
  <2>4. CASE PlantNext
    BY <1>2, <2>4, PlantUnseen, UnseenHonestly, RequestHonest, ReportHonest
  <2>5. CASE RestorationNext
    BY <1>2, <2>5, RestorationUnseen, UnseenHonestly, CloseHonest, ClosedHonest
  <2>6. CASE PreventiveNext
    BY <1>2, <2>6, PreventiveUnseen, UnseenHonestly
  <2>7. CASE Returns
    BY <1>2, <2>7, ReturnsHonest
  <2>8. CASE GuardTrips
    BY <1>2, <2>8, GuardHonest
  <2> QED BY <1>1, <1>2, <2>1, <2>2, <2>3, <2>4, <2>5, <2>6, <2>7, <2>8 DEF Next, Stopped
<1> QED BY <1>1, <1>2, NextStatus DEF InOrder

\* A run starts open, with nothing done.
LEMMA InitContract == Init => Kept /\ Contract!Init
<1> SUFFICES ASSUME Init PROVE Kept /\ Contract!Init
  OBVIOUS
<1>1. /\ pc = "receive_signal" /\ ~escalated /\ status = "new"
      /\ case.tried = {} /\ case.order = "none" /\ case.mr = "none" /\ case.closure = "none"
  BY DEF Init
<1>2. Course = "open"
  BY <1>1 DEF Course
<1> QED BY <1>1, <1>2 DEF Kept, Contract!Init, Contract!Untouched

\* The graph keeps what it promises the customer, the crews and the reader of the record, whatever
\* the catalogue, the policy, the budgets and the fault domains: an attempt leaves only while nobody
\* is at work and never twice, the work order and the plant request follow their own courses, the
\* record is closed once and nothing is done after it, and a run that acted ends with a closure or a
\* human (`graph/builder.py`, `graph/routing.py` and the subgraphs' nodes).
THEOREM CaseKeepsContract == Spec => KeepsContract
<1>1. Kept /\ ControlInv /\ CaseInv /\ StatusInv /\ [Next]_vars
        => Kept' /\ [Contract!Next]_(Contract!vars)
  BY NextHonest, NextCase DEF InOrder, Honest
<1> QED
  BY <1>1, InitContract, StatusInvariant, PTL DEF Spec, KeepsContract, Contract!Spec
=============================================================================
