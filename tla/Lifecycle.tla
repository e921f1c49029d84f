----------------------------- MODULE Lifecycle -----------------------------
(***************************************************************************)
(* The incident lifecycle: which status may follow which.                  *)
(* `advance_status`, the reducer of the `status` channel, raises on a pair *)
(* that `can_transition` refuses, so this table decides whether a node's   *)
(* write is accepted or ends the run.                                      *)
(***************************************************************************)

\* The hops a node may make.
Transitions ==
  [new                   |-> {"triaging", "cancelled", "closed", "escalated"},
   triaging              |-> {"diagnosing", "awaiting_approval", "closed", "cancelled", "escalated"},
   diagnosing            |-> {"awaiting_approval", "remote_resolution", "self_help",
                              "dispatch_planning", "validating", "resolved", "escalated", "cancelled"},
   awaiting_approval     |-> {"diagnosing", "remote_resolution", "self_help", "dispatch_planning",
                              "awaiting_handover", "mr_raised", "reconciling", "resolved", "closed",
                              "escalated", "cancelled"},
   remote_resolution     |-> {"validating", "diagnosing", "self_help", "dispatch_planning",
                              "awaiting_approval", "escalated", "cancelled"},
   self_help             |-> {"awaiting_customer", "validating", "diagnosing", "dispatch_planning",
                              "escalated", "cancelled"},
   awaiting_customer     |-> {"self_help", "validating", "diagnosing", "dispatch_planning",
                              "escalated", "cancelled"},
   dispatch_planning     |-> {"awaiting_approval", "field_in_progress", "diagnosing", "escalated",
                              "cancelled"},
   field_in_progress     |-> {"awaiting_handover", "validating", "diagnosing", "dispatch_planning",
                              "escalated", "cancelled"},
   awaiting_handover     |-> {"mr_raised", "field_in_progress", "awaiting_approval", "escalated",
                              "cancelled"},
   mr_raised             |-> {"awaiting_plant_repair", "awaiting_handover", "escalated", "cancelled"},
   awaiting_plant_repair |-> {"validating", "mr_raised", "diagnosing", "dispatch_planning",
                              "escalated", "cancelled"},
   validating            |-> {"reconciling", "diagnosing", "remote_resolution", "dispatch_planning",
                              "escalated", "cancelled"},
   reconciling           |-> {"resolved", "awaiting_approval", "escalated", "cancelled"},
   resolved              |-> {"closed", "reconciling", "diagnosing", "escalated"},
   closed                |-> {},
   cancelled             |-> {},
   escalated             |-> {"diagnosing", "remote_resolution", "dispatch_planning",
                              "awaiting_handover", "mr_raised", "validating", "reconciling",
                              "resolved", "closed", "cancelled"}]

Statuses == DOMAIN Transitions

\* Mutant: the closing stage's pair is missing.
StageTransitionsWithoutClosing ==
  {<<"dispatch_planning", "validating">>, <<"dispatch_planning", "mr_raised">>,
   <<"diagnosing", "mr_raised">>}
\* The pairs a whole stage may make, seen by a parent that is shown only the stage's last write.
StageTransitions == {<<"dispatch_planning", "validating">>, <<"dispatch_planning", "mr_raised">>,
                     <<"validating", "closed">>, <<"diagnosing", "mr_raised">>}

\* Writing the status a case already has is a re-run of the node, and is accepted.
CanTransition(current, requested) ==
  \/ current = requested
  \/ requested \in Transitions[current]
  \/ <<current, requested>> \in StageTransitions
=============================================================================
