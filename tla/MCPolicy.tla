------------------------------ MODULE MCPolicy ------------------------------
(***************************************************************************)
(* Instances of PolicyEngine: the shipped pack and one edit of it for      *)
(* every validator and for most of the settings the checks read.           *)
(***************************************************************************)
EXTENDS PolicyEngine

RowOf(a, field, value) == [Shipped EXCEPT !.rows[a][field] = value]

\* Edits a validator refuses, in the order of the conjuncts of Loads.
Refused ==
  { [Shipped EXCEPT !.flags = {"stale_data"}],
    [Shipped EXCEPT !.sources.dispatch = 1],  [Shipped EXCEPT !.age.dispatch = 61],
    [Shipped EXCEPT !.review = 65],
    [Shipped EXCEPT !.risks["low"].asks = TRUE],
    [Shipped EXCEPT !.radius.delimiter = 121], [Shipped EXCEPT !.radius.pon_port = 2001],
    [Shipped EXCEPT !.reasons.mr = 2],
    [Shipped EXCEPT !.stability.plant = 29],
    [Shipped EXCEPT !.closure.signed = FALSE],
    [Shipped EXCEPT !.backoff.retries = 4],
    [Shipped EXCEPT !.bands = <<80, 80, 40>>],
    [Shipped EXCEPT !.visits.longest = 541],
    [Shipped EXCEPT !.response[3] = 481], [Shipped EXCEPT !.restore[5] = 29],
    [Shipped EXCEPT !.rows = [a \in ActionType \ {"raise_mr"} |-> ShippedRow(a)]],
    RowOf("cpe_reboot", "risk", "lowest"), RowOf("cpe_reboot", "counter", "total_steps"),
    [Shipped EXCEPT !.approvals = [k \in ApprovalKind \ {"dispatch"} |-> ShippedRole(k)]],
    [Shipped EXCEPT !.approvals["high_blast_radius_action"] = "noc_operator"],
    [Shipped EXCEPT !.target = "service_desk"],
    [Shipped EXCEPT !.threshold = 2001] }

Accepted ==
  { [Shipped EXCEPT !.flags = Flags],
    [Shipped EXCEPT !.sources = [diagnosis |-> 1, remote_action |-> 3, dispatch |-> 3, closure |-> 4]],
    [Shipped EXCEPT !.bars.mr = 50], [Shipped EXCEPT !.ambiguity = 30],
    [Shipped EXCEPT !.risks["low"] = Risk(TRUE, "high_risk_remote_action", 1)],
    [Shipped EXCEPT !.risks["medium"].cap = 64],
    RowOf("close_incident", "kind", "dispatch"), RowOf("node_level_reset", "window", TRUE),
    RowOf("raise_mr", "caps", {100}), RowOf("profile_change", "counter", "mr"),
    [Shipped EXCEPT !.limits["work_order"] = 3],
    [Shipped EXCEPT !.closure.exceptional = FALSE], [Shipped EXCEPT !.closure.proof = FALSE],
    [Shipped EXCEPT !.contact.from = 60],
    [Shipped EXCEPT !.contact.override = "high"] }

Edits == Refused \cup Accepted
Askers == {"automation", "noc_supervisor"}
=============================================================================
