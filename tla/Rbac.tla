-------------------------------- MODULE Rbac --------------------------------
(***************************************************************************)
(* Who may ask for an action, and who may sign for one                     *)
(* (security/rbac.py, over the enumerations of domain/enums.py).           *)
(***************************************************************************)
EXTENDS FiniteSets

Roles == {"noc_operator", "noc_supervisor", "field_technician", "osp_engineer", "service_desk",
          "automation", "auditor", "admin"}

ReadOnly         == {"read_status", "run_diagnostic"}
SafeRemote       == {"cpe_reboot", "cpe_resync", "wifi_channel_change", "wifi_power_change"}
DisruptiveRemote == {"cpe_firmware_update", "cpe_factory_reset", "profile_change", "reprovision"}
NetworkAffecting == {"node_level_reset", "olt_port_reset", "bulk_config_push"}
Workflow == {"send_self_help", "create_work_order", "cancel_work_order", "raise_mr", "update_mr",
             "notify_customer", "close_incident", "create_pm_case"}

ActionType == ReadOnly \cup SafeRemote \cup DisruptiveRemote \cup NetworkAffecting \cup Workflow

Allowlist(role) ==
  CASE role = "noc_operator" -> ReadOnly \cup SafeRemote \cup DisruptiveRemote \cup Workflow
    [] role = "noc_supervisor" -> ActionType
    [] role = "field_technician" ->
         ReadOnly \cup SafeRemote
           \cup {"create_work_order", "cancel_work_order", "raise_mr", "update_mr", "notify_customer"}
    [] role = "osp_engineer" ->
         ReadOnly \cup {"olt_port_reset", "node_level_reset", "raise_mr", "update_mr",
                        "create_work_order", "create_pm_case"}
    [] role = "service_desk" -> ReadOnly \cup {"send_self_help", "notify_customer", "create_work_order"}
    [] role = "automation" ->
         ReadOnly \cup SafeRemote \cup {"cpe_firmware_update", "profile_change"}
           \cup (Workflow \ {"cancel_work_order"})
    [] role = "auditor" -> {"read_status"}
    [] role = "admin" -> ActionType
    [] OTHER -> {}   \* none, and what `Role.parse` does not know

\* `ToolAllowlist.permits`
Permits(role, action) == action \in Allowlist(role)

ApprovalKind == {"low_confidence_rca", "high_risk_remote_action", "dispatch",
                 "clean_to_dirty_handover", "high_blast_radius_action", "exceptional_closure"}

\* `approvers_for`
ApproversFor(kind) ==
  CASE kind = "low_confidence_rca" -> {"noc_operator", "noc_supervisor", "osp_engineer", "admin"}
    [] kind \in {"high_risk_remote_action", "dispatch"} -> {"noc_operator", "noc_supervisor", "admin"}
    [] kind = "clean_to_dirty_handover" ->
         {"osp_engineer", "noc_supervisor", "field_technician", "admin"}
    [] kind \in {"high_blast_radius_action", "exceptional_closure"} -> {"noc_supervisor", "admin"}

\* `can_approve`; a role nobody knows is in no set.
CanApprove(role, kind) == role \in ApproversFor(kind)
=============================================================================
