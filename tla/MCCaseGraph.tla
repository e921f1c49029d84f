---------------------------- MODULE MCCaseGraph ----------------------------
(***************************************************************************)
(* Instances of the case graph.  The policy and the catalogue are chosen   *)
(* so that each instance reaches one half of the graph in full: the desk   *)
(* (remote repair and self-help), or the field (a visit, the plant).       *)
(***************************************************************************)
EXTENDS CaseGraph

\* The desk: one remote action and self-help, and every gate a repair can meet.
DeskOffered == [d \in Domains |-> {"reboot", Selfhelp}]
DeskVerdicts ==
  [a \in Actions \cup {UpdateMR} |->
     CASE a = "reboot" -> {"allowed", "high_risk", "low_confidence", "blast_radius"}
       [] a = Selfhelp -> {"allowed", "high_risk"}
       [] a = Close -> {"allowed", "closure", "blocked"}
       [] OTHER -> {"blocked"}]

\* The field: a reboot, then a visit, for a fault at the premises; the plant crew for one beyond.
FieldOffered == [d \in Domains |-> IF d = "plant" THEN {} ELSE Remote \cup {Dispatch}]
FieldVerdicts ==
  [a \in Actions \cup {UpdateMR} |->
     CASE a \in Remote -> {"allowed"}
       [] a = Dispatch -> {"dispatch", "blocked"}
       [] a = RaiseMR -> {"handover", "blocked"}
       [] a = UpdateMR -> {"allowed", "low_confidence"}
       [] a = Close -> {"allowed", "closure"}
       [] OTHER -> {"blocked"}]

\* Nodes inside the loops: looking an identity up again, gathering again, asking again.
LoopNodes == {"resolve_identity_and_topology", "assemble_case_evidence", "prepare_remote_approval"}
============================================================================
