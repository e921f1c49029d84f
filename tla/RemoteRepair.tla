---------------------------- MODULE RemoteRepair ----------------------------
(***************************************************************************)
(* The remote-resolution subgraph (P12): select, gate, approve, execute,   *)
(* verify.                                                                 *)
(***************************************************************************)
EXTENDS Routing

RouteRemoteGate(d) ==
  OptionGate(d, "prepare_remote_approval", "execute_remote_repair", "abandon_remote_action")

SelectRemoteAction ==
  \E d \in SelectOption(case, Remote) : Quiet("select_remote_action", d, RouteRemoteGate(d))

PrepareRemoteApproval ==
  Node("prepare_remote_approval", "awaiting_approval", case, "request_remote_approval")

\* The run waits here for a human; the gate is asked again with the answer.
RequestRemoteApproval ==
  \E ans \in Answers :
    LET d == AnsweredOnce(case, ans)
    IN Quiet("request_remote_approval", d, RouteRemoteGate(d))

AbandonRemoteAction ==
  Node("abandon_remote_action", "diagnosing", case, End("remote_resolution"))

\* The write may succeed, fail, or be held back by the adapter before it leaves the process.
ExecuteRemoteRepair ==
  \E gathered \in Gathered(case), reached \in Reach, worked \in BOOLEAN :
    /\ worked => reached
    /\ Node("execute_remote_repair", "remote_resolution",
            [Acted(gathered, case.chosen, reached) EXCEPT !.ran = worked], "verify_remote_repair")

\* `fixed_it`: the action succeeded and the device came back.
VerifyRemoteRepair ==
  \E read \in Read(case), passed \in BOOLEAN : \E d \in Gathered(read) :
    Quiet("verify_remote_repair", [d EXCEPT !.fixed = @ \/ (d.ran /\ passed)],
          End("remote_resolution"))

RemoteNext ==
  \/ SelectRemoteAction \/ PrepareRemoteApproval \/ RequestRemoteApproval
  \/ AbandonRemoteAction \/ ExecuteRemoteRepair \/ VerifyRemoteRepair
=============================================================================
