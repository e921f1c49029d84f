------------------------------ MODULE SelfHelp ------------------------------
(***************************************************************************)
(* The self-help subgraph (P13): instructions are sent, the customer is    *)
(* waited for, and the device is read again.                               *)
(***************************************************************************)
EXTENDS Routing

RouteSelfHelpGate(d) ==
  OptionGate(d, "prepare_self_help_approval", "send_self_help_instructions", "abandon_self_help")

SelectSelfHelpScript ==
  \E d \in SelectOption(case, {Selfhelp}) :
    Quiet("select_self_help_script", d, RouteSelfHelpGate(d))

PrepareSelfHelpApproval ==
  Node("prepare_self_help_approval", "awaiting_approval", case, "request_self_help_approval")

RequestSelfHelpApproval ==
  \E ans \in Answers :
    LET d == AnsweredOnce(case, ans)
    IN Quiet("request_self_help_approval", d, RouteSelfHelpGate(d))

\* A session is opened whatever became of the message.
SendSelfHelpInstructions ==
  \E d \in Gathered(case), reached \in Reach :
    Node("send_self_help_instructions", "self_help",
         [Acted(d, case.chosen, reached) EXCEPT !.session = "open"], "mark_awaiting_customer")

MarkAwaitingCustomer ==
  Needs("mark_awaiting_customer", case.session # "none",
    Node("mark_awaiting_customer", "awaiting_customer", case, "await_customer_response"))

\* A reply, even a late one, comes before the deadline's verdict; no reply in time waits on.
RouteCustomerAnswer(d) ==
  CASE d.session = "open" -> "await_customer_response"
    [] d.session = "completed" -> "verify_self_help"
    [] OTHER -> "abandon_self_help"

AwaitCustomerResponse ==
  Needs("await_customer_response", case.session # "none",
    \E s \in {"open", "completed", "declined", "timed_out"} :
      LET d == [case EXCEPT !.session = s]
      IN Quiet("await_customer_response", d, RouteCustomerAnswer(d)))

VerifySelfHelp ==
  Needs("verify_self_help", case.session # "none",
    \E read \in Read(case), s \in {"resolved", "not_resolved"} : \E d \in Gathered(read) :
      Node("verify_self_help", "self_help", [d EXCEPT !.session = s], End("self_help")))

AbandonSelfHelp == Node("abandon_self_help", "diagnosing", case, End("self_help"))

SelfHelpNext ==
  \/ SelectSelfHelpScript \/ PrepareSelfHelpApproval \/ RequestSelfHelpApproval
  \/ SendSelfHelpInstructions \/ MarkAwaitingCustomer \/ AwaitCustomerResponse
  \/ VerifySelfHelp \/ AbandonSelfHelp
=============================================================================
