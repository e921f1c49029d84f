-------------------------- MODULE IncidentContract --------------------------
(***************************************************************************)
(* What the graph promises, about one incident, to those it works with:    *)
(* the customer and the network it sends attempts to, the field crew, the  *)
(* plant crew, and whoever reads the incident's record.  It knows nothing  *)
(* of nodes, statuses, approvals or budgets.                               *)
(*                                                                         *)
(* One party works on the incident at a time; no option is carried out     *)
(* twice; the record is closed once, when nobody is at work, and nothing   *)
(* is done after it; and an incident that was acted on is never dropped:   *)
(* it ends with a closure, or with a human, or lost in the one way `Lose`  *)
(* names.                                                                  *)
(***************************************************************************)

CONSTANTS Options,    \* what may be done about an incident
          Dispatch    \* the option that sends a crew

VARIABLES course,   \* "open", or how the run ended: "ended", "escalated" to a human, or "lost"
          sent,     \* the options that have left the process
          crew,     \* the work order: "none", "open" or "done"
          plant,    \* the latest plant request: "none", "awaiting_osp", "completed" or "dead"
          record    \* the closure: "none", "normal" or "exceptional"

vars == <<course, sent, crew, plant, record>>

Init ==
  /\ course = "open" /\ sent = {}
  /\ crew = "none" /\ plant = "none" /\ record = "none"

Working == course = "open" /\ record = "none"
NobodyAtWork == crew # "open" /\ plant # "awaiting_osp"
Untouched == sent = {} /\ crew = "none" /\ plant = "none"

Attempt(a) ==
  /\ Working /\ NobodyAtWork
  /\ a \in Options \ (sent \cup {Dispatch})
  /\ sent' = sent \cup {a}
  /\ UNCHANGED <<course, crew, plant, record>>

\* An order that the adapter holds back is open all the same, and may be sent once more.
SendCrew ==
  /\ Working /\ NobodyAtWork
  /\ Dispatch \notin sent
  /\ crew' = "open"
  /\ sent' \in {sent, sent \cup {Dispatch}}
  /\ UNCHANGED <<course, plant, record>>

CrewDone ==
  /\ Working
  /\ crew = "open" /\ crew' = "done"
  /\ UNCHANGED <<course, sent, plant, record>>

\* The crew, if one is on site, hands over to the plant and leaves.
AskPlant ==
  /\ Working
  /\ plant # "awaiting_osp" /\ plant' = "awaiting_osp"
  /\ crew' = IF crew = "open" THEN "done" ELSE crew
  /\ UNCHANGED <<course, sent, record>>

PlantReports ==
  /\ Working
  /\ crew # "open"
  /\ plant = "awaiting_osp" /\ plant' \in {"completed", "dead"}
  /\ UNCHANGED <<course, sent, crew, record>>

Close ==
  /\ Working /\ NobodyAtWork
  /\ record' \in {"normal", "exceptional"}
  /\ UNCHANGED <<course, sent, crew, plant>>

Ends(how) ==
  /\ course = "open" /\ course' = how
  /\ UNCHANGED <<sent, crew, plant, record>>

HandOver == Ends("escalated")
Leave == (record # "none" \/ Untouched) /\ Ends("ended")
\* The one way a run is lost: it asks the plant again, from a visit, once an earlier request is over.
Lose == record = "none" /\ crew = "open" /\ plant \in {"completed", "dead"} /\ Ends("lost")

Next ==
  \/ \E a \in Options : Attempt(a)
  \/ SendCrew \/ CrewDone \/ AskPlant \/ PlantReports
  \/ Close \/ HandOver \/ Leave \/ Lose

Spec == Init /\ [][Next]_vars
=============================================================================
