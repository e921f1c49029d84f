--------------------------- MODULE MCAssessment ---------------------------
(***************************************************************************)
(* A fibre service whose line and whose tap can contradict each other: the *)
(* line has the lighter claim, and the one that tests can repeat.  The tap *)
(* is found on the way: only a diagnosis of the line names it.             *)
(***************************************************************************)
EXTENDS Assessment

MCResolved == {"service"}
MCDetectors == {"pon_optical", "cluster", "localiser"}
MCStrengths == [pon_optical |-> {40}, cluster |-> {70}, localiser |-> {50}]
=============================================================================
