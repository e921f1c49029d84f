------------------------------ MODULE MCGates ------------------------------
(***************************************************************************)
(* Instances of Gates: a question any operator may decide, one that needs  *)
(* a supervisor, and a pause that is no approval.                          *)
(***************************************************************************)
EXTENDS Gates, TLC

TwoKinds == {"dispatch", "blast_radius"}
TwoRoles == {"operator", "supervisor"}
Rbac == [k \in Kinds |-> IF k = "dispatch" THEN {"operator", "supervisor"} ELSE {"supervisor"}]
RequestSymmetry == Permutations(Requests)
=============================================================================
