------------------------------ MODULE MCOutbox ------------------------------
(***************************************************************************)
(* Instances of Outbox for TLC.  Three attempts stand for the five of the  *)
(* source: one first call, one retry, one that exhausts the budget.  The   *)
(* backoff of base 1 and cap 2 has a first delay, a doubled one and the    *)
(* cap; a pass can outlast the delay it schedules.                         *)
(***************************************************************************)
EXTENDS Outbox

TwoKeys   == {1, 2}
OneKey    == {1}
=============================================================================
