--------------------------- MODULE OutboxContract ---------------------------
(***************************************************************************)
(* What the outbox promises about one intended external write, whatever    *)
(* the store, the relay loop or the clock do: an intent is recorded once,  *)
(* tried a bounded number of times, and then rests in one of two final     *)
(* phases.  Outbox.tla is shown to implement this for one relay.           *)
(***************************************************************************)
EXTENDS Naturals

CONSTANTS Keys,         \* idempotency keys
          MaxAttempts   \* attempts before an intent is given up, at least 1

VARIABLES phase,   \* phase[k]: "absent", "open", "sent" or "dead"
          tries    \* tries[k]: attempts whose outcome has been recorded

vars == <<phase, tries>>

Init ==
  /\ phase = [k \in Keys |-> "absent"]
  /\ tries = [k \in Keys |-> 0]

Record(k) ==
  /\ phase[k] = "absent"
  /\ phase' = [phase EXCEPT ![k] = "open"]
  /\ UNCHANGED tries

\* One more attempt is on record; what it leaves behind is "next".
Attempt(k, next) ==
  /\ phase[k] = "open"
  /\ tries[k] < MaxAttempts
  /\ tries' = [tries EXCEPT ![k] = @ + 1]
  /\ phase' = [phase EXCEPT ![k] = next]

Deliver(k) == Attempt(k, "sent")
Retry(k)   == tries[k] + 1 < MaxAttempts /\ Attempt(k, "open")
GiveUp(k)  == tries[k] + 1 = MaxAttempts /\ Attempt(k, "dead")

Settle(k) == Deliver(k) \/ Retry(k) \/ GiveUp(k)

Next == \E k \in Keys : Record(k) \/ Settle(k)

Safety == Init /\ [][Next]_vars
Spec   == Safety /\ \A k \in Keys : WF_vars(Settle(k))
=============================================================================
