------------------------------- MODULE Outbox -------------------------------
(***************************************************************************)
(* The transactional outbox of persistence/outbox.py: the write gate that  *)
(* stages intents in memory, the flush that makes them rows, the table,    *)
(* and the relay processes that drain it.                                  *)
(*                                                                         *)
(* Time is relative.  wait[k] is what is left until row k's                *)
(* next_attempt_at, elapsed[r] is how long ago relay r read the clock at   *)
(* the start of its pass; Tick moves both.  created_at only orders rows,   *)
(* so an instant is a natural number that staging may advance.             *)
(***************************************************************************)
EXTENDS Naturals, FiniteSets, Sequences

CONSTANTS
  Keys,               \* idempotency keys: numbers in the order of their event_id hash
  Wired,              \* the keys whose target_system has a handler
  Relays,             \* relay processes draining the same table
  NoKey,              \* "no event in hand"
  MaxAttempts,        \* max_attempts
  Base, Cap,          \* backoff base and cap, in clock units
  Limit,              \* rows a pass claims at most
  MaxStagings,        \* bound: calls of WriteGate.authorize
  MaxWorkflowCrashes, \* bound: crashes of the process that runs the graph
  MaxRelayCrashes,    \* bound: crashes of relays
  MaxEnqueueErrors    \* bound: enqueue calls that raise

ASSUME OutboxConstants ==
  /\ Keys \subseteq Nat /\ Wired \subseteq Keys /\ NoKey \notin Keys
  /\ MaxAttempts \in Nat \ {0} /\ Base \in Nat \ {0} /\ Cap \in Nat /\ Base <= Cap
  /\ Limit \in Nat \ {0} /\ IsFiniteSet(Relays)
  /\ MaxStagings \in Nat /\ MaxWorkflowCrashes \in Nat
  /\ MaxRelayCrashes \in Nat /\ MaxEnqueueErrors \in Nat

VARIABLES
  \* the process that runs the graph
  running,       \* the node in flight, as the key it authorises; {} between nodes
  decided,       \* keys whose node has returned and been checkpointed
  staged,        \* StagedWrites._events
  flushing,      \* the list flush has swapped out and not enqueued yet
  instant,       \* the clock reading of the latest staging
  \* the table
  row,           \* row[k]: status, attempts, born (created_at)
  wait,          \* wait[k]: time left until next_attempt_at
  \* the relays
  pc,            \* "idle", "claiming", "looping", "returned" or "raised"
  found,         \* due rows the claim's SELECT saw and has not come to yet
  batch,         \* claimed events the pass has not finished; the row locks of an open claim
  current,       \* the loop variable of drain_once
  copy,          \* copy[r][k]: attempts as claimed
  elapsed,       \* time since the pass read the clock
  tally,         \* keys the pass has counted failed, and counted dead
  orphans,       \* row locks of sessions whose relay is dead and which the server still keeps
  \* history and bounds
  calls,         \* calls[k]: dispatches made for k
  acked,         \* keys some dispatch of which returned
  dropped,       \* keys that a relay took into a batch, died with, and nobody has called yet
  used           \* how much of each bound is used up

workflowVars == <<running, decided, staged, flushing, instant>>
tableVars    == <<row, wait>>
relayVars    == <<pc, found, batch, current, copy, elapsed, tally, orphans>>
historyVars  == <<calls, acked, dropped>>
vars == <<workflowVars, tableVars, relayVars, historyVars, used>>

Statuses == {"absent", "pending", "failed", "sent", "dead"}
Row      == [status : Statuses, attempts : Nat, born : Nat]
Event    == [key : Keys, born : Nat]
Bounds   == [stagings : Nat, workflow : Nat, relay : Nat, enqueue : Nat]

TypeOK ==
  /\ running \in SUBSET Keys /\ decided \in SUBSET Keys
  /\ staged \in Seq(Event) /\ flushing \in Seq(Event) /\ instant \in Nat
  /\ row \in [Keys -> Row] /\ wait \in [Keys -> 0..Cap]
  /\ pc \in [Relays -> {"idle", "claiming", "looping", "returned", "raised"}]
  /\ found \in [Relays -> SUBSET Keys] /\ batch \in [Relays -> SUBSET Keys]
  /\ current \in [Relays -> Keys \cup {NoKey}]
  /\ copy \in [Relays -> [Keys -> Nat]] /\ elapsed \in [Relays -> 0..Cap]
  /\ tally \in [Relays -> [failed : SUBSET Keys, dead : SUBSET Keys]]
  /\ orphans \in SUBSET Keys
  /\ calls \in [Keys -> Nat] /\ acked \in SUBSET Keys /\ dropped \in SUBSET Keys /\ used \in Bounds

Recorded(k) == row[k].status # "absent"
Settled(k)  == row[k].status \in {"sent", "dead"}
Open(k)     == row[k].status \in {"pending", "failed"}

NoTally == [failed |-> {}, dead |-> {}]

Init ==
  /\ running = {} /\ decided = {} /\ staged = <<>> /\ flushing = <<>> /\ instant = 0
  /\ row = [k \in Keys |-> [status |-> "absent", attempts |-> 0, born |-> 0]]
  /\ wait = [k \in Keys |-> 0]
  /\ pc = [r \in Relays |-> "idle"]
  /\ found = [r \in Relays |-> {}]
  /\ batch = [r \in Relays |-> {}]
  /\ current = [r \in Relays |-> NoKey]
  /\ copy = [r \in Relays |-> [k \in Keys |-> 0]]
  /\ elapsed = [r \in Relays |-> 0]
  /\ tally = [r \in Relays |-> NoTally] /\ orphans = {}
  /\ calls = [k \in Keys |-> 0] /\ acked = {} /\ dropped = {}
  /\ used = [stagings |-> 0, workflow |-> 0, relay |-> 0, enqueue |-> 0]

-----------------------------------------------------------------------------
(* The process that runs the graph *)

\* A node body calls authorize, which stages the intent whether or not the
\* write is permitted.  A node that has not been checkpointed may run again
\* (an interrupt is resumed, or the process restarted) and stage k again.
Authorize(k) ==
  /\ k \notin decided /\ running \subseteq {k}
  /\ used.stagings < MaxStagings
  /\ used' = [used EXCEPT !.stagings = @ + 1]
  /\ running' = {k}
  /\ \E now \in {instant, instant + 1} :
       /\ instant' = now
       /\ staged' = Append(staged, [key |-> k, born |-> now])
  /\ UNCHANGED <<decided, flushing, tableVars, relayVars, historyVars>>

\* The framework checkpoints after the node has returned; from then on the
\* node does not run again.
Checkpoint ==
  /\ running # {}
  /\ decided' = decided \cup running
  /\ running' = {}
  /\ UNCHANGED <<staged, flushing, instant, tableVars, relayVars, historyVars, used>>

\* flush, once an invoke is over: the list is swapped out before any row exists.
BeginFlush ==
  /\ running = {} /\ flushing = <<>> /\ staged # <<>>
  /\ flushing' = staged
  /\ staged' = <<>>
  /\ UNCHANGED <<running, decided, instant, tableVars, relayVars, historyVars, used>>

\* Mutant: a second enqueue of a key resets its row.
EnqueueOverwrites ==
  /\ flushing # <<>>
  /\ LET event == Head(flushing) IN
       row' = [row EXCEPT ![event.key] =
                 [status |-> "pending", attempts |-> 0, born |-> event.born]]
  /\ flushing' = Tail(flushing)
  /\ UNCHANGED <<running, decided, staged, instant, wait, relayVars, historyVars, used>>

\* Mutant: the list is cleared when the flush is over, with what was staged meanwhile.
EnqueueThenClear ==
  /\ flushing # <<>>
  /\ LET event == Head(flushing) IN
       row' = IF Recorded(event.key) THEN row
              ELSE [row EXCEPT ![event.key] =
                      [status |-> "pending", attempts |-> 0, born |-> event.born]]
  /\ flushing' = Tail(flushing)
  /\ staged' = IF flushing' = <<>> THEN <<>> ELSE staged
  /\ UNCHANGED <<running, decided, instant, wait, relayVars, historyVars, used>>

\* enqueue: insert, or answer False for a key the table already holds.
EnqueueNext ==
  /\ flushing # <<>>
  /\ LET event == Head(flushing) IN
       row' = IF Recorded(event.key) THEN row
              ELSE [row EXCEPT ![event.key] =
                      [status |-> "pending", attempts |-> 0, born |-> event.born]]
  /\ flushing' = Tail(flushing)
  /\ UNCHANGED <<running, decided, staged, instant, wait, relayVars, historyVars, used>>

\* enqueue raises (the database is away): flush is abandoned with its list.
EnqueueRaises ==
  /\ flushing # <<>>
  /\ used.enqueue < MaxEnqueueErrors
  /\ used' = [used EXCEPT !.enqueue = @ + 1]
  /\ flushing' = <<>>
  /\ UNCHANGED <<running, decided, staged, instant, tableVars, relayVars, historyVars>>

\* The process dies.  Checkpoints and rows survive, lists in memory do not.
CrashWorkflow ==
  /\ used.workflow < MaxWorkflowCrashes
  /\ used' = [used EXCEPT !.workflow = @ + 1]
  /\ running' = {} /\ staged' = <<>> /\ flushing' = <<>>
  /\ UNCHANGED <<decided, instant, tableVars, relayVars, historyVars>>

-----------------------------------------------------------------------------
(* A relay *)

Older(j, k)  == row[j].born < row[k].born

\* Mutant: claim_due orders by event_id alone.
BeforeByKey(j, k) == j < k

Before(j, k) == Older(j, k) \/ (row[j].born = row[k].born /\ j < k)

\* Mutant: the status is left out of the WHERE.
DueOrSettled(k) == Recorded(k) /\ wait[k] = 0

Due(k) == Open(k) /\ wait[k] = 0

First(k, S) == k \in S /\ \A j \in S : j = k \/ Before(k, j)

\* Rows another session has locked: of an open claim, or left behind by a dead relay.
LockedFor(r) == orphans \cup UNION {batch[q] : q \in {p \in Relays \ {r} : pc[p] = "claiming"}}

\* Rows another relay is about to mark, or is just marking: its UPDATE may hold the lock.
MarkedFor(r) == {current[q] : q \in {p \in Relays \ {r} : pc[p] \in {"returned", "raised"}}}

\* drain_once reads the clock and opens the claim; the SELECT sees the rows due by now.
BeginClaim(r) ==
  /\ pc[r] = "idle"
  /\ \E k \in Keys : Due(k)
  /\ pc' = [pc EXCEPT ![r] = "claiming"]
  /\ found' = [found EXCEPT ![r] = {k \in Keys : Due(k)}]
  /\ elapsed' = [elapsed EXCEPT ![r] = 0]
  /\ tally' = [tally EXCEPT ![r] = NoTally]
  /\ UNCHANGED <<workflowVars, tableVars, batch, current, copy, orphans, historyVars, used>>

\* The SELECT comes to the next row it saw, in order, until it has Limit of them.
ComesTo(r, k) ==
  /\ pc[r] = "claiming" /\ First(k, found[r])
  /\ Cardinality(batch[r]) < Limit
  /\ found' = [found EXCEPT ![r] = @ \ {k}]
  /\ UNCHANGED <<workflowVars, tableVars, pc, current, elapsed, tally, orphans, historyVars, used>>

\* FOR UPDATE: it locks the row and reads it.
LockRow(r, k) ==
  /\ ComesTo(r, k)
  /\ Due(k) /\ k \notin LockedFor(r)
  /\ batch' = [batch EXCEPT ![r] = @ \cup {k}]
  /\ copy' = [copy EXCEPT ![r][k] = row[k].attempts]

\* SKIP LOCKED; and a row that changed since the SELECT saw it must still be due.
PassOver(r, k) ==
  /\ ComesTo(r, k)
  /\ ~Due(k) \/ k \in LockedFor(r) \cup MarkedFor(r)
  /\ UNCHANGED <<batch, copy>>

\* The claim commits, which gives its row locks back, and returns the events.
EndClaim(r) ==
  /\ pc[r] = "claiming"
  /\ found[r] = {} \/ Cardinality(batch[r]) = Limit
  /\ pc' = [pc EXCEPT ![r] = "looping"]
  /\ found' = [found EXCEPT ![r] = {}]
  /\ UNCHANGED <<workflowVars, tableVars, batch, current, copy, elapsed, tally, orphans,
                 historyVars, used>>

\* The next event of the loop is dispatched, and the call ends as "outcome".
Dispatch(r, k, outcome) ==
  /\ pc[r] = "looping"
  /\ First(k, batch[r])
  /\ current' = [current EXCEPT ![r] = k]
  /\ pc' = [pc EXCEPT ![r] = outcome]
  /\ calls' = [calls EXCEPT ![k] = @ + 1]
  /\ dropped' = dropped \ {k}
  /\ UNCHANGED <<workflowVars, tableVars, found, batch, copy, elapsed, tally, orphans, used>>

DispatchReturns(r, k) ==
  /\ k \in Wired
  /\ Dispatch(r, k, "returned")
  /\ acked' = acked \cup {k}

\* Mutant: a target without a handler is skipped quietly.
DispatchSkips(r, k) ==
  /\ Dispatch(r, k, "returned")
  /\ UNCHANGED acked

\* No handler, or a handler that raises, before or after it took effect.
DispatchRaises(r, k) ==
  /\ Dispatch(r, k, "raised")
  /\ UNCHANGED acked

NextEvent(r) ==
  /\ batch' = [batch EXCEPT ![r] = @ \ {current[r]}]
  /\ current' = [current EXCEPT ![r] = NoKey]
  /\ pc' = [pc EXCEPT ![r] = "looping"]

\* Mutant: the attempt is not counted.
BookedUncounted(k, status) ==
  [row EXCEPT ![k] =
     [status |-> status, attempts |-> row[k].attempts, born |-> row[k].born]]

\* One more attempt on row k, which overwrites the status whatever it is by now.
Booked(k, status) ==
  [row EXCEPT ![k] =
     [status |-> status, attempts |-> row[k].attempts + 1, born |-> row[k].born]]

\* Mutant: mark_sent runs inside the try, and its own failure is booked as one.
MarkSentAsFailed(r) ==
  /\ pc[r] = "returned" /\ current[r] \notin LockedFor(r)
  /\ row' = Booked(current[r], "failed")
  /\ NextEvent(r)
  /\ UNCHANGED <<workflowVars, wait, found, copy, elapsed, tally, orphans, historyVars, used>>

\* An UPDATE waits for a lock that another session has on the row.
MarkSent(r) ==
  /\ pc[r] = "returned" /\ current[r] \notin LockedFor(r)
  /\ row' = Booked(current[r], "sent")
  /\ NextEvent(r)
  /\ UNCHANGED <<workflowVars, wait, found, copy, elapsed, tally, orphans, historyVars, used>>

\* base * 2^(attempts - 1), capped, times a factor in [1/2, 1].
RawDelay(n) == IF Base * 2^(n - 1) < Cap THEN Base * 2^(n - 1) ELSE Cap

\* Mutant: the cap is forgotten.
UncappedDelays(n) == {d \in 0..Base * 2^(n - 1) : Base * 2^(n - 1) <= 2 * d}

Delays(n) == {d \in 0..Cap : RawDelay(n) <= 2 * d /\ d <= RawDelay(n)}

\* next_attempt_at is counted from the clock reading of the pass, not from now.
Reschedule(r, k) ==
  \E d \in Delays(row[k].attempts + 1) :
    wait' = [wait EXCEPT ![k] = IF elapsed[r] < d THEN d - elapsed[r] ELSE 0]

\* Mutant: a dead letter is counted as one more failure.
CountedFailed(t, k, dead) == [t EXCEPT !.failed = @ \cup {k}]

Counted(t, k, dead) ==
  IF dead THEN [t EXCEPT !.dead = @ \cup {k}] ELSE [t EXCEPT !.failed = @ \cup {k}]

\* The store counts from the row, the relay's report from its own copy.
MarkFailed(r) ==
  LET k == current[r]
      exhausted == row[k].attempts + 1 >= MaxAttempts
      countedDead == copy[r][k] + 1 >= MaxAttempts
  IN
  /\ pc[r] = "raised" /\ k \notin LockedFor(r)
  /\ row' = Booked(k, IF exhausted THEN "dead" ELSE "failed")
  /\ IF exhausted THEN UNCHANGED wait ELSE Reschedule(r, k)
  /\ tally' = [tally EXCEPT ![r] = Counted(tally[r], k, countedDead)]
  /\ NextEvent(r)
  /\ UNCHANGED <<workflowVars, found, copy, elapsed, orphans, historyVars, used>>

Forget(r) ==
  /\ pc' = [pc EXCEPT ![r] = "idle"]
  /\ found' = [found EXCEPT ![r] = {}]
  /\ batch' = [batch EXCEPT ![r] = {}]
  /\ current' = [current EXCEPT ![r] = NoKey]
  /\ elapsed' = [elapsed EXCEPT ![r] = 0]
  /\ tally' = [tally EXCEPT ![r] = NoTally]
  /\ copy' = [copy EXCEPT ![r] = [k \in Keys |-> 0]]

EndPass(r) ==
  /\ pc[r] = "looping" /\ batch[r] = {}
  /\ Forget(r)
  /\ UNCHANGED <<workflowVars, tableVars, orphans, historyVars, used>>

\* The row locks of the transaction a relay may have open.
Locks(r) ==
  CASE pc[r] = "claiming"              -> batch[r]
    [] pc[r] \in {"returned", "raised"} -> {current[r]}
    [] OTHER                           -> {}

\* The relay dies wherever it is in a pass and is started again.  The server
\* rolls its transaction back, at once or when it finds the connection dead.
CrashRelay(r) ==
  /\ pc[r] # "idle"
  /\ used.relay < MaxRelayCrashes
  /\ used' = [used EXCEPT !.relay = @ + 1]
  /\ orphans' = orphans \/ orphans' = orphans \cup Locks(r)
  /\ dropped' = dropped \cup {k \in batch[r] : calls[k] = 0}
  /\ Forget(r)
  /\ UNCHANGED <<workflowVars, tableVars, calls, acked>>

DropSessions ==
  /\ orphans # {}
  /\ orphans' = {}
  /\ UNCHANGED <<workflowVars, tableVars, pc, found, batch, current, copy, elapsed, tally,
                 historyVars, used>>

Tick ==
  /\ wait' = [k \in Keys |-> IF wait[k] = 0 THEN 0 ELSE wait[k] - 1]
  /\ elapsed' = [r \in Relays |-> IF pc[r] = "idle" \/ elapsed[r] = Cap THEN elapsed[r]
                                  ELSE elapsed[r] + 1]
  /\ <<wait, elapsed>>' # <<wait, elapsed>>
  /\ UNCHANGED <<workflowVars, row, pc, found, batch, current, copy, tally, orphans,
                 historyVars, used>>

-----------------------------------------------------------------------------
Workflow ==
  \/ \E k \in Keys : Authorize(k)
  \/ Checkpoint \/ BeginFlush \/ EnqueueNext \/ EnqueueRaises \/ CrashWorkflow

Drain(r) ==
  \/ BeginClaim(r) \/ EndClaim(r) \/ MarkSent(r) \/ MarkFailed(r) \/ EndPass(r)
  \/ \E k \in Keys : \/ LockRow(r, k) \/ PassOver(r, k)
                    \/ DispatchReturns(r, k) \/ DispatchRaises(r, k)

Next == Workflow \/ Tick \/ DropSessions \/ \E r \in Relays : Drain(r) \/ CrashRelay(r)

\* A started invoke, flush or pass runs on, the clock moves, and the server finds
\* out about dead sessions.  Somebody keeps calling flush and drain_once: nothing
\* in the package does, so this is asked of the deployment.  Nothing is assumed
\* about what a handler answers.
Fairness ==
  /\ WF_vars(Checkpoint) /\ WF_vars(BeginFlush) /\ WF_vars(EnqueueNext)
  /\ WF_vars(Tick) /\ WF_vars(DropSessions)
  /\ \A r \in Relays : WF_vars(Drain(r))

Safety == Init /\ [][Next]_vars
Spec   == Safety /\ Fairness

-----------------------------------------------------------------------------
(* Properties that hold whatever the number of relays *)

\* A row says "sent" only of a write some handler acknowledged: a dispatcher
\* that refuses or raises never leaves a row that looks delivered.
SentWasAcknowledged == \A k \in Keys : row[k].status = "sent" => k \in acked

\* Staging the same intent again never makes a second row or alters the first:
\* once recorded, a row keeps its created_at and never loses an attempt.
RowsOnlyAdvance ==
  [][\A k \in Keys : Recorded(k) =>
        /\ row'[k].status \notin {"absent", "pending"} \/ row'[k] = row[k]
        /\ row'[k].born = row[k].born
        /\ row'[k].attempts >= row[k].attempts]_vars

Calling(k) == {r \in Relays : current[r] = k}
Holding(k) == {r \in Relays : k \in batch[r]}

\* Every dispatch is on the row's books, except those in flight and those a
\* relay crash interrupted before the outcome was written.
CallsAreAccounted ==
  \A k \in Keys : calls[k] <= row[k].attempts + used.relay + Cardinality(Calling(k))

\* The far side is called at most max_attempts times for one intent, plus one
\* for each relay beyond the first and for each relay crash.
CallBudget ==
  \A k \in Keys : calls[k] + 1 <= MaxAttempts + Cardinality(Relays) + used.relay

\* An intent is not called while an older one on record never has been
\* (outbox.py:244-247), unless that one is in another relay's batch, which is
\* what SKIP LOCKED (outbox.py:350) lets happen, or was in the batch of a relay
\* that died.  One relay that stays alive keeps the order strictly.
FirstCallsInOrder ==
  [][\A r \in Relays, j, k \in Keys :
       pc[r] = "looping" /\ current'[r] = k /\ Recorded(j) /\ Older(j, k) /\ calls[j] = 0
         => j \in dropped \/ \E q \in Relays \ {r} : j \in batch[q]]_vars

-----------------------------------------------------------------------------
(* Properties of a table that one relay drains *)

\* A row has used up its attempts exactly when it is dead; a row that still
\* retries has attempts left.
AttemptsMatchStatus ==
  \A k \in Keys :
    /\ row[k].attempts <= MaxAttempts
    /\ row[k].status = "dead" => row[k].attempts = MaxAttempts
    /\ row[k].status = "failed" => row[k].attempts \in 1..(MaxAttempts - 1)
    /\ row[k].status \in {"absent", "pending"} => row[k].attempts = 0

\* A sent or dead row is final.
SettledRowsAreFinal == [][\A k \in Keys : Settled(k) => row'[k] = row[k]]_vars

\* What the pass will report agrees with the table: it counts a dead letter
\* exactly for the rows it killed.
TallyMatchesTable ==
  \A r \in Relays :
    /\ \A k \in tally[r].dead : row[k].status = "dead"
    /\ \A k \in tally[r].failed : row[k].status = "failed"

Abstract(status) ==
  CASE status = "absent"                -> "absent"
    [] status \in {"pending", "failed"} -> "open"
    [] OTHER                            -> status

Contract == INSTANCE OutboxContract
              WITH phase <- [k \in Keys |-> Abstract(row[k].status)],
                   tries <- [k \in Keys |-> row[k].attempts]

\* One relay and its store implement the contract, its liveness included: each
\* recorded intent settles.
ImplementsContract == Contract!Spec

Held(k) ==
  \/ \E i \in DOMAIN staged : staged[i].key = k
  \/ \E i \in DOMAIN flushing : flushing[i].key = k

\* Checkpointed, so its node will not run again; not on record, and nowhere in memory.
Lost(k) == k \in decided /\ ~Recorded(k) /\ ~Held(k)

\* A decision is lost only in a step in which the process dies before its flush
\* (gap OUTBOX-1 of the module) or an enqueue raises after flush has swapped the list out.
LostOnlyByFaults ==
  [][\A k \in Keys : ~Lost(k) /\ Lost(k)' =>
       used'.workflow > used.workflow \/ used'.enqueue > used.enqueue]_vars

\* As long as somebody calls flush, a checkpointed decision becomes a row, unless
\* it is lost; and only those two faults lose one, not a replay, not what is
\* staged while a flush is under way, not a duplicate in its list.
DecidedIsRecorded ==
  LostOnlyByFaults /\ \A k \in Keys : k \in decided ~> Recorded(k) \/ Lost(k)

-----------------------------------------------------------------------------
(* What the documentation says of several relays *)

\* Nothing further happens to a dead letter unless somebody acts, however many
\* relays run.
DeadStaysDead == [][\A k \in Keys : row[k].status = "dead" => row'[k] = row[k]]_vars
=============================================================================
