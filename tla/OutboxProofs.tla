---------------------------- MODULE OutboxProofs ----------------------------
(***************************************************************************)
(* Proofs about Outbox for every set of keys and relays and every bound.   *)
(***************************************************************************)
EXTENDS Outbox, FiniteSetTheorems, TLAPS

\* A row that gains an attempt is still a row, and the others stay as they are.
LEMMA BookedRow ==
  ASSUME row \in [Keys -> Row], NEW k \in Keys, NEW s \in Statuses
  PROVE  /\ Booked(k, s) \in [Keys -> Row]
         /\ Booked(k, s)[k].status = s
         /\ Booked(k, s)[k].attempts = row[k].attempts + 1
         /\ Booked(k, s)[k].born = row[k].born
         /\ \A j \in Keys : j # k => Booked(k, s)[j] = row[j]
  BY DEF Row, Booked

\* Using up one unit of a bound leaves a record of bounds.
LEMMA BoundUsed ==
  ASSUME used \in Bounds
  PROVE  /\ [used EXCEPT !.stagings = @ + 1] \in Bounds
         /\ [used EXCEPT !.workflow = @ + 1] \in Bounds
         /\ [used EXCEPT !.relay = @ + 1] \in Bounds
         /\ [used EXCEPT !.enqueue = @ + 1] \in Bounds
  BY DEF Bounds

\* Counting one more key leaves a tally.
LEMMA TallyGrows ==
  ASSUME NEW t \in [failed : SUBSET Keys, dead : SUBSET Keys], NEW k \in Keys
  PROVE  /\ [t EXCEPT !.dead = @ \cup {k}] \in [failed : SUBSET Keys, dead : SUBSET Keys]
         /\ [t EXCEPT !.failed = @ \cup {k}] \in [failed : SUBSET Keys, dead : SUBSET Keys]
  OBVIOUS

-----------------------------------------------------------------------------
(* Types *)

\* The loop variable of a pass is an event of its batch exactly while a
\* dispatched call waits for its mark; an idle relay holds nothing.
Cursor ==
  \A r \in Relays :
    /\ pc[r] \in {"returned", "raised"} => current[r] \in batch[r]
    /\ pc[r] \in {"idle", "claiming", "looping"} => current[r] = NoKey
    /\ pc[r] = "idle" => batch[r] = {}

TypeInv == TypeOK /\ Cursor

\* What a step of the process that runs the graph leaves well typed.
LEMMA WorkflowType == TypeOK /\ Workflow => TypeOK'
<1> SUFFICES ASSUME TypeOK, Workflow PROVE TypeOK'
  OBVIOUS
<1> USE DEF tableVars, relayVars, historyVars
<1>1. ASSUME NEW k \in Keys, Authorize(k) PROVE TypeOK'
  <2>1. PICK now \in {instant, instant + 1} :
          instant' = now /\ staged' = Append(staged, [key |-> k, born |-> now])
    BY <1>1 DEF Authorize
  <2>2. now \in Nat
    BY DEF TypeOK
  <2>3. staged' \in Seq(Event) /\ instant' \in Nat
    BY <2>1, <2>2 DEF Event, TypeOK
  <2>4. used' \in Bounds /\ running' \in SUBSET Keys
    BY <1>1, BoundUsed DEF Authorize, TypeOK
  <2>5. QED BY <1>1, <2>3, <2>4 DEF Authorize, TypeOK
<1>2. CASE Checkpoint
  BY <1>2 DEF Checkpoint, TypeOK
<1>3. CASE BeginFlush
  BY <1>3 DEF BeginFlush, TypeOK
<1>4. CASE EnqueueNext
  <2>1. Head(flushing) \in Event /\ Tail(flushing) \in Seq(Event)
    BY <1>4 DEF EnqueueNext, TypeOK
  <2>2. row' \in [Keys -> Row]
    BY <1>4, <2>1 DEF EnqueueNext, Row, Statuses, Event, TypeOK
  <2>3. QED BY <1>4, <2>1, <2>2 DEF EnqueueNext, TypeOK
<1>5. CASE EnqueueRaises
  <2>1. flushing' \in Seq(Event) /\ used' \in Bounds
    BY <1>5, BoundUsed DEF EnqueueRaises, TypeOK
  <2>2. QED BY <1>5, <2>1 DEF EnqueueRaises, TypeOK
<1>6. CASE CrashWorkflow
  <2>1. staged' \in Seq(Event) /\ flushing' \in Seq(Event) /\ used' \in Bounds
    BY <1>6, BoundUsed DEF CrashWorkflow, TypeOK
  <2>2. QED BY <1>6, <2>1 DEF CrashWorkflow, TypeOK
<1>7. QED BY <1>1, <1>2, <1>3, <1>4, <1>5, <1>6 DEF Workflow

\* The mark a relay writes, and the mark alone, changes a row and its wait.
LEMMA MarkFailedTable ==
  ASSUME TypeInv, NEW r \in Relays, MarkFailed(r)
  PROVE  /\ current[r] \in Keys /\ row' \in [Keys -> Row] /\ wait' \in [Keys -> 0..Cap]
         /\ \/ row' = Booked(current[r], "dead") /\ row[current[r]].attempts + 1 >= MaxAttempts
            \/ row' = Booked(current[r], "failed") /\ row[current[r]].attempts + 1 < MaxAttempts
<1>1. current[r] \in Keys
  BY DEF TypeInv, Cursor, TypeOK, MarkFailed
<1>2. \/ row' = Booked(current[r], "dead") /\ row[current[r]].attempts + 1 >= MaxAttempts
      \/ row' = Booked(current[r], "failed") /\ row[current[r]].attempts + 1 < MaxAttempts
  <2>1. row' = Booked(current[r], IF row[current[r]].attempts + 1 >= MaxAttempts
                                  THEN "dead" ELSE "failed")
    BY DEF MarkFailed
  <2>2. row[current[r]].attempts \in Nat /\ MaxAttempts \in Nat
    BY <1>1, OutboxConstants DEF TypeInv, TypeOK, Row
  <2>3. QED BY <2>1, <2>2
<1>3. row' \in [Keys -> Row]
  BY <1>1, <1>2, BookedRow DEF TypeInv, TypeOK, Statuses
<1>4. wait' \in [Keys -> 0..Cap]
  <2>1. CASE Reschedule(r, current[r])
    <3>1. PICK d \in Delays(row[current[r]].attempts + 1) :
            wait' = [wait EXCEPT ![current[r]] = IF elapsed[r] < d THEN d - elapsed[r] ELSE 0]
      BY <2>1 DEF Reschedule
    <3>2. d \in 0..Cap
      BY <3>1 DEF Delays
    <3>3. (IF elapsed[r] < d THEN d - elapsed[r] ELSE 0) \in 0..Cap
      BY <3>2, OutboxConstants DEF TypeInv, TypeOK
    <3>4. QED BY <3>1, <3>3, <1>1 DEF TypeInv, TypeOK
  <2>2. CASE UNCHANGED wait
    BY <2>2 DEF TypeInv, TypeOK
  <2>3. QED BY <2>1, <2>2 DEF MarkFailed
<1>5. QED BY <1>1, <1>2, <1>3, <1>4

\* What a claim leaves alone, and what locking a row adds to its batch.
LEMMA ClaimSteps ==
  ASSUME NEW r \in Relays
  PROVE  /\ BeginClaim(r) \/ EndClaim(r) \/ (\E k \in Keys : PassOver(r, k)) =>
              UNCHANGED <<workflowVars, row, wait, batch, current, copy, calls, acked, dropped,
                          orphans, used>>
         /\ \A k \in Keys : LockRow(r, k) =>
              /\ UNCHANGED <<workflowVars, row, wait, pc, current, elapsed, tally, calls, acked,
                             dropped, orphans, used>>
              /\ pc[r] = "claiming" /\ Due(k) /\ k \in found[r]
              /\ found' = [found EXCEPT ![r] = found[r] \ {k}]
              /\ batch' = [batch EXCEPT ![r] = batch[r] \cup {k}]
              /\ copy' = [copy EXCEPT ![r][k] = row[k].attempts]
  BY DEF BeginClaim, EndClaim, PassOver, LockRow, ComesTo, First, tableVars, historyVars

\* What a step of a relay leaves well typed.
LEMMA RelayType ==
  ASSUME TypeInv, NEW r \in Relays, Drain(r) \/ CrashRelay(r)
  PROVE  TypeOK'
<1> TypeOK
  BY DEF TypeInv
<1> USE DEF workflowVars, tableVars, historyVars
<1>1. CASE BeginClaim(r) \/ EndClaim(r)
  <2>1. /\ found' \in [Relays -> SUBSET Keys] /\ elapsed' \in [Relays -> 0..Cap]
        /\ pc' \in [Relays -> {"idle", "claiming", "looping", "returned", "raised"}]
        /\ tally' \in [Relays -> [failed : SUBSET Keys, dead : SUBSET Keys]]
    <3>1. 0 \in 0..Cap /\ NoTally \in [failed : SUBSET Keys, dead : SUBSET Keys]
      BY OutboxConstants DEF NoTally
    <3>2. CASE BeginClaim(r)
      <4>1. /\ found' = [found EXCEPT ![r] = {k \in Keys : Due(k)}]
            /\ elapsed' = [elapsed EXCEPT ![r] = 0] /\ tally' = [tally EXCEPT ![r] = NoTally]
            /\ pc' = [pc EXCEPT ![r] = "claiming"]
        BY <3>2 DEF BeginClaim
      <4>2. QED BY <3>1, <4>1 DEF TypeOK
    <3>3. CASE EndClaim(r)
      BY <3>3 DEF EndClaim, TypeOK
    <3>4. QED BY <1>1, <3>2, <3>3
  <2>2. UNCHANGED <<workflowVars, row, wait, batch, current, copy, calls, acked, dropped,
                    orphans, used>>
    BY <1>1, ClaimSteps
  <2>3. QED BY <2>1, <2>2 DEF TypeOK
<1>8. ASSUME NEW k \in Keys, LockRow(r, k) \/ PassOver(r, k) PROVE TypeOK'
  <2>1. found' \in [Relays -> SUBSET Keys] /\ UNCHANGED <<pc, elapsed, tally>>
    BY <1>8 DEF LockRow, PassOver, ComesTo, TypeOK
  <2>2. CASE LockRow(r, k)
    <3>1. batch' \in [Relays -> SUBSET Keys]
      <4>1. batch' = [batch EXCEPT ![r] = batch[r] \cup {k}]
        BY <2>2, ClaimSteps
      <4>2. QED BY <4>1 DEF TypeOK
    <3>2. copy' \in [Relays -> [Keys -> Nat]]
      <4>1. row[k].attempts \in Nat
        BY DEF TypeOK, Row
      <4>2. copy' = [copy EXCEPT ![r][k] = row[k].attempts]
        BY <2>2, ClaimSteps
      <4>3. QED BY <4>1, <4>2 DEF TypeOK
    <3>3. UNCHANGED <<workflowVars, row, wait, current, calls, acked, dropped, orphans, used>>
      BY <2>2, ClaimSteps
    <3>4. QED BY <2>1, <3>1, <3>2, <3>3 DEF TypeOK
  <2>3. CASE PassOver(r, k)
    <3>1. UNCHANGED <<workflowVars, row, wait, batch, current, copy, calls, acked, dropped,
                      orphans, used>>
      BY <2>3, ClaimSteps
    <3>2. QED BY <2>1, <3>1 DEF TypeOK
  <2>4. QED BY <1>8, <2>2, <2>3
<1>2. ASSUME NEW k \in Keys, DispatchReturns(r, k) PROVE TypeOK'
  BY <1>2 DEF DispatchReturns, Dispatch, TypeOK
<1>3. ASSUME NEW k \in Keys, DispatchRaises(r, k) PROVE TypeOK'
  BY <1>3 DEF DispatchRaises, Dispatch, TypeOK
<1>4. CASE MarkSent(r)
  <2>1. current[r] \in Keys
    BY <1>4 DEF TypeInv, Cursor, TypeOK, MarkSent
  <2>2. row' \in [Keys -> Row]
    BY <1>4, <2>1, BookedRow DEF MarkSent, TypeOK, Statuses
  <2>3. QED BY <1>4, <2>2 DEF MarkSent, NextEvent, TypeOK
<1>5. CASE MarkFailed(r)
  <2>1. current[r] \in Keys /\ row' \in [Keys -> Row] /\ wait' \in [Keys -> 0..Cap]
    BY <1>5, MarkFailedTable
  <2>2. tally' \in [Relays -> [failed : SUBSET Keys, dead : SUBSET Keys]]
    <3>1. tally[r] \in [failed : SUBSET Keys, dead : SUBSET Keys]
      BY DEF TypeOK
    <3>2. \A d : Counted(tally[r], current[r], d) \in [failed : SUBSET Keys, dead : SUBSET Keys]
      BY <2>1, <3>1, TallyGrows DEF Counted
    <3>3. \E d : tally' = [tally EXCEPT ![r] = Counted(tally[r], current[r], d)]
      BY <1>5 DEF MarkFailed
    <3>4. QED BY <3>2, <3>3 DEF TypeOK
  <2>3. QED BY <1>5, <2>1, <2>2 DEF MarkFailed, NextEvent, TypeOK
<1>6. CASE EndPass(r) \/ CrashRelay(r)
  <2>1. Forget(r) /\ used' \in Bounds /\ UNCHANGED <<workflowVars, tableVars, calls, acked>>
    BY <1>6, BoundUsed DEF EndPass, CrashRelay, TypeOK
  <2>2. Locks(r) \in SUBSET Keys
    <3>1. pc[r] \in {"returned", "raised"} => current[r] \in Keys
      BY DEF TypeInv, Cursor, TypeOK
    <3>2. QED BY <3>1 DEF Locks, TypeOK
  <2>3. orphans' \in SUBSET Keys /\ dropped' \in SUBSET Keys
    BY <1>6, <2>2 DEF EndPass, CrashRelay, TypeOK
  <2>4. QED BY <2>1, <2>3, OutboxConstants DEF Forget, NoTally, TypeOK
<1>7. QED BY <1>1, <1>2, <1>3, <1>4, <1>5, <1>6, <1>8 DEF Drain

LEMMA TickType == TypeOK /\ Tick => TypeOK'
<1> SUFFICES ASSUME TypeOK, Tick PROVE TypeOK'
  OBVIOUS
<1>1. wait' \in [Keys -> 0..Cap] /\ elapsed' \in [Relays -> 0..Cap]
  BY OutboxConstants DEF Tick, TypeOK
<1>2. QED BY <1>1 DEF Tick, TypeOK, workflowVars, historyVars

LEMMA DropType == TypeOK /\ DropSessions => TypeOK'
  BY DEF DropSessions, TypeOK, workflowVars, tableVars, historyVars

LEMMA CursorStep == TypeInv /\ [Next]_vars => Cursor'
<1> SUFFICES ASSUME TypeOK, Cursor, [Next]_vars PROVE Cursor'
  BY DEF TypeInv
<1>1. CASE Workflow
  BY <1>1 DEF Workflow, Authorize, Checkpoint, BeginFlush, EnqueueNext, EnqueueRaises,
              CrashWorkflow, relayVars, Cursor
<1>2. CASE Tick \/ DropSessions \/ UNCHANGED vars
  BY <1>2 DEF Tick, DropSessions, vars, relayVars, Cursor
<1>3. ASSUME NEW r \in Relays, Drain(r) \/ CrashRelay(r) PROVE Cursor'
  <2>1. CASE BeginClaim(r) \/ EndClaim(r)
    BY <2>1 DEF BeginClaim, EndClaim, Cursor, TypeOK
  <2>6. ASSUME NEW k \in Keys, LockRow(r, k) \/ PassOver(r, k) PROVE Cursor'
    BY <2>6 DEF LockRow, PassOver, ComesTo, Cursor, TypeOK
  <2>2. ASSUME NEW k \in Keys, NEW o \in {"returned", "raised"}, Dispatch(r, k, o)
        PROVE  Cursor'
    BY <2>2 DEF Dispatch, First, Cursor, TypeOK
  <2>3. CASE MarkSent(r) \/ MarkFailed(r)
    BY <2>3 DEF MarkSent, MarkFailed, NextEvent, Cursor, TypeOK
  <2>4. CASE EndPass(r) \/ CrashRelay(r)
    BY <2>4 DEF EndPass, CrashRelay, Forget, Cursor, TypeOK
  <2>5. QED
    BY <1>3, <2>1, <2>2, <2>3, <2>4, <2>6 DEF Drain, DispatchReturns, DispatchRaises
<1>4. QED BY <1>1, <1>2, <1>3 DEF Next

LEMMA TypeInvariance == Safety => []TypeInv
<1>1. Init => TypeInv
  BY OutboxConstants DEF Init, TypeInv, TypeOK, Cursor, Row, Statuses, Event, Bounds, NoTally
<1>2. TypeInv /\ [Next]_vars => TypeInv'
  <2> SUFFICES ASSUME TypeInv, [Next]_vars PROVE TypeInv'
    OBVIOUS
  <2>1. CASE UNCHANGED vars
    BY <2>1, CursorStep
    DEF vars, workflowVars, tableVars, relayVars, historyVars, TypeInv, TypeOK
  <2>2. CASE Next
    BY <2>2, WorkflowType, TickType, DropType, RelayType, CursorStep DEF Next, TypeInv
  <2>3. QED BY <2>1, <2>2
<1>3. QED BY <1>1, <1>2, PTL DEF Safety

\* Every variable keeps its type.
THEOREM TypeCorrect == Safety => []TypeOK
<1>1. TypeInv => TypeOK
  BY DEF TypeInv
<1>2. QED BY <1>1, TypeInvariance, PTL

-----------------------------------------------------------------------------
(* Sent means acknowledged, whatever the number of relays *)

\* A relay about to mark a row sent has seen that call return.
AckInv ==
  /\ SentWasAcknowledged
  /\ \A r \in Relays : pc[r] = "returned" => current[r] \in acked

\* What EnqueueNext does to the table: nothing, or one new pending row.
LEMMA EnqueueTable ==
  ASSUME TypeOK, EnqueueNext
  PROVE  \/ row' = row
         \/ \E k \in Keys, b \in Nat :
              /\ row[k].status = "absent"
              /\ row' = [row EXCEPT ![k] = [status |-> "pending", attempts |-> 0, born |-> b]]
<1>1. Head(flushing) \in Event
  BY DEF EnqueueNext, TypeOK
<1>2. QED BY <1>1 DEF EnqueueNext, Recorded, Event

\* A row marked sent belongs to a write some handler acknowledged.
THEOREM SentAcknowledged == Safety => []SentWasAcknowledged
<1>1. Init => AckInv
  BY DEF Init, AckInv, SentWasAcknowledged
<1>2. TypeInv /\ AckInv /\ [Next]_vars => AckInv'
  <2> SUFFICES ASSUME TypeOK, Cursor, AckInv, [Next]_vars PROVE AckInv'
    BY DEF TypeInv
  <2> USE DEF AckInv, SentWasAcknowledged
  <2>1. CASE EnqueueNext
    <3>1. UNCHANGED <<pc, current, acked>>
      BY <2>1 DEF EnqueueNext, relayVars, historyVars
    <3>2. CASE row' = row
      BY <3>1, <3>2
    <3>3. ASSUME NEW k \in Keys, NEW b \in Nat,
                 row' = [row EXCEPT ![k] = [status |-> "pending", attempts |-> 0, born |-> b]]
          PROVE  AckInv'
      BY <3>1, <3>3 DEF TypeOK
    <3>4. QED BY <2>1, <3>2, <3>3, EnqueueTable
  <2>2. CASE \/ \E k \in Keys : Authorize(k)
             \/ Checkpoint \/ BeginFlush \/ EnqueueRaises \/ CrashWorkflow
             \/ Tick \/ DropSessions \/ UNCHANGED vars
    BY <2>2 DEF Authorize, Checkpoint, BeginFlush, EnqueueRaises, CrashWorkflow, Tick,
                DropSessions, vars, tableVars, relayVars, historyVars
  <2>3. ASSUME NEW r \in Relays, BeginClaim(r) \/ EndClaim(r) \/ EndPass(r) \/ CrashRelay(r)
        PROVE  AckInv'
    BY <2>3 DEF BeginClaim, EndClaim, EndPass, CrashRelay, Forget, tableVars, historyVars, TypeOK
  <2>8. ASSUME NEW r \in Relays, NEW k \in Keys, LockRow(r, k) \/ PassOver(r, k) PROVE AckInv'
    BY <2>8 DEF LockRow, PassOver, ComesTo, tableVars, historyVars
  <2>4. ASSUME NEW r \in Relays, NEW k \in Keys, DispatchReturns(r, k) \/ DispatchRaises(r, k)
        PROVE  AckInv'
    <3>1. row' = row /\ acked \subseteq acked'
      BY <2>4 DEF DispatchReturns, DispatchRaises, Dispatch, tableVars
    <3>2. ASSUME NEW q \in Relays, pc'[q] = "returned" PROVE current'[q] \in acked'
      <4>1. CASE q # r
        BY <2>4, <3>1, <3>2, <4>1 DEF DispatchReturns, DispatchRaises, Dispatch, TypeOK
      <4>2. CASE q = r /\ DispatchReturns(r, k)
        BY <4>2 DEF DispatchReturns, Dispatch, TypeOK
      <4>3. CASE q = r /\ DispatchRaises(r, k)
        BY <3>2, <4>3 DEF DispatchRaises, Dispatch, TypeOK
      <4>4. QED BY <2>4, <4>1, <4>2, <4>3
    <3>3. QED BY <3>1, <3>2
  <2>5. ASSUME NEW r \in Relays, MarkSent(r) PROVE AckInv'
    <3>1. current[r] \in Keys /\ current[r] \in acked
      BY <2>5 DEF MarkSent, Cursor, TypeOK
    <3>2. \A j \in Keys : j # current[r] => row'[j] = row[j]
      BY <2>5, <3>1, BookedRow DEF MarkSent, TypeOK, Statuses
    <3>3. QED BY <2>5, <3>1, <3>2 DEF MarkSent, NextEvent, historyVars, TypeOK
  <2>6. ASSUME NEW r \in Relays, MarkFailed(r) PROVE AckInv'
    <3>1. PICK s \in {"dead", "failed"} : current[r] \in Keys /\ row' = Booked(current[r], s)
      BY <2>6, MarkFailedTable DEF TypeInv
    <3>2. /\ row'[current[r]].status = s
          /\ \A j \in Keys : j # current[r] => row'[j] = row[j]
      BY <3>1, BookedRow DEF TypeOK, Statuses
    <3>3. QED BY <2>6, <3>2 DEF MarkFailed, NextEvent, historyVars, TypeOK
  <2>7. QED BY <2>1, <2>2, <2>3, <2>4, <2>5, <2>6, <2>8 DEF Next, Workflow, Drain
<1>3. AckInv => SentWasAcknowledged
  BY DEF AckInv
<1>4. QED BY <1>1, <1>2, <1>3, TypeInvariance, PTL DEF Safety

-----------------------------------------------------------------------------
(* The call budget, whatever the number of relays *)

\* A row that is not settled has attempts left, so nobody claims a row that has
\* none: from then on each further attempt is one of a relay that already held it.
BudgetInv ==
  /\ CallsAreAccounted
  /\ \A k \in Keys :
       /\ ~Recorded(k) => row[k].attempts = 0
       /\ Open(k) => row[k].attempts < MaxAttempts
       /\ row[k].attempts >= MaxAttempts =>
            row[k].attempts + Cardinality(Holding(k)) < MaxAttempts + Cardinality(Relays)

\* Sets of relays are finite, and lose one member when it is taken out.
LEMMA RelaySets ==
  ASSUME NEW S \in SUBSET Relays
  PROVE  /\ IsFiniteSet(S) /\ Cardinality(S) \in Nat /\ Cardinality(Relays) \in Nat
         /\ Cardinality(S) <= Cardinality(Relays)
         /\ \A r \in S : /\ Cardinality(S \ {r}) = Cardinality(S) - 1
                         /\ Cardinality(S \ {r}) < Cardinality(Relays)
         /\ \A r \in Relays \ S : Cardinality(S \cup {r}) = Cardinality(S) + 1
  BY OutboxConstants, FS_Subset, FS_CardinalityType, FS_AddElement, FS_RemoveElement

\* Marking the event in hand takes the relay off both lists of its key only.
LEMMA MarkSets ==
  ASSUME TypeInv, NEW r \in Relays, pc[r] \in {"returned", "raised"}, NextEvent(r),
         NEW k \in Keys, k = current[r]
  PROVE  /\ r \in Calling(k) /\ r \in Holding(k)
         /\ Calling(k)' = Calling(k) \ {r}
         /\ Holding(k)' = Holding(k) \ {r}
         /\ \A j \in Keys : j # k => Calling(j)' = Calling(j) /\ Holding(j)' = Holding(j)
<1>1. k \in batch[r] /\ NoKey \notin Keys
  BY OutboxConstants DEF TypeInv, Cursor
<1>2. /\ current' = [current EXCEPT ![r] = NoKey]
      /\ batch' = [batch EXCEPT ![r] = batch[r] \ {k}]
  BY DEF NextEvent
<1>3. \A q \in Relays : q # r => current'[q] = current[q] /\ batch'[q] = batch[q]
  BY <1>2 DEF TypeInv, TypeOK
<1>4. current'[r] = NoKey /\ batch'[r] = batch[r] \ {k}
  BY <1>2 DEF TypeInv, TypeOK
<1>5. r \in Calling(k) /\ r \in Holding(k)
  BY <1>1 DEF Calling, Holding
<1>6. Calling(k)' = Calling(k) \ {r} /\ Holding(k)' = Holding(k) \ {r}
  BY <1>1, <1>3, <1>4 DEF Calling, Holding
<1>7. ASSUME NEW j \in Keys, j # k
      PROVE  Calling(j)' = Calling(j) /\ Holding(j)' = Holding(j)
  BY <1>1, <1>3, <1>4, <1>7 DEF Calling, Holding
<1>8. QED BY <1>5, <1>6, <1>7

\* What writing one more attempt leaves of the budget.
LEMMA BookedBudget ==
  ASSUME TypeInv, BudgetInv, NEW r \in Relays, NEW s \in {"sent", "dead", "failed"},
         pc[r] \in {"returned", "raised"}, NextEvent(r),
         NEW k \in Keys, k = current[r], row' = Booked(k, s),
         s = "failed" => row[k].attempts + 1 < MaxAttempts,
         UNCHANGED <<calls, used>>
  PROVE  BudgetInv'
<1>1. /\ r \in Calling(k) /\ r \in Holding(k)
      /\ Calling(k)' = Calling(k) \ {r} /\ Holding(k)' = Holding(k) \ {r}
      /\ \A j \in Keys : j # k => Calling(j)' = Calling(j) /\ Holding(j)' = Holding(j)
  BY MarkSets
<1>2. /\ row'[k].status = s /\ row'[k].attempts = row[k].attempts + 1
      /\ \A j \in Keys : j # k => row'[j] = row[j]
  BY BookedRow DEF TypeInv, TypeOK, Statuses
<1>3. /\ row[k].attempts \in Nat /\ used.relay \in Nat /\ calls[k] \in Nat
      /\ MaxAttempts \in Nat
  BY OutboxConstants DEF TypeInv, TypeOK, Row, Bounds
<1>4. /\ Cardinality(Calling(k)) \in Nat /\ Cardinality(Holding(k)) \in Nat
      /\ Cardinality(Relays) \in Nat
      /\ Cardinality(Calling(k) \ {r}) = Cardinality(Calling(k)) - 1
      /\ Cardinality(Holding(k) \ {r}) = Cardinality(Holding(k)) - 1
      /\ Cardinality(Holding(k) \ {r}) < Cardinality(Relays)
  BY <1>1, RelaySets DEF Calling, Holding
<1>5. calls'[k] <= row'[k].attempts + used'.relay + Cardinality(Calling(k)')
  BY <1>1, <1>2, <1>3, <1>4 DEF BudgetInv, CallsAreAccounted
<1>6. row'[k].attempts >= MaxAttempts =>
        row'[k].attempts + Cardinality(Holding(k)') < MaxAttempts + Cardinality(Relays)
  BY <1>1, <1>2, <1>3, <1>4 DEF BudgetInv
<1>7. Recorded(k)' /\ (Open(k)' => row'[k].attempts < MaxAttempts)
  BY <1>2 DEF Open, Recorded
<1>8. CallsAreAccounted'
  BY <1>1, <1>2, <1>5 DEF BudgetInv, CallsAreAccounted
<1>9. QED BY <1>1, <1>2, <1>6, <1>7, <1>8 DEF BudgetInv, Recorded, Open

LEMMA BudgetStep == TypeInv /\ BudgetInv /\ [Next]_vars => BudgetInv'
<1> SUFFICES ASSUME TypeInv, BudgetInv, [Next]_vars PROVE BudgetInv'
  OBVIOUS
<1> TypeOK /\ Cursor
  BY DEF TypeInv
<1>1. CASE UNCHANGED <<row, calls, used.relay, current, batch>>
  BY <1>1 DEF BudgetInv, CallsAreAccounted, Recorded, Open, Calling, Holding
<1>2. CASE EnqueueNext
  <2>1. UNCHANGED <<calls, used, current, batch>>
    BY <1>2 DEF EnqueueNext, relayVars, historyVars
  <2>2. ASSUME NEW k \in Keys, NEW b \in Nat, row[k].status = "absent",
               row' = [row EXCEPT ![k] = [status |-> "pending", attempts |-> 0, born |-> b]]
        PROVE  BudgetInv'
    <3>1. row[k].attempts = 0 /\ row'[k].attempts = 0 /\ row'[k].status = "pending"
      BY <2>2 DEF BudgetInv, Recorded, TypeOK
    <3>2. \A j \in Keys : j # k => row'[j] = row[j]
      BY <2>2 DEF TypeOK
    <3>3. \A j \in Keys : row'[j].attempts = row[j].attempts
      BY <3>1, <3>2
    <3>4. \A j \in Keys : Calling(j)' = Calling(j) /\ Holding(j)' = Holding(j)
      BY <2>1 DEF Calling, Holding
    <3>5. \A j \in Keys : /\ Recorded(j)' => (Recorded(j) \/ j = k)
                          /\ Open(j)' => (Open(j) \/ j = k)
                          /\ ~Recorded(j)' => ~Recorded(j)
      BY <3>1, <3>2, <2>2 DEF Recorded, Open
    <3>6. CallsAreAccounted'
      BY <2>1, <3>3, <3>4 DEF BudgetInv, CallsAreAccounted
    <3>7. QED BY <3>1, <3>3, <3>4, <3>5, <3>6, OutboxConstants DEF BudgetInv
  <2>3. QED BY <2>1, <2>2, <1>1, <1>2, EnqueueTable
<1>3. CASE Workflow /\ ~EnqueueNext
  BY <1>1, <1>3 DEF Workflow, Authorize, Checkpoint, BeginFlush, EnqueueRaises, CrashWorkflow,
                    tableVars, relayVars, historyVars, TypeOK, Bounds
<1>4. CASE Tick \/ DropSessions \/ UNCHANGED vars
  BY <1>1, <1>4 DEF Tick, DropSessions, vars, tableVars, relayVars, historyVars
<1>12. ASSUME NEW r \in Relays,
              BeginClaim(r) \/ EndClaim(r) \/ \E k \in Keys : PassOver(r, k)
       PROVE  BudgetInv'
  BY <1>1, <1>12, ClaimSteps
<1>5. ASSUME NEW r \in Relays, NEW k \in Keys, LockRow(r, k) PROVE BudgetInv'
  <2>1. UNCHANGED <<row, calls, used, current>> /\ batch' = [batch EXCEPT ![r] = batch[r] \cup {k}]
    BY <1>5, ClaimSteps
  <2>2. \A j \in Keys : Calling(j)' = Calling(j) /\ (j # k => Holding(j)' = Holding(j))
    BY <2>1 DEF Calling, Holding, TypeOK
  <2>3. row[k].attempts < MaxAttempts
    BY <1>5, ClaimSteps DEF Due, BudgetInv
  <2>4. \A j \in Keys : row[j].attempts \in Nat /\ MaxAttempts \in Nat
    BY OutboxConstants DEF TypeOK, Row
  <2>5. QED BY <2>1, <2>2, <2>3, <2>4 DEF BudgetInv, CallsAreAccounted, Recorded, Open
<1>6. ASSUME NEW r \in Relays, NEW k \in Keys, DispatchReturns(r, k) \/ DispatchRaises(r, k)
      PROVE  BudgetInv'
  <2>1. /\ UNCHANGED <<row, used, batch>> /\ pc[r] = "looping"
        /\ calls' = [calls EXCEPT ![k] = calls[k] + 1]
        /\ current' = [current EXCEPT ![r] = k]
    BY <1>6 DEF DispatchReturns, DispatchRaises, Dispatch, tableVars
  <2>2. current[r] = NoKey /\ NoKey \notin Keys
    BY <2>1, OutboxConstants DEF Cursor
  <2>3. r \notin Calling(k) /\ Calling(k)' = Calling(k) \cup {r}
    BY <2>1, <2>2 DEF Calling, TypeOK
  <2>4. \A j \in Keys : /\ j # k => Calling(j)' = Calling(j) /\ calls'[j] = calls[j]
                        /\ Holding(j)' = Holding(j)
    BY <2>1, <2>2 DEF Calling, Holding, TypeOK
  <2>5. Cardinality(Calling(k)') = Cardinality(Calling(k)) + 1 /\ Cardinality(Calling(k)) \in Nat
    BY <2>3, RelaySets DEF Calling
  <2>6. calls'[k] = calls[k] + 1 /\ calls[k] \in Nat /\ row[k].attempts \in Nat /\ used.relay \in Nat
    BY <2>1 DEF TypeOK, Row, Bounds
  <2>7. CallsAreAccounted'
    <3>1. calls'[k] <= row'[k].attempts + used'.relay + Cardinality(Calling(k)')
      BY <2>1, <2>5, <2>6 DEF BudgetInv, CallsAreAccounted
    <3>2. QED BY <2>1, <2>4, <3>1 DEF BudgetInv, CallsAreAccounted
  <2>8. QED BY <2>1, <2>4, <2>7 DEF BudgetInv, Recorded, Open
<1>7. ASSUME NEW r \in Relays, MarkSent(r) PROVE BudgetInv'
  <2>1. current[r] \in Keys
    BY <1>7 DEF MarkSent, Cursor, TypeOK
  <2>2. QED BY <1>7, <2>1, BookedBudget DEF MarkSent, historyVars
<1>8. ASSUME NEW r \in Relays, MarkFailed(r) PROVE BudgetInv'
  <2>1. PICK k \in Keys, s \in {"dead", "failed"} :
          /\ k = current[r] /\ row' = Booked(k, s)
          /\ s = "failed" => row[k].attempts + 1 < MaxAttempts
    BY <1>8, MarkFailedTable
  <2>2. QED BY <1>8, <2>1, BookedBudget DEF MarkFailed, historyVars
<1>9. ASSUME NEW r \in Relays, EndPass(r) PROVE BudgetInv'
  <2>1. batch' = batch /\ current' = current
    BY <1>9 DEF EndPass, Forget, Cursor, TypeOK
  <2>2. QED BY <1>1, <1>9, <2>1 DEF EndPass, tableVars, historyVars
<1>10. ASSUME NEW r \in Relays, CrashRelay(r) PROVE BudgetInv'
  <2>1. /\ UNCHANGED <<row, calls>> /\ used'.relay = used.relay + 1 /\ used.relay \in Nat
        /\ batch' = [batch EXCEPT ![r] = {}] /\ current' = [current EXCEPT ![r] = NoKey]
    BY <1>10 DEF CrashRelay, Forget, tableVars, historyVars, TypeOK, Bounds
  <2>2. \A j \in Keys : Calling(j)' = Calling(j) \ {r} /\ Holding(j)' = Holding(j) \ {r}
    BY <2>1, OutboxConstants DEF Calling, Holding, TypeOK
  <2>3. \A j \in Keys :
          /\ Cardinality(Calling(j)) \in Nat /\ Cardinality(Calling(j) \ {r}) \in Nat
          /\ Cardinality(Calling(j)) <= Cardinality(Calling(j) \ {r}) + 1
    <3> TAKE j \in Keys
    <3>1. CASE r \in Calling(j)
      <4>1. Calling(j) \in SUBSET Relays /\ Calling(j) \ {r} \in SUBSET Relays
        BY DEF Calling
      <4>2. /\ Cardinality(Calling(j)) \in Nat /\ Cardinality(Calling(j) \ {r}) \in Nat
            /\ Cardinality(Calling(j) \ {r}) = Cardinality(Calling(j)) - 1
        BY <3>1, <4>1, RelaySets
      <4>3. QED BY <4>2
    <3>2. CASE r \notin Calling(j)
      <4>1. Calling(j) \ {r} = Calling(j)
        BY <3>2
      <4>2. Calling(j) \in SUBSET Relays
        BY DEF Calling
      <4>3. Cardinality(Calling(j)) \in Nat
        BY <4>2, RelaySets
      <4>4. QED BY <4>1, <4>3
    <3>3. QED BY <3>1, <3>2
  <2>4. \A j \in Keys :
          /\ Cardinality(Holding(j)) \in Nat /\ Cardinality(Holding(j) \ {r}) \in Nat
          /\ Cardinality(Holding(j) \ {r}) <= Cardinality(Holding(j))
          /\ Cardinality(Relays) \in Nat
    <3> TAKE j \in Keys
    <3>1. IsFiniteSet(Holding(j)) /\ Holding(j) \ {r} \in SUBSET Holding(j)
      BY RelaySets DEF Holding
    <3>2. QED BY <3>1, FS_Subset, RelaySets DEF Holding
  <2>5. \A j \in Keys : /\ calls[j] \in Nat /\ row[j].attempts \in Nat
                        /\ MaxAttempts \in Nat
    BY OutboxConstants DEF TypeOK, Row
  <2>6. CallsAreAccounted'
    BY <2>1, <2>2, <2>3, <2>5 DEF BudgetInv, CallsAreAccounted
  <2>7. QED BY <2>1, <2>2, <2>4, <2>5, <2>6 DEF BudgetInv, Recorded, Open
<1>11. QED
  BY <1>2, <1>3, <1>4, <1>5, <1>6, <1>7, <1>8, <1>9, <1>10, <1>12 DEF Next, Drain

LEMMA BudgetInvariance == Safety => []BudgetInv
<1>1. Init => BudgetInv
  <2> SUFFICES ASSUME Init PROVE BudgetInv
    OBVIOUS
  <2>1. \A k \in Keys : row[k].status = "absent" /\ row[k].attempts = 0 /\ calls[k] = 0
    BY DEF Init
  <2>2. used.relay = 0 /\ 0 < MaxAttempts /\ ~(0 >= MaxAttempts)
    BY OutboxConstants DEF Init
  <2>3. \A k \in Keys : Cardinality(Calling(k)) \in Nat
    BY RelaySets DEF Calling
  <2>4. CallsAreAccounted
    BY <2>1, <2>2, <2>3 DEF CallsAreAccounted
  <2>5. QED
    BY <2>1, <2>2, <2>4, Zenon DEF BudgetInv
<1>2. QED BY <1>1, BudgetStep, TypeInvariance, PTL DEF Safety

\* However many relays drain the table, and however they interleave, one intent
\* is called at most MaxAttempts + (number of relays - 1) + (relay crashes) times.
THEOREM CallsWithinBudget == Safety => []CallBudget
<1>1. TypeInv /\ BudgetInv => CallBudget
  <2> SUFFICES ASSUME TypeInv, BudgetInv, NEW k \in Keys
               PROVE  calls[k] + 1 <= MaxAttempts + Cardinality(Relays) + used.relay
    BY DEF CallBudget
  <2>1. Calling(k) \in SUBSET Holding(k)
    <3>1. ASSUME NEW r \in Relays, current[r] = k PROVE k \in batch[r]
      BY <3>1, OutboxConstants DEF TypeInv, TypeOK, Cursor
    <3>2. QED BY <3>1 DEF Calling, Holding
  <2>2. /\ Cardinality(Calling(k)) <= Cardinality(Holding(k))
        /\ Cardinality(Calling(k)) <= Cardinality(Relays)
        /\ Cardinality(Calling(k)) \in Nat /\ Cardinality(Holding(k)) \in Nat
        /\ Cardinality(Relays) \in Nat
    <3>1. IsFiniteSet(Holding(k))
      BY RelaySets DEF Holding
    <3>2. QED BY <2>1, <3>1, FS_Subset, RelaySets DEF Calling, Holding
  <2>3. /\ calls[k] \in Nat /\ row[k].attempts \in Nat /\ used.relay \in Nat /\ MaxAttempts \in Nat
    BY OutboxConstants DEF TypeInv, TypeOK, Row, Bounds
  <2>4. calls[k] <= row[k].attempts + used.relay + Cardinality(Calling(k))
    BY DEF BudgetInv, CallsAreAccounted
  <2>5. CASE row[k].attempts < MaxAttempts
    BY <2>2, <2>3, <2>4, <2>5
  <2>6. CASE row[k].attempts >= MaxAttempts
    <3>1. row[k].attempts + Cardinality(Holding(k)) < MaxAttempts + Cardinality(Relays)
      BY <2>6 DEF BudgetInv
    <3>2. QED BY <2>2, <2>3, <2>4, <3>1
  <2>7. QED BY <2>3, <2>5, <2>6
<1>2. QED BY <1>1, TypeInvariance, BudgetInvariance, PTL

-----------------------------------------------------------------------------
(* One relay implements the contract *)

SingleRelay == \A r, s \in Relays : r = s

\* With one relay nobody touches a claimed row but the pass that claimed it, so
\* everything still in the batch is open.
SingleInv ==
  /\ AttemptsMatchStatus
  /\ \A r \in Relays : \A k \in batch[r] : Open(k)

\* What one relay writes about the event in hand.
LEMMA SingleMark ==
  ASSUME TypeInv, SingleInv, NEW r \in Relays, MarkSent(r) \/ MarkFailed(r)
  PROVE  \E k \in Keys, s \in {"sent", "dead", "failed"} :
           /\ k \in batch[r] /\ batch' = [batch EXCEPT ![r] = batch[r] \ {k}]
           /\ Open(k) /\ row[k].attempts < MaxAttempts
           /\ row' = Booked(k, s)
           /\ s = "failed" => row[k].attempts + 1 < MaxAttempts
           /\ s = "dead" => row[k].attempts + 1 = MaxAttempts
<1>1. /\ current[r] \in Keys /\ current[r] \in batch[r]
      /\ batch' = [batch EXCEPT ![r] = batch[r] \ {current[r]}]
  BY DEF MarkSent, MarkFailed, NextEvent, TypeInv, Cursor, TypeOK
<1> DEFINE k == current[r]
<1>2. Open(k)
  BY <1>1 DEF SingleInv
<1>3. row[k].attempts \in Nat
  BY <1>1 DEF TypeInv, TypeOK, Row
<1>4. MaxAttempts \in Nat \ {0}
  BY OutboxConstants
<1>5. row[k].attempts < MaxAttempts
  <2>1. row[k].status \in {"pending", "failed"}
    BY <1>2 DEF Open
  <2>2. /\ row[k].status = "failed" => row[k].attempts \in 1..(MaxAttempts - 1)
        /\ row[k].status = "pending" => row[k].attempts = 0
    BY <1>1 DEF SingleInv, AttemptsMatchStatus
  <2>3. QED BY <2>1, <2>2, <1>3, <1>4
<1>6. CASE MarkSent(r)
  BY <1>1, <1>2, <1>5, <1>6 DEF MarkSent
<1>7. CASE MarkFailed(r)
  <2> DEFINE exhausted == row[k].attempts + 1 >= MaxAttempts
  <2>1. row' = Booked(k, IF exhausted THEN "dead" ELSE "failed")
    BY <1>7 DEF MarkFailed
  <2>2. CASE exhausted
    <3>1. row[k].attempts + 1 = MaxAttempts
      BY <2>2, <1>3, <1>4, <1>5
    <3>2. row' = Booked(k, "dead")
      BY <2>1, <2>2
    <3>3. QED BY <1>1, <1>2, <1>5, <3>1, <3>2
  <2>3. CASE ~exhausted
    <3>1. row[k].attempts + 1 < MaxAttempts
      BY <2>3, <1>3, <1>4
    <3>2. row' = Booked(k, "failed")
      BY <2>1, <2>3
    <3>3. QED BY <1>1, <1>2, <1>5, <3>1, <3>2
  <2>4. QED BY <2>2, <2>3
<1>8. QED BY <1>6, <1>7

\* The steps of the other kinds leave the rows as they are, and claim open ones.
LEMMA QuietSteps ==
  ASSUME SingleInv, TypeInv, [Next]_vars, ~EnqueueNext,
         \A r \in Relays : ~MarkSent(r) /\ ~MarkFailed(r)
  PROVE  row' = row /\ SingleInv'
<1>1. CASE Workflow \/ Tick \/ DropSessions \/ UNCHANGED vars
  BY <1>1 DEF Workflow, Authorize, Checkpoint, BeginFlush, EnqueueRaises, CrashWorkflow, Tick,
              DropSessions, vars, tableVars, relayVars, historyVars, SingleInv, AttemptsMatchStatus, Open
<1>2. ASSUME NEW r \in Relays, NEW k \in Keys, LockRow(r, k) PROVE row' = row /\ SingleInv'
  <2>1. row' = row /\ batch' = [batch EXCEPT ![r] = batch[r] \cup {k}] /\ Open(k)
    BY <1>2, ClaimSteps DEF Due
  <2>2. \A q \in Relays : batch'[q] = batch[q] \/ batch'[q] = batch[q] \cup {k}
    BY <2>1 DEF TypeInv, TypeOK
  <2>3. QED BY <2>1, <2>2 DEF SingleInv, AttemptsMatchStatus, Open
<1>6. ASSUME NEW r \in Relays,
             BeginClaim(r) \/ EndClaim(r) \/ \E k \in Keys : PassOver(r, k)
      PROVE  row' = row /\ SingleInv'
  <2>1. row' = row /\ batch' = batch
    BY <1>6, ClaimSteps
  <2>2. QED BY <2>1 DEF SingleInv, AttemptsMatchStatus, Open
<1>3. ASSUME NEW r \in Relays, EndPass(r) \/ CrashRelay(r) PROVE row' = row /\ SingleInv'
  <2>1. row' = row /\ batch' = [batch EXCEPT ![r] = {}]
    BY <1>3 DEF EndPass, CrashRelay, Forget, tableVars
  <2>2. \A q \in Relays : batch'[q] = batch[q] \/ batch'[q] = {}
    BY <2>1 DEF TypeInv, TypeOK
  <2>3. QED BY <2>1, <2>2 DEF SingleInv, AttemptsMatchStatus, Open
<1>4. ASSUME NEW r \in Relays, NEW k \in Keys, DispatchReturns(r, k) \/ DispatchRaises(r, k)
      PROVE  row' = row /\ SingleInv'
  BY <1>4 DEF DispatchReturns, DispatchRaises, Dispatch, tableVars, SingleInv,
              AttemptsMatchStatus, Open
<1>5. QED BY <1>1, <1>2, <1>3, <1>4, <1>6 DEF Next, Drain

LEMMA SingleStep ==
  ASSUME SingleRelay, TypeInv, SingleInv, [Next]_vars
  PROVE  SingleInv'
<1>1. CASE EnqueueNext
  <2>1. batch' = batch
    BY <1>1 DEF EnqueueNext, relayVars
  <2>2. ASSUME NEW k \in Keys, NEW b \in Nat, row[k].status = "absent",
               row' = [row EXCEPT ![k] = [status |-> "pending", attempts |-> 0, born |-> b]]
        PROVE  SingleInv'
    <3>1. row'[k].status = "pending" /\ row'[k].attempts = 0
      BY <2>2 DEF TypeInv, TypeOK
    <3>2. \A j \in Keys : j # k => row'[j] = row[j]
      BY <2>2 DEF TypeInv, TypeOK
    <3>3. AttemptsMatchStatus'
      <4>1. 0 <= MaxAttempts /\ "pending" \notin {"dead", "failed"}
        BY OutboxConstants
      <4>2. \A j \in Keys : j = k \/ row'[j] = row[j]
        BY <3>2
      <4>3. QED BY <3>1, <4>1, <4>2 DEF SingleInv, AttemptsMatchStatus
    <3>4. QED BY <2>1, <2>2, <3>1, <3>2, <3>3 DEF SingleInv, Open
  <2>3. CASE row' = row
    BY <2>1, <2>3 DEF SingleInv, AttemptsMatchStatus, Open
  <2>4. QED BY <1>1, <2>2, <2>3, EnqueueTable DEF TypeInv
<1>2. ASSUME NEW r \in Relays, MarkSent(r) \/ MarkFailed(r) PROVE SingleInv'
  <2>1. PICK k \in Keys, s \in {"sent", "dead", "failed"} :
           /\ k \in batch[r] /\ batch' = [batch EXCEPT ![r] = batch[r] \ {k}]
           /\ Open(k) /\ row[k].attempts < MaxAttempts
           /\ row' = Booked(k, s)
           /\ s = "failed" => row[k].attempts + 1 < MaxAttempts
           /\ s = "dead" => row[k].attempts + 1 = MaxAttempts
    BY <1>2, SingleMark
  <2>2. /\ row'[k].status = s /\ row'[k].attempts = row[k].attempts + 1
        /\ \A j \in Keys : j # k => row'[j] = row[j]
    BY <2>1, BookedRow DEF TypeInv, TypeOK, Statuses
  <2>3. AttemptsMatchStatus'
    <3>1. row[k].attempts \in Nat /\ MaxAttempts \in Nat
      BY OutboxConstants DEF TypeInv, TypeOK, Row
    <3>2. QED BY <2>1, <2>2, <3>1 DEF SingleInv, AttemptsMatchStatus
  <2>4. \A q \in Relays : q = r /\ batch'[q] = batch[q] \ {k}
    BY <2>1 DEF SingleRelay, TypeInv, TypeOK
  <2>5. \A q \in Relays : \A j \in batch'[q] : j \in Keys /\ j # k /\ Open(j)
    BY <2>4 DEF SingleInv, TypeInv, TypeOK
  <2>6. QED BY <2>2, <2>3, <2>5 DEF SingleInv, Open
<1>3. QED BY <1>1, <1>2, QuietSteps

LEMMA SingleInvariance ==
  ASSUME SingleRelay
  PROVE  Safety => []SingleInv
<1>1. Init => SingleInv
  BY OutboxConstants DEF Init, SingleInv, AttemptsMatchStatus
<1>2. TypeInv /\ SingleInv /\ [Next]_vars => SingleInv'
  BY SingleStep
<1>3. QED BY <1>1, <1>2, TypeInvariance, PTL DEF Safety

\* With one relay a row's attempts agree with its status: dead exactly after the
\* last attempt, failed with attempts left.
THEOREM SingleRelayAttempts ==
  ASSUME SingleRelay
  PROVE  Safety => []AttemptsMatchStatus
<1>1. SingleInv => AttemptsMatchStatus
  BY DEF SingleInv
<1>2. QED BY <1>1, SingleInvariance, PTL

\* With one relay each step of the outbox is a step of the contract, or none.
LEMMA ContractStep ==
  ASSUME TypeInv, SingleInv, [Next]_vars
  PROVE  [Contract!Next]_Contract!vars
<1> USE DEF Contract!vars
<1>1. CASE EnqueueNext
  <2>1. CASE row' = row
    BY <2>1
  <2>2. ASSUME NEW k \in Keys, NEW b \in Nat, row[k].status = "absent",
               row' = [row EXCEPT ![k] = [status |-> "pending", attempts |-> 0, born |-> b]]
        PROVE  Contract!Record(k)
    <3>1. row'[k].status = "pending" /\ row'[k].attempts = 0 /\ row[k].attempts = 0
      BY <2>2 DEF TypeInv, TypeOK, SingleInv, AttemptsMatchStatus
    <3>2. \A j \in Keys : j # k => row'[j] = row[j]
      BY <2>2 DEF TypeInv, TypeOK
    <3> DEFINE Phase == [j \in Keys |-> Abstract(row[j].status)]
               Tries == [j \in Keys |-> row[j].attempts]
    <3>3. Phase[k] = "absent"
      BY <2>2 DEF Abstract
    <3>4. Phase' = [Phase EXCEPT ![k] = "open"]
      BY <3>1, <3>2 DEF Abstract
    <3>5. Tries' = Tries
      BY <3>1, <3>2
    <3>6. QED BY <3>3, <3>4, <3>5 DEF Contract!Record
  <2>3. QED BY <1>1, <2>1, <2>2, EnqueueTable DEF TypeInv, Contract!Next
<1>2. ASSUME NEW r \in Relays, MarkSent(r) \/ MarkFailed(r) PROVE Contract!Next
  <2>1. PICK k \in Keys, s \in {"sent", "dead", "failed"} :
           /\ Open(k) /\ row[k].attempts < MaxAttempts
           /\ row' = Booked(k, s)
           /\ s = "failed" => row[k].attempts + 1 < MaxAttempts
           /\ s = "dead" => row[k].attempts + 1 = MaxAttempts
    BY <1>2, SingleMark
  <2>2. /\ row'[k].status = s /\ row'[k].attempts = row[k].attempts + 1
        /\ \A j \in Keys : j # k => row'[j] = row[j]
    BY <2>1, BookedRow DEF TypeInv, TypeOK, Statuses
  <2>3. Contract!Attempt(k, Abstract(s))
    BY <2>1, <2>2 DEF Contract!Attempt, Abstract, Open
  <2>4. Contract!Settle(k)
    BY <2>1, <2>3 DEF Contract!Settle, Contract!Deliver, Contract!Retry, Contract!GiveUp, Abstract
  <2>5. QED BY <2>4 DEF Contract!Next
<1>3. QED BY <1>1, <1>2, QuietSteps

\* One relay, its store and the flush that feeds it implement the safety part of
\* the contract: recorded once, tried at most MaxAttempts times, then final.
THEOREM SingleRelayImplementsContract ==
  ASSUME SingleRelay
  PROVE  Safety => Contract!Safety
<1>1. Init => Contract!Init
  BY DEF Init, Contract!Init, Abstract
<1>2. TypeInv /\ SingleInv /\ [Next]_vars => [Contract!Next]_Contract!vars
  BY ContractStep
<1>3. QED BY <1>1, <1>2, TypeInvariance, SingleInvariance, PTL DEF Safety, Contract!Safety

\* With one relay a sent or dead row is final.
THEOREM SingleRelayFinal ==
  ASSUME SingleRelay
  PROVE  Safety => SettledRowsAreFinal
<1>1. TypeInv /\ SingleInv /\ [Next]_vars => [\A k \in Keys : Settled(k) => row'[k] = row[k]]_vars
  <2> SUFFICES ASSUME TypeInv, SingleInv, [Next]_vars, NEW k \in Keys, Settled(k)
               PROVE  row'[k] = row[k]
    OBVIOUS
  <2>1. CASE EnqueueNext
    BY <2>1, EnqueueTable DEF TypeInv, TypeOK, Settled
  <2>2. ASSUME NEW r \in Relays, MarkSent(r) \/ MarkFailed(r) PROVE row'[k] = row[k]
    <3>1. PICK j \in Keys, s \in {"sent", "dead", "failed"} : Open(j) /\ row' = Booked(j, s)
      BY <2>2, SingleMark
    <3>2. j # k
      BY <3>1 DEF Open, Settled
    <3>3. QED BY <3>1, <3>2, BookedRow DEF TypeInv, TypeOK, Statuses
  <2>3. QED BY <2>1, <2>2, QuietSteps
<1>2. QED BY <1>1, TypeInvariance, SingleInvariance, PTL DEF Safety, SettledRowsAreFinal
-----------------------------------------------------------------------------
(* The report of a pass, with one relay *)

\* What a pass has still to do is as it was claimed, and not counted yet.
ReportInv ==
  /\ TallyMatchesTable
  /\ \A r \in Relays : pc[r] = "claiming" => tally[r] = NoTally
  /\ \A r \in Relays : \A k \in batch[r] :
       /\ copy[r][k] = row[k].attempts
       /\ k \notin tally[r].dead /\ k \notin tally[r].failed

\* The mark of the event in hand: a dead letter is counted exactly for a row it kills.
LEMMA MarkReports ==
  ASSUME SingleRelay, TypeInv, SingleInv, ReportInv,
         NEW r \in Relays, MarkSent(r) \/ MarkFailed(r)
  PROVE  ReportInv'
<1> DEFINE k == current[r]
<1>1. /\ k \in Keys /\ k \in batch[r] /\ \A q \in Relays : q = r
      /\ batch' = [batch EXCEPT ![r] = batch[r] \ {k}] /\ copy' = copy /\ pc'[r] # "claiming"
  BY DEF MarkSent, MarkFailed, NextEvent, TypeInv, Cursor, TypeOK, SingleRelay
<1>2. batch'[r] = batch[r] \ {k} /\ batch[r] \in SUBSET Keys
  BY <1>1 DEF TypeInv, TypeOK
<1>3. /\ copy[r][k] = row[k].attempts /\ k \notin tally[r].dead /\ k \notin tally[r].failed
      /\ tally[r] \in [failed : SUBSET Keys, dead : SUBSET Keys]
  BY <1>1 DEF ReportInv, TypeInv, TypeOK
<1>4. ASSUME NEW s \in {"sent", "dead", "failed"}, row' = Booked(k, s)
      PROVE  /\ row'[k].status = s
             /\ \A j \in Keys : j # k => row'[j] = row[j]
  BY <1>1, <1>4, BookedRow DEF TypeInv, TypeOK, Statuses
<1>5. CASE MarkSent(r)
  <2>1. tally' = tally /\ \A j \in Keys : j # k => row'[j] = row[j]
    BY <1>4, <1>5 DEF MarkSent
  <2> QED BY <1>1, <1>2, <1>3, <2>1 DEF ReportInv, TallyMatchesTable
<1>6. CASE MarkFailed(r)
  <2> DEFINE exhausted == row[k].attempts + 1 >= MaxAttempts
  <2>1. /\ row' = Booked(k, IF exhausted THEN "dead" ELSE "failed")
        /\ tally' = [tally EXCEPT ![r] = Counted(tally[r], k, exhausted)]
    BY <1>3, <1>6 DEF MarkFailed
  <2>2. tally'[r] = Counted(tally[r], k, exhausted)
    BY <2>1 DEF TypeInv, TypeOK
  <2>3. CASE exhausted
    <3>1. /\ tally'[r].dead = tally[r].dead \cup {k} /\ tally'[r].failed = tally[r].failed
          /\ row'[k].status = "dead" /\ \A j \in Keys : j # k => row'[j] = row[j]
      BY <1>3, <1>4, <2>1, <2>2, <2>3 DEF Counted
    <3> QED BY <1>1, <1>2, <1>3, <3>1 DEF ReportInv, TallyMatchesTable
  <2>4. CASE ~exhausted
    <3>1. /\ tally'[r].dead = tally[r].dead /\ tally'[r].failed = tally[r].failed \cup {k}
          /\ row'[k].status = "failed" /\ \A j \in Keys : j # k => row'[j] = row[j]
      BY <1>3, <1>4, <2>1, <2>2, <2>4 DEF Counted
    <3> QED BY <1>1, <1>2, <1>3, <3>1 DEF ReportInv, TallyMatchesTable
  <2> QED BY <2>3, <2>4
<1> QED BY <1>5, <1>6

\* Every step leaves the report of a pass in agreement with the table.
LEMMA ReportStep ==
  ASSUME SingleRelay, TypeInv, SingleInv, ReportInv, [Next]_vars
  PROVE  ReportInv'
<1>1. CASE EnqueueNext
  <2>1. batch' = batch /\ copy' = copy /\ tally' = tally /\ pc' = pc
    BY <1>1 DEF EnqueueNext, relayVars
  <2>2. CASE row' = row
    BY <2>1, <2>2 DEF ReportInv, TallyMatchesTable
  <2>3. ASSUME NEW k \in Keys, NEW b \in Nat, row[k].status = "absent",
               row' = [row EXCEPT ![k] = [status |-> "pending", attempts |-> 0, born |-> b]]
        PROVE  ReportInv'
    <3>1. \A j \in Keys : j # k => row'[j] = row[j]
      BY <2>3 DEF TypeInv, TypeOK
    <3>2. \A r \in Relays : k \notin batch[r] /\ k \notin tally[r].dead /\ k \notin tally[r].failed
      BY <2>3 DEF SingleInv, Open, ReportInv, TallyMatchesTable
    <3>3. \A r \in Relays : batch[r] \in SUBSET Keys /\ tally[r].dead \in SUBSET Keys
                            /\ tally[r].failed \in SUBSET Keys
      BY DEF TypeInv, TypeOK
    <3> QED BY <2>1, <3>1, <3>2, <3>3 DEF ReportInv, TallyMatchesTable
  <2> QED BY <1>1, <2>2, <2>3, EnqueueTable DEF TypeInv
<1>2. CASE (Workflow /\ ~EnqueueNext) \/ Tick \/ DropSessions \/ UNCHANGED vars
  <2>1. UNCHANGED <<row, batch, copy, tally, pc>>
    BY <1>2 DEF Workflow, Authorize, Checkpoint, BeginFlush, EnqueueRaises, CrashWorkflow, Tick,
                DropSessions, vars, tableVars, relayVars
  <2> QED BY <2>1 DEF ReportInv, TallyMatchesTable
<1>3. ASSUME NEW r \in Relays, NEW k \in Keys, LockRow(r, k) PROVE ReportInv'
  <2>1. /\ row' = row /\ pc' = pc /\ tally' = tally /\ tally[r] = NoTally
        /\ batch'[r] = batch[r] \cup {k} /\ \A q \in Relays : q = r
    BY <1>3, ClaimSteps DEF ReportInv, TypeInv, TypeOK, SingleRelay
  <2>2. copy'[r][k] = row[k].attempts /\ \A j \in Keys : j # k => copy'[r][j] = copy[r][j]
    BY <1>3, ClaimSteps DEF TypeInv, TypeOK
  <2>3. batch[r] \in SUBSET Keys
    BY DEF TypeInv, TypeOK
  <2> QED BY <2>1, <2>2, <2>3 DEF ReportInv, TallyMatchesTable, NoTally
<1>6. ASSUME NEW r \in Relays, BeginClaim(r) PROVE ReportInv'
  <2>1. /\ row' = row /\ batch' = batch /\ batch[r] = {} /\ tally'[r] = NoTally
        /\ \A q \in Relays : q = r
    BY <1>6, ClaimSteps DEF BeginClaim, TypeInv, Cursor, TypeOK, SingleRelay
  <2> QED BY <2>1 DEF ReportInv, TallyMatchesTable, NoTally
<1>7. ASSUME NEW r \in Relays, EndClaim(r) \/ \E k \in Keys : PassOver(r, k) PROVE ReportInv'
  <2>1. UNCHANGED <<row, batch, copy, tally>> /\ \A q \in Relays : pc'[q] = "claiming" => pc[q] = "claiming"
    BY <1>7, ClaimSteps DEF EndClaim, PassOver, ComesTo, TypeInv, TypeOK
  <2> QED BY <2>1 DEF ReportInv, TallyMatchesTable
<1>4. ASSUME NEW r \in Relays, NEW k \in Keys, DispatchReturns(r, k) \/ DispatchRaises(r, k)
      PROVE  ReportInv'
  BY <1>4 DEF DispatchReturns, DispatchRaises, Dispatch, tableVars, ReportInv, TallyMatchesTable,
              TypeInv, TypeOK
<1>5. ASSUME NEW r \in Relays, EndPass(r) \/ CrashRelay(r) PROVE ReportInv'
  <2>1. row' = row /\ batch'[r] = {} /\ tally'[r] = NoTally /\ \A q \in Relays : q = r
    BY <1>5 DEF EndPass, CrashRelay, Forget, tableVars, TypeInv, TypeOK, SingleRelay
  <2> QED BY <2>1 DEF ReportInv, TallyMatchesTable, NoTally
<1> QED BY <1>1, <1>2, <1>3, <1>4, <1>5, <1>6, <1>7, MarkReports DEF Next, Drain

\* What a pass of a single relay reports agrees with the table, whatever was enqueued meanwhile.
THEOREM SingleRelayReport ==
  ASSUME SingleRelay
  PROVE  Safety => []TallyMatchesTable
<1>1. Init => ReportInv
  BY DEF Init, ReportInv, TallyMatchesTable, NoTally
<1>2. ReportInv => TallyMatchesTable
  BY DEF ReportInv
<1> QED BY <1>1, <1>2, ReportStep, TypeInvariance, SingleInvariance, PTL DEF Safety
-----------------------------------------------------------------------------
(* The order of first calls, whatever the number of relays *)

\* No recorded row is younger than the instant b.
RecentIn(rows, b) == \A k \in Keys : rows[k].status # "absent" => rows[k].born <= b
Ascending(events) == \A i, j \in 1..Len(events) : i <= j => events[i].born <= events[j].born

\* What waits in memory is in the order it was decided in, and the table is ahead of it.
MemoryInOrder ==
  /\ Ascending(flushing) /\ Ascending(staged) /\ RecentIn(row, instant)
  /\ \A i \in 1..Len(flushing) : RecentIn(row, flushing[i].born) /\ flushing[i].born <= instant
  /\ \A i \in 1..Len(staged) : RecentIn(row, staged[i].born) /\ staged[i].born <= instant
  /\ \A i \in 1..Len(flushing), j \in 1..Len(staged) : flushing[i].born <= staged[j].born

\* Somebody else has j, or had it and died.
Elsewhere(r, j) == j \in dropped \/ \E q \in Relays \ {r} : j \in batch[q]

\* A row that was never called is due at once.  What a claim has locked comes with whatever is
\* older and was never called, unless that is elsewhere; what it has still to come to comes with
\* that or finds it on its list.
CallsInOrder ==
  /\ \A k \in Keys : /\ ~Recorded(k) => calls[k] = 0
                     /\ calls[k] = 0 => row[k].status \in {"absent", "pending"} /\ wait[k] = 0
  /\ \A k \in orphans : calls[k] = 0 => k \in dropped
  /\ \A r \in Relays :
       /\ current[r] \in Keys => calls[current[r]] > 0
       /\ \A k \in batch[r] \cup found[r] : Recorded(k)
       /\ \A k \in batch[r], j \in Keys : Recorded(j) /\ Older(j, k) /\ calls[j] = 0 =>
            j \in batch[r] \/ Elsewhere(r, j)
       /\ \A k \in found[r], j \in Keys : Recorded(j) /\ Older(j, k) /\ calls[j] = 0 =>
            j \in batch[r] \cup found[r] \/ Elsewhere(r, j)

OrderInv == MemoryInOrder /\ CallsInOrder

\* A step that records nothing and leaves the lists in memory alone keeps them in order.
LEMMA MemoryKept ==
  ASSUME TypeOK, MemoryInOrder, UNCHANGED <<flushing, staged, instant>>,
         \A k \in Keys : (Recorded(k)' <=> Recorded(k)) /\ row'[k].born = row[k].born
  PROVE  MemoryInOrder'
<1>1. \A b : RecentIn(row, b) => RecentIn(row', b)
  BY DEF RecentIn, Recorded
<1> QED BY <1>1 DEF MemoryInOrder, Ascending

\* One more decision is staged last, at an instant not before the one before.
LEMMA AuthorizeInOrder ==
  ASSUME TypeOK, MemoryInOrder, NEW k \in Keys, Authorize(k)
  PROVE  MemoryInOrder'
<1>1. PICK now \in {instant, instant + 1} :
        instant' = now /\ staged' = Append(staged, [key |-> k, born |-> now])
  BY DEF Authorize
<1>2. UNCHANGED <<flushing, row>>
  BY DEF Authorize, tableVars
<1>3. /\ instant \in Nat /\ now \in Nat /\ instant <= now
      /\ staged \in Seq(Event) /\ flushing \in Seq(Event) /\ Len(staged) \in Nat
  BY <1>1 DEF TypeOK
<1>4. /\ Len(staged') = Len(staged) + 1
      /\ \A i \in 1..Len(staged') : staged'[i].born =
           IF i = Len(staged) + 1 THEN now ELSE staged[i].born
      /\ \A i \in 1..Len(staged') : i # Len(staged) + 1 => i \in 1..Len(staged)
  BY <1>1, <1>3
<1>5. /\ \A i \in 1..Len(staged) : staged[i].born \in Nat
      /\ \A i \in 1..Len(flushing) : flushing[i].born \in Nat
      /\ \A j \in Keys : row[j].born \in Nat
  <2>1. /\ \A i \in 1..Len(staged) : staged[i] \in Event
        /\ \A i \in 1..Len(flushing) : flushing[i] \in Event
    BY <1>3
  <2>2. \A e \in Event : e.born \in Nat
    BY DEF Event
  <2>3. \A j \in Keys : row[j].born \in Nat
    BY DEF TypeOK, Row
  <2> QED BY <2>1, <2>2, <2>3
<1>6. RecentIn(row', now) /\ \A b : RecentIn(row, b) => RecentIn(row', b)
  BY <1>2, <1>3, <1>5 DEF MemoryInOrder, RecentIn
<1>7. \A i \in 1..Len(staged') : RecentIn(row', staged'[i].born) /\ staged'[i].born <= now
  BY <1>3, <1>4, <1>5, <1>6 DEF MemoryInOrder
<1>8. Ascending(staged)'
  <2> SUFFICES ASSUME NEW i \in 1..Len(staged'), NEW j \in 1..Len(staged'), i <= j
               PROVE  staged'[i].born <= staged'[j].born
    BY DEF Ascending
  <2>1. CASE j = Len(staged) + 1
    BY <1>3, <1>4, <1>7, <2>1
  <2>2. CASE j # Len(staged) + 1
    <3>1. i # Len(staged) + 1 /\ i \in 1..Len(staged) /\ j \in 1..Len(staged)
      BY <1>3, <1>4, <2>2
    <3> QED BY <1>4, <2>2, <3>1 DEF MemoryInOrder, Ascending
  <2> QED BY <2>1, <2>2
<1>9. \A i \in 1..Len(flushing) : /\ RecentIn(row', flushing[i].born) /\ flushing[i].born <= now
                                  /\ \A j \in 1..Len(staged') : flushing[i].born <= staged'[j].born
  BY <1>3, <1>4, <1>5, <1>6 DEF MemoryInOrder
<1> QED BY <1>1, <1>2, <1>6, <1>7, <1>8, <1>9 DEF MemoryInOrder, Ascending

\* The first of the list becomes a row: nothing recorded is younger, and nothing that waits is older.
LEMMA EnqueueInOrder ==
  ASSUME TypeOK, MemoryInOrder, EnqueueNext
  PROVE  /\ MemoryInOrder'
         /\ \/ row' = row
            \/ \E k \in Keys, b \in Nat :
                 /\ ~Recorded(k) /\ RecentIn(row, b)
                 /\ row' = [row EXCEPT ![k] = [status |-> "pending", attempts |-> 0, born |-> b]]
<1> DEFINE b == flushing[1].born
           k == flushing[1].key
<1>1. /\ flushing \in Seq(Event) /\ flushing # <<>> /\ flushing' = Tail(flushing)
      /\ staged' = staged /\ instant' = instant
  BY DEF EnqueueNext, TypeOK
<1>2. /\ 1 \in 1..Len(flushing) /\ Len(flushing) \in Nat /\ Len(flushing') = Len(flushing) - 1
      /\ \A i \in 1..Len(flushing') : flushing'[i] = flushing[i + 1] /\ i + 1 \in 1..Len(flushing)
  <2>1. Len(flushing) \in Nat \ {0}
    BY <1>1
  <2>2. /\ Len(Tail(flushing)) = Len(flushing) - 1
        /\ \A i \in 1..(Len(flushing) - 1) : Tail(flushing)[i] = flushing[i + 1]
    BY <1>1, <2>1
  <2> QED BY <1>1, <2>1, <2>2
<1>3. k \in Keys /\ b \in Nat
  <2>1. flushing[1] \in Event
    BY <1>1, <1>2
  <2> QED BY <2>1 DEF Event
<1>4. \/ row' = row
      \/ ~Recorded(k) /\ row' = [row EXCEPT ![k] = [status |-> "pending", attempts |-> 0, born |-> b]]
  <2>1. Head(flushing) = flushing[1]
    BY <1>1
  <2> QED BY <2>1 DEF EnqueueNext
<1>5. RecentIn(row, b) /\ \A i \in 1..Len(flushing) : b <= flushing[i].born
  BY <1>2 DEF MemoryInOrder, Ascending
<1>6. b <= instant /\ \A i \in 1..Len(staged) : b <= staged[i].born
  BY <1>2 DEF MemoryInOrder
<1>7. \A c : RecentIn(row, c) /\ b <= c => RecentIn(row', c)
  <2>1. CASE row' = row
    BY <2>1 DEF RecentIn
  <2>2. CASE row' = [row EXCEPT ![k] = [status |-> "pending", attempts |-> 0, born |-> b]]
    <3>1. row'[k].born = b /\ \A j \in Keys : j # k => row'[j] = row[j]
      BY <1>3, <2>2 DEF TypeOK
    <3> QED BY <3>1 DEF RecentIn
  <2> QED BY <1>4, <2>1, <2>2
<1>8. RecentIn(row', instant) /\ \A i \in 1..Len(staged) : RecentIn(row', staged[i].born)
  BY <1>1, <1>6, <1>7 DEF MemoryInOrder
<1>9. \A i \in 1..Len(flushing') : /\ RecentIn(row', flushing'[i].born) /\ flushing'[i].born <= instant
                                   /\ \A j \in 1..Len(staged) : flushing'[i].born <= staged[j].born
  BY <1>2, <1>5, <1>7 DEF MemoryInOrder
<1>10. Ascending(flushing)'
  <2>1. \A i, j \in 1..Len(flushing') : i <= j => i + 1 <= j + 1
    OBVIOUS
  <2> QED BY <1>2, <2>1 DEF MemoryInOrder, Ascending
<1>11. MemoryInOrder'
  BY <1>1, <1>8, <1>9, <1>10 DEF MemoryInOrder, Ascending
<1> QED BY <1>3, <1>4, <1>5, <1>11
\* Either mark leaves a row as old as it was, called and on record, and the others as they were.
LEMMA MarkBooks ==
  ASSUME TypeInv, NEW r \in Relays, MarkSent(r) \/ MarkFailed(r)
  PROVE  /\ current[r] \in Keys /\ row'[current[r]].status \in {"sent", "dead", "failed"}
         /\ row'[current[r]].born = row[current[r]].born
         /\ \A j \in Keys : j # current[r] => row'[j] = row[j]
<1> DEFINE k == current[r]
<1>1. k \in Keys
  BY DEF MarkSent, MarkFailed, TypeInv, Cursor, TypeOK
<1>2. ASSUME NEW t \in {"sent", "dead", "failed"}, row' = Booked(k, t)
      PROVE  /\ row'[k].status = t /\ row'[k].born = row[k].born
             /\ \A j \in Keys : j # k => row'[j] = row[j]
  <2>1. row \in [Keys -> Row] /\ t \in Statuses
    BY DEF TypeInv, TypeOK, Statuses
  <2> QED BY <1>1, <1>2, <2>1, BookedRow
<1>3. CASE MarkSent(r)
  BY <1>1, <1>2, <1>3 DEF MarkSent
<1>4. CASE MarkFailed(r)
  BY <1>1, <1>2, <1>4, MarkFailedTable
<1> QED BY <1>3, <1>4

\* The lists in memory stay in order.
LEMMA MemoryStep ==
  ASSUME TypeInv, OrderInv, [Next]_vars
  PROVE  MemoryInOrder'
<1> TypeOK /\ MemoryInOrder
  BY DEF TypeInv, OrderInv
<1>1. ASSUME NEW k \in Keys, Authorize(k) PROVE MemoryInOrder'
  BY <1>1, AuthorizeInOrder
<1>2. CASE BeginFlush
  <2>1. flushing' = staged /\ staged' = <<>> /\ UNCHANGED <<row, instant>>
    BY <1>2 DEF BeginFlush, tableVars
  <2> QED BY <2>1 DEF MemoryInOrder, Ascending
<1>3. CASE EnqueueNext
  BY <1>3, EnqueueInOrder
<1>4. CASE EnqueueRaises
  <2>1. flushing' = <<>> /\ UNCHANGED <<row, staged, instant>>
    BY <1>4 DEF EnqueueRaises, tableVars
  <2> QED BY <2>1 DEF MemoryInOrder, Ascending
<1>5. CASE CrashWorkflow
  <2>1. flushing' = <<>> /\ staged' = <<>> /\ UNCHANGED <<row, instant>>
    BY <1>5 DEF CrashWorkflow, tableVars
  <2> QED BY <2>1 DEF MemoryInOrder, Ascending
<1>6. CASE Checkpoint \/ Tick \/ DropSessions \/ UNCHANGED vars
  <2>1. UNCHANGED <<row, flushing, staged, instant>>
    BY <1>6 DEF Checkpoint, Tick, DropSessions, vars, tableVars, workflowVars
  <2> QED BY <2>1, MemoryKept DEF Recorded
<1>7. ASSUME NEW r \in Relays, Drain(r) \/ CrashRelay(r) PROVE MemoryInOrder'
  <2>1. UNCHANGED <<flushing, staged, instant>>
    BY <1>7, ClaimSteps DEF Drain, MarkSent, MarkFailed, EndPass, CrashRelay, DispatchReturns,
                            DispatchRaises, Dispatch, workflowVars
  <2>2. CASE MarkSent(r) \/ MarkFailed(r)
    <3>1. current[r] \in Keys /\ Recorded(current[r])
      BY <2>2 DEF MarkSent, MarkFailed, TypeInv, Cursor, TypeOK, OrderInv, CallsInOrder
    <3>2. \A k \in Keys : (Recorded(k)' <=> Recorded(k)) /\ row'[k].born = row[k].born
      BY <2>2, <3>1, MarkBooks DEF Recorded
    <3> QED BY <2>1, <3>2, MemoryKept
  <2>3. CASE ~MarkSent(r) /\ ~MarkFailed(r)
    <3>1. row' = row
      BY <1>7, <2>3, ClaimSteps DEF Drain, EndPass, CrashRelay, DispatchReturns, DispatchRaises,
                                    Dispatch, tableVars
    <3> QED BY <2>1, <3>1, MemoryKept DEF Recorded
  <2> QED BY <2>2, <2>3
<1> QED BY <1>1, <1>2, <1>3, <1>4, <1>5, <1>6, <1>7 DEF Next, Workflow

\* The row a claim comes to is the oldest on its list, so whatever is older and was never called is
\* locked by now or elsewhere.
LEMMA EldersAreTaken ==
  ASSUME TypeInv, CallsInOrder, NEW r \in Relays, NEW k \in Keys, First(k, found[r])
  PROVE  /\ Recorded(k)
         /\ \A j \in Keys : Recorded(j) /\ Older(j, k) /\ calls[j] = 0 =>
              j \in batch[r] \/ Elsewhere(r, j)
<1>1. k \in found[r] /\ \A j \in found[r] : j = k \/ Before(k, j)
  BY DEF First
<1>2. \A j \in Keys : row[j].born \in Nat
  BY DEF TypeInv, TypeOK, Row
<1>3. ASSUME NEW j \in Keys, Older(j, k) PROVE j \notin found[r]
  <2>1. ~(j = k \/ Before(k, j))
    BY <1>2, <1>3 DEF Older, Before
  <2> QED BY <1>1, <2>1
<1> QED BY <1>1, <1>3 DEF CallsInOrder

\* A row that is passed over without ever having been called is in another relay's hands.
LEMMA SkippedIsElsewhere ==
  ASSUME TypeInv, CallsInOrder, NEW r \in Relays, NEW k \in Keys, PassOver(r, k), calls[k] = 0
  PROVE  Elsewhere(r, k)
<1>1. k \in found[r] /\ (~Due(k) \/ k \in LockedFor(r) \cup MarkedFor(r))
  BY DEF PassOver, ComesTo, First
<1>2. Due(k)
  <2>1. Recorded(k)
    BY <1>1 DEF CallsInOrder
  <2>2. row[k].status \in {"absent", "pending"} /\ wait[k] = 0
    BY DEF CallsInOrder
  <2> QED BY <2>1, <2>2 DEF Due, Open, Recorded
<1>3. k \notin MarkedFor(r)
  BY DEF MarkedFor, CallsInOrder
<1>4. CASE k \in orphans
  BY <1>4 DEF CallsInOrder, Elsewhere
<1>5. CASE \E q \in Relays \ {r} : k \in batch[q]
  BY <1>5 DEF Elsewhere
<1> QED BY <1>1, <1>2, <1>3, <1>4, <1>5 DEF LockedFor

\* A claim opens with every row that was never called on its list, and keeps the order row by row.
LEMMA ClaimInOrder ==
  ASSUME TypeInv, CallsInOrder, NEW r \in Relays,
         \/ BeginClaim(r) \/ EndClaim(r)
         \/ \E k \in Keys : LockRow(r, k) \/ PassOver(r, k)
  PROVE  CallsInOrder'
<1>1. /\ UNCHANGED <<row, wait, current, calls, dropped, orphans>>
      /\ \A q \in Relays : /\ q # r => found'[q] = found[q] /\ batch'[q] = batch[q]
                           /\ batch[q] \in SUBSET Keys /\ found[q] \in SUBSET Keys
                           /\ batch[q] \subseteq batch'[q]
  <2>1. UNCHANGED <<row, wait, current, calls, dropped, orphans>>
    BY ClaimSteps
  <2>2. \A q \in Relays : q # r => found'[q] = found[q]
    BY DEF BeginClaim, EndClaim, LockRow, PassOver, ComesTo, TypeInv, TypeOK
  <2>3. \A q \in Relays : batch[q] \subseteq batch'[q] /\ (q # r => batch'[q] = batch[q])
    BY ClaimSteps DEF TypeInv, TypeOK
  <2> QED BY <2>1, <2>2, <2>3 DEF TypeInv, TypeOK
<1>2. \A q \in Relays, j \in Keys : Elsewhere(q, j) => Elsewhere(q, j)'
  BY <1>1 DEF Elsewhere
<1> DEFINE Reaches(q, k) == \A j \in Keys : Recorded(j) /\ Older(j, k) /\ calls[j] = 0 =>
                              j \in batch'[q] \/ Elsewhere(q, j)'
           Lists(q, k) == \A j \in Keys : Recorded(j) /\ Older(j, k) /\ calls[j] = 0 =>
                            j \in batch'[q] \cup found'[q] \/ Elsewhere(q, j)'
<1>4. \A k \in batch[r] : Recorded(k) /\ Reaches(r, k)
  BY <1>1, <1>2 DEF CallsInOrder
<1>8. ASSUME \A k \in batch'[r] \cup found'[r] : Recorded(k),
             \A k \in batch'[r] : Reaches(r, k), \A k \in found'[r] : Lists(r, k)
      PROVE  CallsInOrder'
  <2>1. \A q \in Relays : /\ \A k \in batch'[q] \cup found'[q] : Recorded(k)
                          /\ \A k \in batch'[q] : Reaches(q, k)
                          /\ \A k \in found'[q] : Lists(q, k)
    <3> TAKE q \in Relays
    <3>1. CASE q = r
      BY <1>8, <3>1
    <3>2. CASE q # r
      <4>1. batch'[q] = batch[q] /\ found'[q] = found[q]
        BY <1>1, <3>2
      <4>2. QED BY <1>2, <4>1 DEF CallsInOrder
    <3> QED BY <3>1, <3>2
  <2>2. \A q \in Relays : current[q] \in Keys => calls[current[q]] > 0
    BY DEF CallsInOrder
  <2> QED BY <1>1, <2>1, <2>2 DEF CallsInOrder, Recorded, Older
<1>5. CASE BeginClaim(r)
  <2>1. batch'[r] = {} /\ found'[r] = {k \in Keys : Due(k)}
    BY <1>5, ClaimSteps DEF BeginClaim, TypeInv, Cursor, TypeOK
  <2>2. \A k \in found'[r] : Recorded(k)
    BY <2>1 DEF Due, Open, Recorded
  <2>3. \A j \in Keys : Recorded(j) /\ calls[j] = 0 => j \in found'[r]
    BY <2>1 DEF CallsInOrder, Due, Open, Recorded
  <2>4. \A k \in batch'[r] \cup found'[r] : Recorded(k)
    BY <2>1, <2>2
  <2>5. (\A k \in batch'[r] : Reaches(r, k)) /\ \A k \in found'[r] : Lists(r, k)
    BY <2>1, <2>3
  <2> QED BY <1>8, <2>4, <2>5
<1>6. CASE EndClaim(r)
  <2>1. batch'[r] = batch[r] /\ found'[r] = {}
    BY <1>6, ClaimSteps DEF EndClaim, TypeInv, TypeOK
  <2>2. \A k \in batch'[r] \cup found'[r] : Recorded(k)
    BY <1>4, <2>1
  <2>3. (\A k \in batch'[r] : Reaches(r, k)) /\ \A k \in found'[r] : Lists(r, k)
    BY <1>4, <2>1
  <2> QED BY <1>8, <2>2, <2>3
<1>7. ASSUME NEW k \in Keys, LockRow(r, k) \/ PassOver(r, k) PROVE CallsInOrder'
  <2>1. First(k, found[r]) /\ found'[r] = found[r] \ {k}
    BY <1>7 DEF LockRow, PassOver, ComesTo, TypeInv, TypeOK
  <2>2. Recorded(k) /\ Reaches(r, k)
    BY <1>1, <1>2, <2>1, EldersAreTaken
  <2>3. batch'[r] \subseteq batch[r] \cup {k}
    BY <1>7, ClaimSteps DEF TypeInv, TypeOK
  <2>4. calls[k] = 0 => k \in batch'[r] \/ Elsewhere(r, k)'
    <3>1. CASE LockRow(r, k)
      BY <3>1, ClaimSteps DEF TypeInv, TypeOK
    <3>2. CASE PassOver(r, k)
      BY <1>2, <3>2, SkippedIsElsewhere
    <3> QED BY <1>7, <3>1, <3>2
  <2>5. \A l \in batch'[r] \cup found'[r] : Recorded(l)
    BY <1>4, <2>1, <2>2, <2>3 DEF CallsInOrder
  <2>6. \A l \in batch'[r] : Reaches(r, l)
    BY <1>4, <2>2, <2>3
  <2>7. \A l \in found'[r] : Lists(r, l)
    <3> SUFFICES ASSUME NEW l \in found'[r], NEW j \in Keys, Recorded(j), Older(j, l), calls[j] = 0
                 PROVE  j \in batch'[r] \cup found'[r] \/ Elsewhere(r, j)'
      OBVIOUS
    <3>1. j \in batch[r] \cup found[r] \/ Elsewhere(r, j)
      BY <2>1 DEF CallsInOrder
    <3> QED BY <1>1, <1>2, <2>1, <2>4, <3>1
  <2> QED BY <1>8, <2>5, <2>6, <2>7
<1> QED BY <1>5, <1>6, <1>7

\* A call leaves the lists as they are, and its key is no longer one that was never called.
LEMMA DispatchInOrder ==
  ASSUME TypeInv, CallsInOrder, NEW r \in Relays, NEW k \in Keys,
         DispatchReturns(r, k) \/ DispatchRaises(r, k)
  PROVE  CallsInOrder'
<1>1. /\ k \in batch[r] /\ calls' = [calls EXCEPT ![k] = calls[k] + 1] /\ dropped' = dropped \ {k}
      /\ current' = [current EXCEPT ![r] = k] /\ UNCHANGED <<row, wait, batch, found, orphans>>
  BY DEF DispatchReturns, DispatchRaises, Dispatch, First, tableVars
<1>2. /\ calls'[k] > 0 /\ \A j \in Keys : calls'[j] = 0 => j # k /\ calls[j] = 0
      /\ \A j \in Keys : calls[j] > 0 => calls'[j] > 0
      /\ current'[r] = k /\ \A q \in Relays : q # r => current'[q] = current[q]
  BY <1>1 DEF TypeInv, TypeOK
<1>3. \A q \in Relays, j \in Keys : j # k /\ Elsewhere(q, j) => Elsewhere(q, j)'
  BY <1>1 DEF Elsewhere
<1>4. \A j \in Keys : /\ ~Recorded(j)' => calls'[j] = 0
                      /\ calls'[j] = 0 => row'[j].status \in {"absent", "pending"} /\ wait'[j] = 0
  <2>1. Recorded(k)
    BY <1>1 DEF CallsInOrder
  <2>2. \A j \in Keys : j # k => calls'[j] = calls[j]
    BY <1>1 DEF TypeInv, TypeOK
  <2> QED BY <1>1, <1>2, <2>1, <2>2 DEF CallsInOrder, Recorded
<1>5. \A j \in orphans' : calls'[j] = 0 => j \in dropped'
  BY <1>1, <1>2 DEF CallsInOrder, TypeInv, TypeOK
<1>6. \A q \in Relays :
        /\ current'[q] \in Keys => calls'[current'[q]] > 0
        /\ \A l \in batch'[q] \cup found'[q] : Recorded(l)'
        /\ \A l \in batch'[q], j \in Keys : Recorded(j)' /\ Older(j, l)' /\ calls'[j] = 0 =>
             j \in batch'[q] \/ Elsewhere(q, j)'
        /\ \A l \in found'[q], j \in Keys : Recorded(j)' /\ Older(j, l)' /\ calls'[j] = 0 =>
             j \in batch'[q] \cup found'[q] \/ Elsewhere(q, j)'
  BY <1>1, <1>2, <1>3 DEF CallsInOrder, Recorded, Older
<1> QED BY <1>4, <1>5, <1>6 DEF CallsInOrder

\* A mark is about a row that was called, and leaves every row as old as it was.
LEMMA MarkInOrder ==
  ASSUME TypeInv, CallsInOrder, NEW r \in Relays, MarkSent(r) \/ MarkFailed(r)
  PROVE  CallsInOrder'
<1> DEFINE k == current[r]
<1>1. /\ k \in Keys /\ k \in batch[r] /\ NoKey \notin Keys
      /\ UNCHANGED <<calls, dropped, orphans, found>>
      /\ batch' = [batch EXCEPT ![r] = batch[r] \ {k}] /\ current' = [current EXCEPT ![r] = NoKey]
  BY OutboxConstants
    DEF MarkSent, MarkFailed, NextEvent, historyVars, TypeInv, Cursor, TypeOK
<1>2. /\ batch'[r] = batch[r] \ {k} /\ current'[r] = NoKey
      /\ \A q \in Relays : q # r => batch'[q] = batch[q] /\ current'[q] = current[q]
  BY <1>1 DEF TypeInv, TypeOK
<1>3. Recorded(k) /\ calls[k] > 0 /\ calls[k] # 0
  BY <1>1 DEF CallsInOrder, TypeInv, TypeOK
<1>4. /\ row'[k].status \in {"sent", "dead", "failed"} /\ row'[k].born = row[k].born
      /\ \A j \in Keys : j # k => row'[j] = row[j]
  BY MarkBooks
<1>5. \A j \in Keys : j # k => wait'[j] = wait[j]
  BY <1>1 DEF MarkSent, MarkFailed, Reschedule, TypeInv, TypeOK
<1>6. \A j \in Keys : Recorded(j)' <=> Recorded(j)
  BY <1>3, <1>4 DEF Recorded
<1>7. \A i, j \in Keys : Older(i, j)' <=> Older(i, j)
  <2>1. \A j \in Keys : row'[j].born = row[j].born
    BY <1>4
  <2> QED BY <2>1 DEF Older
<1>8. \A q \in Relays : batch[q] \in SUBSET Keys /\ found[q] \in SUBSET Keys
  BY DEF TypeInv, TypeOK
<1>9. \A q \in Relays, j \in Keys : j # k /\ Elsewhere(q, j) => Elsewhere(q, j)'
  <2> SUFFICES ASSUME NEW q \in Relays, NEW j \in Keys, j # k, NEW p \in Relays \ {q}, j \in batch[p]
               PROVE  j \in batch'[p]
    BY <1>1 DEF Elsewhere
  <2> QED BY <1>2
<1>10. \A j \in Keys : /\ ~Recorded(j)' => calls'[j] = 0
                       /\ calls'[j] = 0 => row'[j].status \in {"absent", "pending"} /\ wait'[j] = 0
  BY <1>1, <1>3, <1>4, <1>5, <1>6 DEF CallsInOrder
<1>11. \A j \in orphans' : calls'[j] = 0 => j \in dropped'
  BY <1>1 DEF CallsInOrder
<1>12. ASSUME NEW q \in Relays
       PROVE  /\ current'[q] \in Keys => calls'[current'[q]] > 0
              /\ \A l \in batch'[q] \cup found'[q] : Recorded(l)'
              /\ \A l \in batch'[q], j \in Keys : Recorded(j)' /\ Older(j, l)' /\ calls'[j] = 0 =>
                   j \in batch'[q] \/ Elsewhere(q, j)'
              /\ \A l \in found'[q], j \in Keys : Recorded(j)' /\ Older(j, l)' /\ calls'[j] = 0 =>
                   j \in batch'[q] \cup found'[q] \/ Elsewhere(q, j)'
  <2>1. batch'[q] \subseteq batch[q] /\ found'[q] = found[q] /\ \A j \in batch[q] : j # k => j \in batch'[q]
    BY <1>1, <1>2
  <2>2. current'[q] \in Keys => calls'[current'[q]] > 0
    BY <1>1, <1>2 DEF CallsInOrder
  <2>3. \A l \in batch'[q] \cup found'[q] : Recorded(l)'
    BY <1>6, <1>8, <2>1 DEF CallsInOrder
  <2>4. \A l \in batch'[q], j \in Keys : Recorded(j)' /\ Older(j, l)' /\ calls'[j] = 0 =>
          j \in batch'[q] \/ Elsewhere(q, j)'
    BY <1>1, <1>3, <1>6, <1>7, <1>8, <1>9, <2>1 DEF CallsInOrder
  <2>5. \A l \in found'[q], j \in Keys : Recorded(j)' /\ Older(j, l)' /\ calls'[j] = 0 =>
          j \in batch'[q] \cup found'[q] \/ Elsewhere(q, j)'
    BY <1>1, <1>3, <1>6, <1>7, <1>8, <1>9, <2>1 DEF CallsInOrder
  <2> QED BY <2>2, <2>3, <2>4, <2>5
<1> QED BY <1>10, <1>11, <1>12 DEF CallsInOrder

\* A new row is no older than any on record, and on nobody's list.
LEMMA RecordInOrder ==
  ASSUME TypeInv, CallsInOrder, NEW k \in Keys, NEW b \in Nat, ~Recorded(k), RecentIn(row, b),
         row' = [row EXCEPT ![k] = [status |-> "pending", attempts |-> 0, born |-> b]],
         UNCHANGED <<wait, batch, found, current, calls, dropped, orphans>>
  PROVE  CallsInOrder'
<1>1. /\ row'[k].status = "pending" /\ row'[k].born = b
      /\ \A j \in Keys : j # k => row'[j] = row[j]
  BY DEF TypeInv, TypeOK
<1>2. \A q \in Relays : k \notin batch[q] \cup found[q] /\ batch[q] \cup found[q] \in SUBSET Keys
  BY DEF CallsInOrder, TypeInv, TypeOK
<1>3. \A j \in Keys : row[j].born \in Nat
  BY DEF TypeInv, TypeOK, Row
<1>4. \A j \in Keys : j # k => (Recorded(j)' <=> Recorded(j))
  BY <1>1 DEF Recorded
<1>5. \A j \in Keys : Recorded(j) => ~Older(k, j)'
  BY <1>1, <1>3 DEF RecentIn, Recorded, Older
<1>6. \A i, j \in Keys : i # k /\ j # k => (Older(i, j)' <=> Older(i, j))
  BY <1>1 DEF Older
<1>7. \A q \in Relays, j \in Keys : Elsewhere(q, j)' <=> Elsewhere(q, j)
  BY DEF Elsewhere
<1>8. \A j \in Keys : /\ ~Recorded(j)' => calls'[j] = 0
                      /\ calls'[j] = 0 => row'[j].status \in {"absent", "pending"} /\ wait'[j] = 0
  BY <1>1, <1>4 DEF CallsInOrder
<1>9. ASSUME NEW q \in Relays
      PROVE  /\ \A l \in batch[q] \cup found[q] : l \in Keys /\ l # k /\ Recorded(l) /\ Recorded(l)'
             /\ \A l \in batch[q], j \in Keys : Recorded(j)' /\ Older(j, l)' /\ calls[j] = 0 =>
                  j \in batch[q] \/ Elsewhere(q, j)
             /\ \A l \in found[q], j \in Keys : Recorded(j)' /\ Older(j, l)' /\ calls[j] = 0 =>
                  j \in batch[q] \cup found[q] \/ Elsewhere(q, j)
  <2>1. \A l \in batch[q] \cup found[q] : l \in Keys /\ l # k /\ Recorded(l) /\ Recorded(l)'
    BY <1>2, <1>4 DEF CallsInOrder
  <2>2. \A l \in batch[q] \cup found[q], j \in Keys :
          Recorded(j)' /\ Older(j, l)' => Recorded(j) /\ Older(j, l)
    BY <1>4, <1>5, <1>6, <2>1
  <2> QED BY <2>1, <2>2 DEF CallsInOrder
<1> QED BY <1>7, <1>8, <1>9 DEF CallsInOrder

\* When a relay forgets its batch, nothing in it was never called, or it died and that is on record.
LEMMA ForgetInOrder ==
  ASSUME TypeInv, CallsInOrder, NEW r \in Relays, EndPass(r) \/ CrashRelay(r)
  PROVE  CallsInOrder'
<1>1. /\ UNCHANGED <<row, wait, calls>>
      /\ batch'[r] = {} /\ found'[r] = {} /\ current'[r] = NoKey /\ NoKey \notin Keys
      /\ \A q \in Relays : q # r => /\ batch'[q] = batch[q] /\ found'[q] = found[q]
                                   /\ current'[q] = current[q]
  BY OutboxConstants DEF EndPass, CrashRelay, Forget, tableVars, historyVars, TypeInv, TypeOK
<1>2. dropped \subseteq dropped' /\ \A j \in batch[r] : calls[j] = 0 => j \in dropped'
  BY DEF EndPass, CrashRelay, historyVars
<1>3. \A j \in orphans' : calls[j] = 0 => j \in dropped'
  <2>1. CASE EndPass(r)
    BY <1>2, <2>1 DEF EndPass, CallsInOrder
  <2>2. CASE CrashRelay(r)
    <3>1. \A j \in Locks(r) : calls[j] = 0 => j \in batch[r]
      BY DEF Locks, TypeInv, Cursor
    <3> QED BY <1>2, <2>2, <3>1 DEF CrashRelay, CallsInOrder
  <2> QED BY <2>1, <2>2
<1>4. \A q \in Relays, j \in Keys : calls[j] = 0 /\ Elsewhere(q, j) => Elsewhere(q, j)'
  BY <1>1, <1>2 DEF Elsewhere
<1>5. ASSUME NEW q \in Relays
      PROVE  /\ current'[q] \in Keys => calls[current'[q]] > 0
             /\ \A l \in batch'[q] \cup found'[q] : Recorded(l)
             /\ \A l \in batch'[q], j \in Keys : Recorded(j) /\ Older(j, l) /\ calls[j] = 0 =>
                  j \in batch'[q] \/ Elsewhere(q, j)'
             /\ \A l \in found'[q], j \in Keys : Recorded(j) /\ Older(j, l) /\ calls[j] = 0 =>
                  j \in batch'[q] \cup found'[q] \/ Elsewhere(q, j)'
  <2>1. CASE q = r
    BY <1>1, <2>1
  <2>2. CASE q # r
    BY <1>1, <1>4, <2>2 DEF CallsInOrder
  <2> QED BY <2>1, <2>2
<1> QED BY <1>1, <1>3, <1>5 DEF CallsInOrder, Recorded, Older

\* First calls stay in order, at every step.
LEMMA CallsStep ==
  ASSUME TypeInv, OrderInv, [Next]_vars
  PROVE  CallsInOrder'
<1> TypeOK /\ CallsInOrder /\ MemoryInOrder
  BY DEF TypeInv, OrderInv
<1>1. CASE UNCHANGED <<row, wait, batch, found, current, calls, dropped, orphans>>
  BY <1>1 DEF CallsInOrder, Recorded, Older, Elsewhere
<1>2. CASE EnqueueNext
  <2>1. UNCHANGED <<wait, batch, found, current, calls, dropped, orphans>>
    BY <1>2 DEF EnqueueNext, relayVars, historyVars
  <2> QED BY <1>1, <1>2, <2>1, EnqueueInOrder, RecordInOrder
<1>3. CASE (Workflow /\ ~EnqueueNext) \/ UNCHANGED vars
  <2>1. UNCHANGED <<row, wait, batch, found, current, calls, dropped, orphans>>
    BY <1>3 DEF Workflow, Authorize, Checkpoint, BeginFlush, EnqueueRaises, CrashWorkflow,
                vars, tableVars, relayVars, historyVars
  <2> QED BY <1>1, <2>1
<1>4. CASE Tick
  <2>1. /\ UNCHANGED <<row, batch, found, current, calls, dropped, orphans>>
        /\ \A j \in Keys : wait[j] = 0 => wait'[j] = 0
    BY <1>4 DEF Tick, historyVars
  <2> QED BY <2>1 DEF CallsInOrder, Recorded, Older, Elsewhere
<1>5. CASE DropSessions
  <2>1. UNCHANGED <<row, wait, batch, found, current, calls, dropped>> /\ orphans' = {}
    BY <1>5 DEF DropSessions, tableVars, historyVars
  <2> QED BY <2>1 DEF CallsInOrder, Recorded, Older, Elsewhere
<1>6. ASSUME NEW r \in Relays, Drain(r) \/ CrashRelay(r) PROVE CallsInOrder'
  BY <1>6, ClaimInOrder, DispatchInOrder, MarkInOrder, ForgetInOrder DEF Drain
<1> QED BY <1>2, <1>3, <1>4, <1>5, <1>6 DEF Next

LEMMA OrderInvariance == Safety => []OrderInv
<1>1. Init => OrderInv
  BY OutboxConstants
    DEF Init, OrderInv, MemoryInOrder, CallsInOrder, Ascending, RecentIn, Recorded
<1>2. TypeInv /\ OrderInv /\ [Next]_vars => OrderInv'
  BY MemoryStep, CallsStep DEF OrderInv
<1> QED BY <1>1, <1>2, TypeInvariance, PTL DEF Safety

\* A loop variable that becomes a key becomes it in a call of the oldest event of its batch.
LEMMA OnlyCallsPick ==
  ASSUME TypeInv, [Next]_vars, NEW r \in Relays, NEW k \in Keys, pc[r] = "looping", current'[r] = k
  PROVE  First(k, batch[r])
<1>1. TypeOK /\ current[r] = NoKey /\ NoKey \notin Keys
  BY OutboxConstants DEF TypeInv, Cursor
<1>2. current' # current
  BY <1>1
<1>3. PICK q \in Relays : Drain(q) \/ CrashRelay(q)
  BY <1>2 DEF Next, Workflow, Authorize, Checkpoint, BeginFlush, EnqueueNext, EnqueueRaises,
              CrashWorkflow, Tick, DropSessions, vars, relayVars
<1>4. ~(EndPass(q) \/ CrashRelay(q) \/ MarkSent(q) \/ MarkFailed(q))
  BY <1>1 DEF EndPass, CrashRelay, Forget, MarkSent, MarkFailed, NextEvent, TypeOK
<1>5. PICK j \in Keys : DispatchReturns(q, j) \/ DispatchRaises(q, j)
  BY <1>2, <1>3, <1>4, ClaimSteps DEF Drain
<1>6. First(j, batch[q]) /\ current' = [current EXCEPT ![q] = j]
  BY <1>5 DEF DispatchReturns, DispatchRaises, Dispatch
<1>7. q = r /\ j = k
  BY <1>1, <1>6 DEF TypeOK
<1> QED BY <1>6, <1>7

\* Whatever the number of relays, of crashes and of replays, and for every limit: an intent is called
\* while one that was decided before it, and is on record, has never been, only if another relay
\* has that one, or had it and died.
THEOREM FirstCallsOrdered == Safety => FirstCallsInOrder
<1>1. TypeInv /\ OrderInv /\ [Next]_vars =>
        [\A r \in Relays, j, k \in Keys :
           pc[r] = "looping" /\ current'[r] = k /\ Recorded(j) /\ Older(j, k) /\ calls[j] = 0
             => j \in dropped \/ \E q \in Relays \ {r} : j \in batch[q]]_vars
  <2> SUFFICES ASSUME TypeInv, OrderInv, [Next]_vars, NEW r \in Relays, NEW j \in Keys, NEW k \in Keys,
                      pc[r] = "looping", current'[r] = k, Recorded(j), Older(j, k), calls[j] = 0
               PROVE  j \in dropped \/ \E q \in Relays \ {r} : j \in batch[q]
    OBVIOUS
  <2>1. First(k, batch[r])
    BY OnlyCallsPick
  <2>2. j \in batch[r] \/ Elsewhere(r, j)
    BY <2>1 DEF First, OrderInv, CallsInOrder
  <2>3. row[j].born \in Nat /\ row[k].born \in Nat
    BY DEF TypeInv, TypeOK, Row
  <2>4. j \notin batch[r]
    BY <2>1, <2>3 DEF First, Before, Older
  <2> QED BY <2>2, <2>4 DEF Elsewhere
<1> QED BY <1>1, TypeInvariance, OrderInvariance, PTL DEF Safety, FirstCallsInOrder
-----------------------------------------------------------------------------
(* A decision is lost only by a fault *)

\* While a node is in flight, what it staged waits in memory: no flush begins before it has returned.
InFlightIsStaged == \A k \in running : \E i \in DOMAIN staged : staged[i].key = k

LEMMA InFlightInvariance == Safety => []InFlightIsStaged
<1>1. Init => InFlightIsStaged
  BY DEF Init, InFlightIsStaged
<1>2. TypeInv /\ InFlightIsStaged /\ [Next]_vars => InFlightIsStaged'
  <2> SUFFICES ASSUME TypeOK, InFlightIsStaged, [Next]_vars PROVE InFlightIsStaged'
    BY DEF TypeInv
  <2>1. CASE UNCHANGED <<running, staged>>
    BY <2>1 DEF InFlightIsStaged
  <2>2. ASSUME NEW k \in Keys, Authorize(k) PROVE InFlightIsStaged'
    <3>1. PICK now : staged' = Append(staged, [key |-> k, born |-> now])
      BY <2>2 DEF Authorize
    <3>2. staged'[Len(staged) + 1].key = k /\ Len(staged) + 1 \in DOMAIN staged'
      BY <3>1 DEF TypeOK
    <3> QED BY <2>2, <3>2 DEF Authorize, InFlightIsStaged
  <2>3. CASE Checkpoint \/ CrashWorkflow \/ BeginFlush
    BY <2>3 DEF Checkpoint, CrashWorkflow, BeginFlush, InFlightIsStaged
  <2>4. CASE EnqueueNext \/ EnqueueRaises \/ Tick \/ DropSessions \/ UNCHANGED vars
    BY <2>1, <2>4 DEF EnqueueNext, EnqueueRaises, Tick, DropSessions, vars, workflowVars
  <2>5. ASSUME NEW r \in Relays, Drain(r) \/ CrashRelay(r) PROVE InFlightIsStaged'
    <3>1. UNCHANGED <<running, staged>>
      BY <2>5, ClaimSteps DEF Drain, MarkSent, MarkFailed, EndPass, CrashRelay, DispatchReturns,
                              DispatchRaises, Dispatch, workflowVars
    <3> QED BY <2>1, <3>1
  <2> QED BY <2>2, <2>3, <2>4, <2>5 DEF Next, Workflow
<1> QED BY <1>1, <1>2, TypeInvariance, PTL DEF Safety

\* What each step does to what is held and recorded, the two faults aside.
LEMMA NothingElseLoses ==
  ASSUME TypeInv, InFlightIsStaged, [Next]_vars, ~EnqueueRaises, ~CrashWorkflow,
         NEW k \in Keys, Lost(k)'
  PROVE  Lost(k)
<1> TypeOK
  BY DEF TypeInv
<1> DEFINE InStaged == \E i \in DOMAIN staged : staged[i].key = k
           InFlush == \E i \in DOMAIN flushing : flushing[i].key = k
<1>1. k \in decided' /\ ~Recorded(k)' /\ ~InStaged' /\ ~InFlush'
  BY DEF Lost, Held
<1>2. CASE UNCHANGED <<decided, staged, flushing>> /\ (Recorded(k) => Recorded(k)')
  BY <1>1, <1>2 DEF Lost, Held
<1>3. ASSUME NEW j \in Keys, Authorize(j) PROVE Lost(k)
  <2>1. PICK now : staged' = Append(staged, [key |-> j, born |-> now])
    BY <1>3 DEF Authorize
  <2>2. \A i \in DOMAIN staged : i \in DOMAIN staged' /\ staged'[i] = staged[i]
    BY <2>1 DEF TypeOK
  <2>3. ~InStaged
    BY <1>1, <2>2
  <2> QED BY <1>1, <1>3, <2>3 DEF Authorize, tableVars, Recorded, Lost, Held
<1>4. CASE Checkpoint
  <2>1. k \notin running
    BY <1>1, <1>4 DEF Checkpoint, InFlightIsStaged
  <2> QED BY <1>1, <1>4, <2>1 DEF Checkpoint, tableVars, Recorded, Lost, Held
<1>5. CASE BeginFlush
  <2>1. ~InStaged /\ ~InFlush
    BY <1>1, <1>5 DEF BeginFlush
  <2> QED BY <1>1, <1>5, <2>1 DEF BeginFlush, tableVars, Recorded, Lost, Held
<1>6. CASE EnqueueNext
  <2>1. /\ flushing \in Seq(Event) /\ flushing # <<>> /\ flushing' = Tail(flushing)
        /\ UNCHANGED <<decided, staged>>
    BY <1>6 DEF EnqueueNext, TypeOK
  <2>2. Len(flushing) \in Nat \ {0} /\ DOMAIN flushing = 1..Len(flushing) /\ Head(flushing) = flushing[1]
    BY <2>1
  <2>3. flushing[1].key \in Keys
    <3>1. flushing[1] \in Event
      BY <2>1, <2>2
    <3> QED BY <3>1 DEF Event
  <2>4. DOMAIN flushing' = 1..(Len(flushing) - 1) /\ \A i \in 1..(Len(flushing) - 1) : flushing'[i] = flushing[i + 1]
    BY <2>1, <2>2
  <2>5. \A i \in 1..Len(flushing) : i = 1 \/ (i - 1 \in 1..(Len(flushing) - 1) /\ (i - 1) + 1 = i)
    BY <2>2
  <2>6. \A i \in DOMAIN flushing : i = 1 \/ (i - 1 \in DOMAIN flushing' /\ flushing'[i - 1] = flushing[i])
    BY <2>2, <2>4, <2>5
  <2> PICK j \in Keys : j = flushing[1].key
    BY <2>3
  <2>7. Recorded(j)' /\ (Recorded(k) => Recorded(k)')
    <3> PICK b : b = flushing[1].born
      OBVIOUS
    <3>1. \/ row' = row /\ Recorded(j)
          \/ row' = [row EXCEPT ![j] = [status |-> "pending", attempts |-> 0, born |-> b]]
      BY <1>6, <2>2 DEF EnqueueNext
    <3>2. CASE row' = row /\ Recorded(j)
      BY <3>2 DEF Recorded
    <3>3. CASE row' = [row EXCEPT ![j] = [status |-> "pending", attempts |-> 0, born |-> b]]
      <4>1. row'[j].status = "pending" /\ (k # j => row'[k] = row[k])
        BY <3>3 DEF TypeOK
      <4> QED BY <4>1 DEF Recorded
    <3> QED BY <3>1, <3>2, <3>3
  <2>8. ~InFlush
    BY <1>1, <2>6, <2>7
  <2> QED BY <1>1, <2>1, <2>7, <2>8 DEF Lost, Held
<1>7. CASE Tick \/ DropSessions \/ UNCHANGED vars
  BY <1>2, <1>7 DEF Tick, DropSessions, vars, workflowVars, tableVars, Recorded
<1>8. ASSUME NEW r \in Relays, Drain(r) \/ CrashRelay(r) PROVE Lost(k)
  <2>1. UNCHANGED <<decided, staged, flushing>>
    BY <1>8, ClaimSteps DEF Drain, MarkSent, MarkFailed, EndPass, CrashRelay, DispatchReturns,
                            DispatchRaises, Dispatch, workflowVars
  <2>2. CASE MarkSent(r) \/ MarkFailed(r)
    BY <1>2, <2>1, <2>2, MarkBooks DEF Recorded
  <2>3. CASE ~MarkSent(r) /\ ~MarkFailed(r)
    <3>1. row' = row
      BY <1>8, <2>3, ClaimSteps DEF Drain, EndPass, CrashRelay, DispatchReturns, DispatchRaises,
                                    Dispatch, tableVars
    <3> QED BY <1>2, <2>1, <3>1 DEF Recorded
  <2> QED BY <2>2, <2>3
<1> QED BY <1>3, <1>4, <1>5, <1>6, <1>7, <1>8 DEF Next, Workflow

\* However many relays, replays and crashes: a checkpointed decision is lost only in a crash of its
\* process before the flush, or by an enqueue that raises within it.
THEOREM DecisionsLostOnlyByFaults == Safety => LostOnlyByFaults
<1>1. TypeInv /\ InFlightIsStaged /\ [Next]_vars =>
        [\A k \in Keys : ~Lost(k) /\ Lost(k)' =>
           used'.workflow > used.workflow \/ used'.enqueue > used.enqueue]_vars
  <2> SUFFICES ASSUME TypeInv, InFlightIsStaged, [Next]_vars, NEW k \in Keys, ~Lost(k), Lost(k)'
               PROVE  used'.workflow > used.workflow \/ used'.enqueue > used.enqueue
    OBVIOUS
  <2>1. used.workflow \in Nat /\ used.enqueue \in Nat /\ used \in Bounds
    BY DEF TypeInv, TypeOK, Bounds
  <2>2. CASE EnqueueRaises
    BY <2>1, <2>2 DEF EnqueueRaises, Bounds
  <2>3. CASE CrashWorkflow
    BY <2>1, <2>3 DEF CrashWorkflow, Bounds
  <2> QED BY <2>2, <2>3, NothingElseLoses
<1> QED BY <1>1, TypeInvariance, InFlightInvariance, PTL DEF Safety, LostOnlyByFaults
=============================================================================
