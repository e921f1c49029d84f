# Verification of the CPE service-assurance workflow

TLA+ models, model-checking runs and machine-checked proofs for the incident
workflow under `src/src/lpr_cpe`: a LangGraph program that takes one customer
fault from a signal to a closed incident, with human approvals, remote repairs,
crew visits, plant requests and external writes on the way.

Paths below are relative to `src/src/lpr_cpe` unless they begin with `src/`.

Contents

1. The system and its parts
2. What is hard about it
3. The modules and how they correspond to the code
4. The runs: what each asks, its bounds, what it shows
5. Fairness and deadlock
6. The proofs
7. Disagreements between the code and what it says of itself
8. What is not modelled
9. Plan

## 1. The system and its parts

| Part | Code | State it keeps | Operations |
|---|---|---|---|
| Case state and reducers | `graph/state.py` | one `IncidentState` per thread: status, evidence, decisions, approvals, actions, work orders, MRs, validation, counters | every node returns a partial update; reducers merge it (append-unique, max, `advance_status`) |
| Node wrapper and budgets | `graph/nodes/_runtime.py`, `graph/guards.py` | the counters inside the case | `check_budgets` before a body, `escalation_update` instead of it, guarded edges after it |
| Incident lifecycle | `domain/lifecycle.py` | none (a table) | `can_transition`, called by the status reducer, which raises |
| Routers D01-D24 | `graph/routing.py` | none (functions of the case) | the next node, cascading through the decisions that need no node |
| Parent graph | `graph/builder.py`, `graph/nodes/*` | the checkpointed thread | intake, evidence, tests, root cause, options, two approval gates, customer confirmation |
| Subgraphs | `graph/subgraphs/*` | the same case, on a channel of their own | remote repair, self-help, field planning, field execution, plant referral, plant execution, restoration, reconciliation and closure, prevention |
| Human gates | `graph/interrupts.py` | the demands and the answers in the case | prepare (records the request), request (parks, and records the answer under a derived id) |
| Policy engine and pack | `policies/*` | none | a decision for one action on one snapshot of the case |
| Decision services | `decision_services/*` | none | root cause, options, impact, blast radius, delimiter, SLA, restoration |
| Detectors | `detectors/*` | none | scores and findings over telemetry |
| Dispatch optimiser | `dispatch/*` | none | a schedule for a visit |
| Adapters | `integrations/*`, `simulation/*` | the list of staged intents | reads; writes through `WriteGate`. `CircuitBreaker` and `with_retry` are defined, and nothing constructs or calls them |
| Outbox | `persistence/outbox.py`, `src/migrations/0001_persistence.sql` | the table of intended writes | enqueue, claim, dispatch, mark, retry, dead-letter |
| Checkpointer, serde | `persistence/*` | the thread's checkpoints | set-up of a library saver |
| HTTP API | `api/*`, `graph/inspect.py` | seen webhook ids | start, resume, approve, reply, webhook |
| Roles | `security/rbac.py` | none (tables) | who may ask for an action, who may sign for one |
| Everything else | `security/redaction.py`, `security/injection.py`, `models`, `observability`, `cli.py`, `runner.py`, `audit.py`, `config` | none that control depends on | redaction, narratives, KPIs, reports, settings |

How they interact. The API (or the CLI) invokes the graph on a thread. The
graph runs one node at a time; each node reads the case, may read or write an
external system through an adapter, and returns an update. A gate node parks the
thread with an interrupt, and a later request resumes it with the answer. Every
external write passes `WriteGate.authorize`, which stages an intent whether or
not the write may leave the process; after an invoke `flush` turns the staged
list into rows, and a relay process drains the rows on its own schedule. The
graph and the outbox share only the idempotency keys and the staged list, so
they are separate specifications here and are not composed: no node reads the
outcome of a relayed write. The nodes call the policy engine, the detectors and
the optimiser as functions of what the case holds at that moment; those have
specifications of their own, in which a step is one node, one job or one
decision, and the case graph takes their outcomes as choices.

What makes each part correct:

* **Outbox.** An intent is recorded once however often it is staged. A row says
  `sent` only of a write that was acknowledged, is retried a bounded number of
  times and, with one relay, ends sent or dead. Intents are first called in the
  order in which they were decided, except past those another relay holds. What
  was decided becomes a row, if somebody calls `flush`, unless one of two faults
  loses it: the process dies before the flush, or an `enqueue` fails in it.
* **Case graph.** No node writes a status the lifecycle refuses and no node
  lacks what it reads. Nothing is done to a device, a crew or the plant without
  the policy's leave or a human's approval of *that* demand. Nothing that left
  the process is sent twice. A normal closure is proved by measurements taken
  after the latest repair; any other one is signed. Nothing is left open behind
  a closure. An escalated run stops. Every run leaves the graph.
* **API.** However requests interleave, an answer reaches the question its role
  was checked against unless another request moved the thread; while invocations
  do not overlap, a question is answered once, and leaves the thread only by
  that; a process accepts a delivery once.
* **Policy engine.** The floors written in code hold under every pack that
  loads. Whatever is demanded can be granted by somebody, at a gate that is
  still ahead. Worse facts never make a decision freer.
* **Dispatch.** The day that is planned can be worked: travel, shifts, windows,
  predecessors. What is left to a dispatcher could not have been scheduled.
* **Assessment.** A fault domain rests on readings on record; nothing acts on
  fewer readings than the pack asks for; asking again is not a second opinion; every conclusion
  leaves a trace of its own.

## 2. What is hard about it

The full list, with lines, is in `PROJECT.json` under `hazards`. In groups:

* *History read as the present.* Policy decisions and approvals are append-only
  lists. The routers compare times and kinds to find "the latest demand and its
  answer". A demand that is raised again, an answer given to another gate, or a
  plan that was replaced can all be misread. These need several laps of the
  graph to show.
* *A graph inside a graph.* A subgraph makes many lifecycle hops; the parent
  sees one, from its own last status to the subgraph's last. A hop that is legal
  inside can be illegal outside, and then the run raises after the work is done.
* *Loops.* Nearly every stage can send the case back. Termination rests only on
  four counters, each kept by a different rule.
* *Crashes between memory and disk.* Intents are staged in memory while nodes
  are checkpointed by the framework, and `flush` swaps the list out before any
  row exists; rows are claimed, called and marked in three transactions.
* *Two relays.* A claim skips the rows another open claim has locked and takes
  newer ones; and it gives its locks back before the calls are made, so another
  relay can claim the same rows again.
* *Two requests.* The API checks that a thread is paused, checks a role, and
  resumes, in three awaits; any of them may be overtaken.
* *Many rules, one decision.* Eleven policy checks, each with early returns and
  unknown inputs, are folded into one outcome by the size of an approver set.
* *A greedy search.* The optimiser tries few starts and stops early; a job it
  gives up is never tried again.
* *Evidence that repeats.* Readings, tests and findings are append-only over
  several cycles and three loops, and the classifier writes into the list it
  reads.

## 3. The modules and how they correspond to the code

Six specifications, each with its own state.

### The outbox

`OutboxContract` is the abstract promise: per key, a phase (absent, open, sent,
dead) and a number of recorded attempts. `Outbox` is the detail: the workflow
process (`running`, `decided`, `staged`, `flushing`), the table (`row`, `wait`),
and any number of relay processes (`pc`, `found`, `batch`, `current`, `copy`,
`elapsed`, `tally`). `ImplementsContract` is the refinement: `pending` and `failed` rows
are "open".

| Code | Action |
|---|---|
| `WriteGate.authorize`, `StagedWrites.stage` | `Authorize(k)`: a node in flight stages, perhaps again |
| LangGraph's checkpoint (external) | `Checkpoint` |
| `flush`: the swap, then each `enqueue` | `BeginFlush`, `EnqueueNext`, `EnqueueRaises` |
| `claim_due`: the `SELECT ... FOR UPDATE SKIP LOCKED`, row by row, and its commit | `BeginClaim(r)`, `LockRow(r, k)`, `PassOver(r, k)`, `EndClaim(r)` |
| one round of `drain_once` | `DispatchReturns` or `DispatchRaises`, then `MarkSent` or `MarkFailed` |
| end of the pass; a process dying | `EndPass`, `CrashRelay`, `CrashWorkflow` |
| the database server ends a dead relay's session (external) | `DropSessions` |

Time is relative: `wait` is what is left until `next_attempt_at`, `elapsed` the
age of the clock reading of a pass, `Tick` moves both. A row's `created_at` only
orders rows. `flush` and `drain_once` have no caller under `src/src` (only tests
call them), so *when* they run is left to the model's choice. A handler may act
and still raise; it may also raise without acting.

The claim is the SQL's. The query sees the rows that are due when it starts
(`found`) and visits them in the order of the `ORDER BY`, until it has `Limit` of
them (`batch`). It locks a row that is still due, skips one that another
session has locked (`LockedFor`: by an open claim, or `orphans` of a dead relay
whose session the server has not ended yet), and leaves out one that has changed
so that it is no longer due. A relay's `UPDATE` holds its row's lock for a
moment, in which a claim may skip that row as well (`MarkedFor`), and waits in
turn for the lock of a claim. `EndClaim` gives the locks back; the relay then
works on its copies. The re-check of a row reads the model's clock, where the
SQL has the claim's `now`: a row that became due since is seen by the next claim
in the code and may be taken by this one here. The in-memory store is the case of
claims that do not overlap: its `claim_due` has no await.

### The case graph

`Lifecycle` is the transition table and the check. `CaseState` is the shared
state and the `@node` wrapper. `Routing` is the routers D05-D22 as operators on
the case. Seven modules hold the nodes, one action each: `Diagnosis`,
`RemoteRepair`, `SelfHelp`, `FieldWork`, `PlantWork`, `Restoration`,
`Preventive`. `CaseGraph` composes them, adds the returns of the subgraphs and
the guard, and states the properties.

`IncidentContract` is the abstract promise, to those outside the graph: how the
run stands (`course`), the options that have left the process (`sent`), the work
order (`crew`), the latest plant request (`plant`) and the closure (`record`).
It knows no nodes, statuses, budgets or approvals. `KeepsContract` is the
refinement: `course` is read off `pc` and `escalated`, the rest are fields of
`case`. What the contract says of a step is what the parties see: an attempt, a
crew sent or done, the plant asked or reporting, the closure, or the end of the
run (`HandOver` to a human, `Leave`, `Lose`).

* `pc` is the node to run next. A subgraph that has ended is at its own name:
  the parent is about to merge its writes. `END` and the two crashes are stops.
* `status` is what the running (sub)graph has; `outer` what the parent last
  accepted. `Return` is the parent's merge and its guarded edge.
* `Write(n, s, esc, d, next)` is one node: the budgets allow it, its update is
  merged if the lifecycle accepts the status, its counters are tallied, and the
  edge is followed. `Quiet` is a node that writes no status; `Needs` one that
  raises unless what it reads is there; `GuardTrips` is a spent budget.
* Routers run on the *updated* case, in the step of the node before them, as
  LangGraph evaluates a conditional edge.
* `case` holds what the routers tell apart, and no more:

| Field | Stands for |
|---|---|
| `data`, `test`, `dom` | data-quality flags, latest conclusive test, fault domain of the latest diagnosis |
| `plan`, `chosen`, `tried` | the current plan's options that are not yet attempted, the selected action, what has ever left the process |
| `verdict`, `due`, `answer` | latest policy decision per action; kinds of approval demanded since their last answer; latest answer per kind |
| `asked` | actions whose present approval id already carries an answer |
| `ran`, `fixed`, `fix`, `looks` | last execution succeeded; some remote action ever fixed it; a repair is on record; reads of the service since the latest |
| `session`, `order`, `finding`, `contract` | self-help session, work order, latest crew finding, handover contract |
| `mr`, `mrs` | latest plant request, and how many left the process |
| `validation`, `confirmed`, `recon`, `retries`, `closure` | restoration result, customer's word, reconciliation, its tries, the closure record |

Time stamps are gone: "later than" between a demand and its answer is
membership in `due`, "since the latest repair" is the reset of `looks`.
What a detector, a policy check, a source, a crew or a customer says is a choice
from the set the code can produce. A human who is asked answers; *when* is not
modelled, since the run does nothing meanwhile. The policy is asked about a note
to the plant crew, too (`Verdicts[UpdateMR]`): no router reads that judgement, but
one that is not "allowed" is a demand of its kind (`Chased`), and can open a
low-confidence review again.

The budgets are modelled twice over by one constant. With `Metered = TRUE` the
four counters count, and `check_budgets` compares. With `Metered = FALSE` they
are not kept and any node may find one spent: more behaviours, fewer states,
so the other properties do not depend on the values of the limits.

### The HTTP boundary

`Gates` is one incident's thread and the requests that reach it, await by await.
`handler[r]` is a coroutine: where it is (`pc`), the question its role was
checked against (`checked`), the checkpoint its invocation works on (`mine`).

| Code | Action |
|---|---|
| `post_approval` up to `_resume` | `Authorise`, within `Arrive(r)` |
| `_resume`: the paused check, then `ainvoke` | `CheckPaused(r)`, `Load(r)` |
| `request_approval` resumed, `_decision_from_answer` | `Settle(r)` |
| the graph to its next pause or end (external) | `RunOn(r)` |
| `_start` (events, incidents) | `Start`, within `Arrive(r)` |
| `_Deliveries.first_time`, then the rest of `post_webhook` | `FirstTime`, `Deliver(r)` |
| the process dies and comes back | `Restart` |

The checkpointer is LangGraph's: an invocation loads the latest checkpoint and
writes a new one per step, and the latest writer wins. Nothing compares
versions. `forked` records that two invocations overlapped. What an invocation
wrote is taken to be saved before the process can die: by default the library
saves a checkpoint while the next node runs, and what a crash in that moment
loses is the checkpointer's part.

### The policy engine

`Rbac` is the role tables. `PolicyPack` is what a pack file holds, `Loads` with
one conjunct per validator, and the lookups. `PolicyEngine` is `evaluate` with
one operator per check, and a little state machine around it: a step reloads
the pack (`Reload`) or makes one fact of the request worse (`Worsen`). The
steps are there so that an action property can compare two decisions.

### The dispatch optimiser

`Dispatch` is `GreedyDispatchOptimizer.solve`: `Assign` or `Refuse` handles the
job whose turn it is (`Turn`: of the jobs `waiting`, the one that `Precedes` the
others); `routes` is each crew's day. The constraints, the travel
models, the starts that are tried and the score are operators. Times count
half hours of UTC.

### The assessment

`Assessment` is P07 to P11 with what they read, detect, plan, test and
conclude: the source table, each detector's possible verdicts, `live_findings`,
the classifier, posteriors and `RCAResult.derive`, all as integers (hundredths
and ten-thousandths). A reading's content is what its detector makes of it.

## 4. The runs

| Run | Distinct states | Question |
|---|---|---|
| `outbox_one_relay` | 278,000 | With one relay, crashes of either process and a failing enqueue: is what a row says true, is the report of a pass right, is the contract implemented, liveness included, and what becomes of a decision? |
| `outbox_two_relays` | 3,044,000 | What is left of that when the claims of two relays overlap and they hold the same row: the budget of calls, the order of first calls, rows that only advance |
| `outbox_dead_letter` | violation | Does a dead letter stay dead with two relays? |
| `case_desk` | 719,000 | The half worked from the desk, with the budgets counted: consent, repetition, closure; do the four budgets hold, and does every run leave the graph? |
| `case_field` | 3,239,000 | The half that needs crews, with two plant requests and held-back writes: is the contract of an incident implemented, is every act consented, and what can mislead a node? |
| `case_stale_handover` | violation | Does a node ever lack what it reads? |
| `case_pending` | violation | Is a validation that only waits asked again? |
| `gates_race` | 4,089,000 | Three requests on one thread, with a restart: which question does an answer reach, how often is one answered, what takes one away? |
| `policy_decisions` | 172,000 | The shipped pack and its edits, and every sequence of up to three worse facts from the best case of each action |
| `dispatch_day` | 352,000 | Three jobs and two crews from catalogues of ten and five |
| `dispatch_island` | violation | Is an island job taken when it could start by the local cutoff? |
| `assessment_two_passes` | 175,000 | Two cycles and a lap over a line and a tap that contradict each other |

**Why the bounds are enough.**

* *Outbox.* Two keys give an order, a row that backs off while the other is due,
  and a claim that overtakes another. Three attempts give a first call, a retry
  and the one that exhausts (two relays: two attempts, and one target that has
  no handler). Base 2 and cap 3 give an uncapped and a capped delay; elapsed time
  reaches the cap, so a pass outlasts the delay it schedules. Two stagings are
  two decisions, or one that is replayed before or after its row is settled.
  `MaxStagings`, `MaxWorkflowCrashes`, `MaxRelayCrashes`, `MaxEnqueueErrors`
  bound the environment: one crash of each process and one failing enqueue with
  one relay, one crash of a relay with two. The claim's limit is the number of
  keys (`outbox_one_relay` was also checked with a limit of 1, which cuts every
  pass short); the theorems of section 6 hold for every limit, and drop the other
  bounds too.
* *Case graph.* Nothing in it is unbounded when `Metered = FALSE`: the lists
  are reduced to their latest entries. One remote action, self-help and a visit
  are one option of each route; a second remote action adds another lap of the
  same. `MinSamples = 2` tells one good read from enough. `MaxReconciles = 2`
  gives a retry and its end. The pack's values are larger, and the same
  comparisons are made against them. `MaxMRs = 2` is the pack's. Poor data
  (`Flaws`) only sends a case round the evidence loop again, before either half;
  it is tried in `case_desk`, where such laps are counted.
* `Verdicts` names what the policy may answer for each action, and every answer
  is tried at every decision. The desk's verdicts include every kind of approval
  a repair can demand, the kinds with a gate of their own among them.
* `case_desk`: 50 steps and 3 for each of the other budgets, which is enough for
  two diagnoses with a repair each and a closure after. Each bound is reached
  (the run was checked with each one's negation), and each can be the one that
  stops the run. `case_field` keeps no counts, so its laps are unlimited.
* *Gates.* Two requests race; the third is the one that moves the thread
  between the check and the answer of the first. `MaxPauses = 2` gives a next
  question to answer by mistake, of another kind and with other approvers.
  Symmetry is over the requests, which differ in nothing; the run checks no
  liveness. The theorems drop the bounds.
* *Policy.* `Edits` holds one file per validator that refuses it and one per
  setting the checks read. Worse values stand on both sides of every threshold
  of the shipped pack. An edited pack is tried with one worse fact, the shipped
  one with three.
* *Dispatch.* Three jobs give a queue in which one waits for another behind a
  third; two crews give a choice, and a crew that fills up. The catalogue has a
  job for each constraint, with windows the whole visit does and does not fit,
  and one of the crews has the shipped evening shift, which passes midnight UTC.
  24 steps cover a shift. The queue's dependencies are one level deep
  (`SingleLevel`): deeper ones the code itself says it does not resolve.
* *Assessment.* A line detector with a claim of 40, and two others with 70 and 50
  on the tap the line detector may lead to, so that a vote counted twice changes
  the winner, and two detectors can outweigh a third; power, which ends the
  contest outright, is among what the line can say. Two cycles, so that a
  test is repeated and a reference learnt in the first is read in the second;
  one lap, so that P10 runs again on the evidence it had. The values of the pack
  are the shipped ones.

**What the main properties say.**

* `ActsWithConsent`: when a node is about to act, the latest verdict for its
  action is "allowed", or it demands an approval and the latest demand of that
  kind has been approved.
* `NeverRepeated`: what has left the process is never executed again, in this
  plan or a later one; what was held back may be.
* `ClosedIsProven`: a normal closure has a repair, enough reads *since the
  latest one*, a passed validation, no denial from the customer and linked
  systems that agree.
* `ExceptionalIsSigned`: any other closure has the supervisor's approval of
  this demand.
* `KeepsContract`: the graph implements `IncidentContract`. One party at a time
  is at work; no option leaves the process twice; the record is closed once, with
  no work order open and nothing with the plant, and nothing is done after it; a
  run that touched anything ends closed, with a human, or in the one way
  `OnlyAnEarlierRequestMisleads` names. `case_field` checks it where crews and
  plant requests are; each action of the contract is needed there.
* `OneVisitAtATime`: no visit is planned while a work order is open, and no
  request is made of the plant while it holds one.
* `OnlyAnEarlierRequestMisleads`: a run raises for want of an input, or for a
  status the lifecycle refuses, only after an earlier plant request of the same
  incident. It delimits the defect of `case_stale_handover`.
* `EscalationStops`: after an escalation no node runs, in the subgraph, at its
  end or in the parent. `Termination`: every run leaves the graph.
* `CallBudget`: one intent is called at most `MaxAttempts` times, plus one for
  each further relay and each relay crash.
* `TallyMatchesTable`: with one relay, the report of a pass agrees with the
  table. `FirstCallsInOrder`: an intent is called while an older one on record
  never has been only if another relay has the older one in its batch, or a relay
  that had it died. With one relay that stays alive this is the order in which
  things were decided; with two, a claim that skips a locked row may overtake it
  (section 7).
* `DecidedIsRecorded`: a checkpointed decision becomes a row or is lost, and it
  is lost only in a step in which the process dies before its flush or an
  `enqueue` fails in it. The run has both faults. Not a replay, a duplicate in
  the list, or what is staged while a flush is under way loses one.
* `AuthorisedIsAnswered`, `QuestionStands`, `AnsweredOnce`: section 1. The first
  has its exception in the statement: when another request wrote the thread in
  between, an approval can land on a question it was not checked against. The
  last two are false once two invocations overlap, which nothing in the API
  prevents; without an overlap neither a restart nor a second request whose check
  found the same pause answers a question again.
* `WorseIsNeverFreer`: decisions are ordered allowed, by approver set, blocked;
  no single fact that weakens the ground for an action moves one down.
* `ClosureHasItsGate`: a closure that needs a signature needs the closing gate's
  own kind, unless the pack says otherwise of closures.
* `RefusalIsGenuine`: a job is refused only if no crew could have taken it at
  *any* start of its shift, though the search tries few of them. Jobs whose
  windows bind nobody are left out: there the search is narrower than the
  constraints (section 7).
* `EnoughReadingsBeforeActing`: a confidence at which the pack lets anything act
  stands on at least `MinSources` readings. Readings, not sources: two reads of
  one source are enough for it, as they are for the code (section 7). It holds
  for the shipped value 2. It is false for 3: two of three readings already give
  two thirds.
* `RetestingIsNoNewVote`: each detector counted once, at its strongest, no other
  domain has a stronger claim than the one concluded.

## 5. Fairness and deadlock

* *Case graph.* `FairSpec` assumes only that a run that may step does. LangGraph
  drives a run to its next pause without being asked; for a parked run it means
  that the human, the crew, the customer or the window's wake-up comes in the
  end. Nothing is assumed about *what* they answer, so `Termination` is not
  helped by a kind environment: a customer may deny, a reviewer refuse and a
  source stay poor for ever. Safety runs use `Spec`, without fairness. A stop
  stutters (`Stopped`), so deadlock is checked: no node leaves the run stuck.
* *Outbox.* `Fairness`: an invoke that began is checkpointed, a flush or a pass
  that began runs on, the clock moves, and the database server ends the sessions
  of dead relays (`DropSessions`). That somebody keeps calling `flush` and
  `drain_once` is asked of the deployment: nothing under `src/src` does, and the
  module's documentation leaves both to whoever runs it. A handler may refuse for
  ever, and each process may die, within the bounds. With `MaxEnqueueErrors`
  spent, an `enqueue` succeeds.
* *Gates, Policy, Dispatch, Assessment* check safety and need no fairness.
* `CHECK_DEADLOCK FALSE` is set where the system may stop: in the outbox runs,
  when every intent is settled and the bounds are used up; in `policy_decisions`,
  when the bound on worse facts is reached; in `assessment_two_passes`, at the
  end of the run and at the bound on cycles and laps.

## 6. The proofs

`tlapm` checks every obligation of `OutboxProofs`, `CaseGraphProofs`,
`CaseDataProofs`, `CaseStatusProofs`, `GatesProofs`, `PolicyProofs`,
`DispatchProofs` and `AssessmentProofs`.

**Outbox**, for all keys, relays, attempts, delays and bounds satisfying
`OutboxConstants`:

* `TypeCorrect`. The strengthening `TypeInv` adds where the loop variable may
  stand: a relay that has called holds the row it called for.
* `SentAcknowledged`, by `AckInv`: a relay whose call returned holds an
  acknowledged key. Any number of relays and crashes.
* `CallsWithinBudget`, by `BudgetInv`. It is not inductive as it stands: with
  several relays the attempts of a row can pass `MaxAttempts`. The invariant
  says that an open row has attempts left, so nobody claims a row that has
  none, and that from then on each further attempt was made by a relay that
  already held the row: the attempts on record and the relays still holding it
  stay below `MaxAttempts` plus the number of relays.
* `SingleRelayAttempts`, `SingleRelayFinal`, `SingleRelayImplementsContract`,
  by `SingleInv`: with at most one relay, every row still in a pass's batch is
  open. The last one is the refinement of the contract's safety part: each
  step maps to a step or a stutter.
* `SingleRelayReport`, by `ReportInv`: what is left of a batch is as it was
  claimed and has not been counted yet, so the count of a pass and the table
  move together.
* `FirstCallsOrdered`, for any number of relays, by `OrderInv`. The lists in
  memory are in the order of decision and behind what is already a row. A row that
  was never called is due at once, so a claim sees it; what the claim has locked
  comes with every older row that was never called, unless that one is in
  another relay's batch or was dropped by one that died (`Elsewhere`).
  `EldersAreTaken`: the claim visits its rows in order, so whatever is older is
  behind it. `SkippedIsElsewhere`: a row that is passed over though it was never
  called is locked by another relay's claim.
* `DecisionsLostOnlyByFaults`, the safety half of `DecidedIsRecorded`, by
  `InFlightIsStaged`: what a node in flight staged is on the list in memory when
  the checkpoint is taken, because no flush begins before the node has returned;
  from there it goes to the flush's list, and from that list only by an
  `enqueue`, which leaves it on record.

**Case graph**, for all catalogues, policies, domains and budgets:

* `EscalationIsFinal` and `BudgetsAreKept`, by `ControlInv`. The argument is in
  two halves. Every node's action, in all seven modules, is shown to be a step of *one*
  node in one of three shapes: it runs (`Runs`), hands the case to a human and
  leaves (`Leaves`), or raises (`Fails`). Then the three shapes, the guard and
  the returns keep the invariant. A new node needs one lemma step, not a new
  proof.
* `RunsAreFinite`, the half of `Termination` that is safety. `MovesLeft` counts
  three moves for each step the budget has left, and those of the place the run
  is at: one for a node, two for a subgraph that has ended, none where it stops.
  A node is paid for with a step even when the guard replaces it; a subgraph's
  end costs nothing, but the routers lead from it to a node or out of the graph
  (`EndsLeadOn`), never to another end. So every move leaves fewer moves, and a
  run makes at most `3 * MaxSteps + 4`. It holds of every route through the
  graph, of watched nodes or none: `step_budget` alone is enough, the other
  three budgets only end a loop sooner.
* `ClosedProven`, `ExceptionalSigned`, `NothingOpen`, `NeverTwice`, `Consent`
  and `OneVisit`, by `CaseInv` (`CaseDataProofs`). Each property is about one
  place of the graph, and none is inductive: what makes it true was decided some
  nodes before. `CaseInv` therefore says, for every place, what has been decided
  on the way there (`Decided`, in three parts: an attempt, a visit or a request,
  the end of the case) and what may be under way only in its own stage
  (`Clear`: an open work order, a request with the plant crew, an answered
  closure, the tries of reconciliation). `Sound` holds everywhere: a plan never
  holds what was tried, and a closure on record is proved or signed.
  `Differs` says which fields a helper may change, so a step is a change of a few
  fields and a move to a place; most places are plain and ask for nothing. There
  is one lemma per stage (`DiagnosisKeeps` to `PreventiveKeeps`, and
  `ReturnsKeep`) with one step per node. TLC checked `CaseInv` on the instances
  of `case_desk` and `case_field` before it was proved. The argument needs that
  each decision gives one of the outcomes in `Verdicts`, that the count of
  requests never passes `MaxMRs`, and for `Consent` the exception that
  `OnlyAnEarlierRequestMisleads` names.
* `RaisesOnlyForALaterRequest`, `NoneLostBeforeARequest` and `TypesHold`, by
  `StatusInv` (`CaseStatusProofs`). A node raises when an input is missing or
  when the lifecycle refuses the status it writes; a subgraph's last status is
  written once more at the parent, from the status the parent still has. The
  invariant therefore gives every place the statuses a run may have there
  (`Stage`), every subgraph the parent's statuses while it runs (`Entered`), the
  inputs a place finds (`Inputs`), and what a status says of an order or a
  request under way (`Tied`). There are two lemmas per stage: its nodes keep the
  invariant, and they raise only where `AfterEarlierRequest` says. `CaseInv` of the
  next state tells what is under way at the destination, so the two invariants are
  proved together. The exception is the second plant request of one incident,
  made by a later visit, the one `case_stale_handover` shows: it is where
  the inputs of `file_plant_mr` are not guaranteed. TLC checked `StatusInv` on
  the instances of `case_desk` and `case_field` before it was proved.
* `CaseKeepsContract`: the refinement of `IncidentContract`, from all three
  invariants and `Kept`, which ties what the parent and the status say to what
  was done: a run still being taken in has touched nothing, and one that is
  resolved has its record closed. Most steps show nothing outside (`Passes`), hand
  over (`HandsOver`) or raise (`Fails`); there is one lemma per stage that says
  so of its nodes (`DiagnosisUnseen` to `PreventiveUnseen`) and names the
  exceptions, and one lemma for each exception (`AttemptHonest` to
  `ClosedHonest`). The guards of the contract come from `Clear` (nobody is at
  work where an attempt, a crew or a closure leaves) and `Inputs` (a visit has
  its order); that a run leaves only closed or untouched from `Stage` and
  `Entered`. It needed one thing more of `CaseInv`: an attempt is of an option
  that is in the plan and is not the dispatch.
* `NothingOpen` states of closures alone what the contract says of them, and is
  proved by itself; no run checks `NothingLeftOpen` any more, because
  `KeepsContract` implies it.

**Gates**, for all requests, questions, roles, approval matrices, deliveries and
bounds satisfying `GatesAssumption`:

* `TypeCorrect`. `TypeInv` adds that a handler on its way to an answer carries
  one, and works on a checkpoint of the right kind.
* `AuthorisedAnswered`, by `CourseInv`: until somebody writes the thread, a
  handler's `checked` is the thread's question, and then its checkpoint's. It
  needs that a recorded question is always the one the thread is paused at,
  which is why the gate must clear it.
* `AcceptedOnce`, by `DeliveryInv`: at most one handler per delivery is between
  the mark and the acceptance, and while one is, this life of the process has
  accepted none.
* `QuestionsStand`, by `AloneInv`: without an overlap at most one invocation is
  under way, and while it runs the thread is not paused.
* `AnswersOnce`, by `AskedInv` on top of that: whatever is on record as answered
  is behind the thread (`Behind`: an earlier pause, or this one after the gate
  cleared it), and behind the checkpoint of the invocation under way.

**Policy**, for all files and principals:

* `FloorKept`, `ClosureGated`, `DemandsRoutable`, `ReadsOpen`, from the
  invariant that the pack in use passed `Loads`. `FloorKept` needs the validator
  `FlagsKeepTheFloor` and that the blocking check is never skipped for a write;
  `DemandsRoutable` needs that the narrowness of two kinds never ties.
* `WeakerGroundIsNeverFreer`, of every pack that loads and of two requests of
  which one has no better evidence, diagnosis, contact or proof than the other:
  `NoBetterGround` says what no better means, fact by fact. Each check of the
  engine finds at least what it found before, and `_most_restrictive` of more
  demands is no wider. The last needs that the kind with the fewest approvers
  exists and that the bars of the pack are numbers (`FieldsAreTyped`).
* `WorseNeverFreer` carries that to the runs of the service. Its hypothesis is
  `NightFalls`, of every file that loads: quiet hours that hold at noon hold at
  22:00, and those hold at 02:00. A pack may say otherwise (quiet from 11:00 to
  14:00, say); then a later hour is a better one, and the decision is freer for a
  good reason. The proof found the model wrong once: `WorseContact` could move
  the time from 02:00 back to 22:00, which no step of worsening should.
* Facts of the lookups under every pack that loads: `VulnerableNeverSlower`,
  `RetriesAreDelayed`, `QuietHoursGoRoundTheClock`, `HealthierIsNoWorseBand`.

**Dispatch**, for all catalogues of jobs and crews, packs, and tables of
distances and travel times satisfying `DispatchAssumption` and
`TravelAssumption`:

* `TypeCorrect`, `DayWorkable`, `Appointments` and `Predecessors`, by
  `PlanInvariant`. A route grows at its end only, so what is needed of it is that
  a crew is free where and when its last visit ended (`EndOfRoute`); whatever
  start the search settles on has passed every constraint (`AllAgreed`); a job is
  in one place, waiting, refused or on one route (`OnePlace`); and what had its
  turn waits for nobody still to come (`Ordered`). The last needs that `Precedes`
  is total and that, with one level of dependencies, a predecessor's turn is
  never after its job's.
* `RefusalsAreGenuine`: where `Startable` has a start that no constraint refuses,
  the search has one too. Of the starts a crew could make there is an earliest
  in the same window (`LeastInstant`); the search tries it, because it is the
  crew's earliest or the opening of that window; and `EarlierIsNoWorse` says that
  it passes what the later one passes. There is no hypothesis on the crews. The
  cutoff of the islands reads the time of day, which starts again at midnight, so
  for a job it binds an earlier start can be past the cutoff and a later one, on
  the next day of UTC, not: `RefusalIsGenuine` compares such a job only with
  starts on the day of the crew's earliest (`OnTheSameDay`). For all others, and
  for crews whose shift passes midnight UTC, as that of `CREW-CLEAN-SJ-02` does,
  it compares with every start.

**Assessment**, for all technologies, detectors, strengths, thresholds and
bounds:

* `TypeCorrect`; `Evidenced`, by `Grounded`: every telemetry finding cites
  readings on record, and citations only ever grow with the record.
* `AuditedOnce`: the pair of counters that names an event moves on each of the
  three loops before P10 is reached again.
* `SameAnswer`, by `Standing`: between two diagnoses of one cycle nothing but
  the classifier has spoken, and `live_findings` drops what it said.
* `RetestingAddsNothing`, by `Standing` and `Measured`. A finding of weight *w*
  is *w* votes, so a sum of weights is the number of elements of a set, and
  what is to be shown of sums is shown by functions between sets. Folding keeps
  one finding for each detector and domain (`LiveIsFolded`), so the votes of the
  folded findings and the claims ever made correspond one to one
  (`WeightIsClaim`). No two domains rank alike, so the domain the classifier
  chooses exists (`SomeDomainLeads`) and has the most votes.
* `EnoughReadings`. A confidence is no more than the leader's posterior
  (`NoMoreThanLeader`), and a posterior on a reading too few no more than
  `OneTooFew`, the rounded share *(n - 1)/n* of the *n* readings asked for
  (`PosteriorIsItsShare`); rounding keeps the order of two fractions
  (`RoundedKeepsOrder`). The hypothesis is `ActingNeedsMore`: `OneTooFew` is below
  what any action asks for. The shipped pack asks for two readings and 0.65, and
  one of two leaves 0.5. It is the numbers that do it: no validator of the pack
  ties `min_sources_for_diagnosis` to the bars, and a pack that asks for three with
  the same bars would let a diagnosis on two readings act. The theorem speaks of
  readings, as the code does, and not of independent sources (section 7).

Only model-checked:

* liveness (`Termination`, the contract's liveness, that a decision which is not
  lost becomes a row in `DecidedIsRecorded`), which depends on ENABLED. Of
  `Termination` this leaves one thing: that a run which has not stopped can move,
  which the absence of deadlocks shows on the instances;
* of the case graph, `LifecycleHolds` and `InputsArePresent` after a plant
  request: `case_desk` has them without a condition because its policy blocks
  such requests, which other policies do not;
* in general, what `NightFalls` and `ActingNeedsMore` exclude: the properties are
  false there, for the reasons given above.

Induction over data is out of the prover's reach: the induction theorems of the
library take an operator. Three of these proofs use what can be had instead:
that a set of numbers has a least element (`WFMin`), and that two sets related
by a bijection have as many elements.

## 7. Disagreements between the code and what it says of itself

Shown by a run (details and quotations under `findings`):

1. `outbox_dead_letter`: the claim releases its locks before the calls, so two
   relays hold one row, and the later mark revives a dead letter.
2. `case_stale_handover`: two gates ask for a handover and the reader keys on
   the kind, so an approval given at the desk files a later request from the
   site, with no contract, and the node raises.
3. `case_pending`: D21 sends whatever has not passed when the window is over to
   diagnosis, a validation that awaits samples or the customer's word too. The
   first look after a repair therefore goes round again, and a domain in which
   the customer must confirm never passes: the confirmation is asked for after a
   pass. The other runs leave `ConfirmDomains` empty.
4. `dispatch_island`: the island cutoff is local in the pack and compared with
   the UTC time of day; half the local morning is refused.

Met while modelling, without a run of their own.

Outbox and case graph:

* An intent staged by a node that is checkpointed but not flushed is lost in a
  crash. `persistence/outbox.py` names the gap OUTBOX-1, and says that the node
  stages the intent again; a completed node does not run again. `flush` swaps
  the list out before it enqueues, so an `enqueue` that raises loses the rest of
  the list the same way. `DecidedIsRecorded` names both faults.
* `claim_due` says that a backlog drains in the order the incidents decided
  things, and that "an outbox that reordered a reboot before the approval that
  authorised it would be a different kind of bug" (`persistence/outbox.py:244-247`);
  the Postgres store says that `SKIP LOCKED` makes two relays safe to run at once
  (`:293-297`). With two relays the one follows from the other no more: a claim
  made while another is open skips the older rows that one has locked, takes newer
  ones, and may call them first. `FirstCallsInOrder` excepts exactly this; without
  the exception TLC finds it violated in `outbox_two_relays`.
* The defect of `case_stale_handover` has a second form. With a first request
  held back and a dispatch held back, the stale approval reaches
  `file_plant_mr` with a contract left from before, and the node writes
  `mr_raised` straight from `field_in_progress`, which the lifecycle refuses.
* A repair deferred to another gate is abandoned again after that gate approved
  it: the new plan's decision is a new demand. An action refused and proposed
  again is asked about under the same approval id, and the second answer is
  dropped. Both loops end with a budget (`Termination`).
* A plant request is recorded as submitted even when the adapter held the write
  back; the case waits for a crew that was never told.
* D20 asks about the service after the plant repair and reads the latest
  conclusive test. No test is made between the two, so the test that helped to
  find the plant fault can order a second visit after its repair.
* A refused low-confidence review decides every later pass of D06, so the case
  gathers evidence until a budget ends it. `Termination` covers the end.

Policy:

* `rbac.py` says of low-confidence reviews that a technician "is included"; the
  set has none. Its comment that a requester may not approve has no counterpart:
  `can_approve` takes no requester.
* `_most_restrictive` says the other demands are "satisfied incidentally by the
  same signature". Two kinds with approver sets of the same size
  (`clean_to_dirty_handover`, `low_confidence_rca`) are told apart by name, and
  neither signature is good for the other.
* The graph never passes `competing_confidence`, so the ambiguity rule never
  fires; `in_maintenance_window` is never true, and what `_shared.py` calls "held
  for approval" the engine blocks. An unknown age or radius passes.

API:

* A 403 of `/approvals` says that the gate stays paused; overtaken, the answer of
  another request may have moved it. A duplicate webhook is told that it was
  "already processed", also when the first copy was refused or lost.
* A process that dies between a taken answer and the next pause leaves a thread
  that no route can continue.

Dispatch:

* `_attempts` says later starts score no better; with windows given and access
  not required they may. Windows that bind nobody still narrow the starts tried,
  so such a job can be refused although a crew was free.
* The ceiling on visits per shift ignores jobs the crew already had. A visit
  with no coordinates leaves the crew at its depot for the next leg. The graph
  passes one requirement at a time, and no dependencies.

Assessment:

* `recent_changes` is listed as a source and has no call in the table of reads,
  so the detector of recent changes never runs. `NO_FAULT_FOUND` can be
  classified and never concluded. Nothing sets `rejected`, so a passed test
  refutes nothing.
* `policies/pack.yaml:46-48` asks for independent adapter reads: "a single source
  that agrees with itself is not corroboration". What is counted is references of
  readings, and `graph/nodes/evidence.py:955-958` says that a re-read gives a new
  one: two cycles over one source, or a P07 read and its P09 re-read, are enough
  for the posterior. `EnoughReadingsBeforeActing` therefore speaks of readings;
  with sources in their place it is false. A lone source reaches a
  posterior of one half, which is above `review_below` and so "confident".
* The laps from D12, D19, D21 and D22 re-enter P10 with no new evidence, and
  `SameEvidenceSameAnswer` says what comes of that.

## 8. What is not modelled

* The content of contracts, notices, KPI records and audit events (but for the
  ids of the diagnosis events): no router reads it. Freshness arithmetic is a
  choice of flag.
* `CircuitBreaker` and `with_retry`: nothing under `src/src` constructs the one
  or calls the other, so no execution of this program reaches their state.
* The decision services other than root cause and restoration, the two risk
  scorers, and the thresholds by which detectors score telemetry. The case graph
  leaves their outcomes open.
* The texts by which the optimiser explains a refusal (`_why_not`), and the
  policy engine's explanations and metrics.
* The API's read-only routes, request validation and headers.
* LangGraph itself: one node at a time, the edge evaluated on the merged
  update, a completed node not re-run, an invocation on the latest checkpoint.
  Time travel and parallel branches are not used by this graph.
* A crash of the process in the middle of a node of the case graph. The
  checkpoint restores the case as it was before the node; its effect outside is
  the outbox's business and is modelled there (`Authorize` again, or
  `CrashWorkflow`). What it does to a waiting request is `Restart` in `Gates`.
* Simulators, narratives, redaction, reports, settings, the set-up of the
  checkpointer and the migrations.

## 9. Plan

Done: the outbox (contract, detail, refinement, proofs); the whole case graph,
with its control, its data, what raises and its contract proved; the HTTP
boundary, the policy engine, the assessment and the dispatch optimiser, with
theorems.

1. **`Judgements` from the engine**: that the verdicts the case graph tries
   contain what `Evaluate` answers for the requests its nodes make.
2. **The remaining decision services** (delimiter, blast radius, SLA) as
   operators against reference definitions.
