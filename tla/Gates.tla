------------------------------- MODULE Gates -------------------------------
(***************************************************************************)
(* The HTTP boundary of one incident: concurrent requests that start its   *)
(* thread, answer the question it is paused at, or deliver a webhook       *)
(* (api/app.py over graph/inspect.py and graph/interrupts.py).             *)
(*                                                                         *)
(* A handler is a coroutine: between two of its awaits any other request   *)
(* may run.  The graph itself is external here.  An invocation works on    *)
(* the checkpoint it loaded (`mine`), writes one checkpoint when the       *)
(* paused node has taken the answer, and one when it pauses again or ends; *)
(* the thread is whatever was written last.                                *)
(***************************************************************************)
EXTENDS Naturals, FiniteSets

CONSTANTS
  Requests,    \* requests that arrive, each handled once
  Kinds,       \* approval kinds some gate of the run asks for
  Reports,     \* pauses that are no approval: a crew report, a customer's reply
  Roles,       \* roles the boundary knows
  Approvers,   \* security/rbac.py: who may decide a kind
  Deliveries,  \* webhook delivery ids
  MaxPauses,   \* bound: pauses of one run of the graph
  MaxRestarts  \* bound: restarts of the process

Pauses == Kinds \cup Reports

ASSUME GatesAssumption ==
  /\ Approvers \in [Kinds -> SUBSET Roles] /\ Kinds \cap Reports = {}
  /\ {"absent", "running", "over", "none"} \cap Pauses = {} /\ "none" \notin Roles
  /\ IsFiniteSet(Requests) /\ MaxPauses \in Nat \ {0} /\ MaxRestarts \in Nat

\* The bodies of the routes.  `yes` is the status `approved`; every other status, and every value a
\* gate's parser cannot read, is no consent.  /resume carries any value, so any role or none, and a
\* customer's reply is one with no role.
Bodies ==
  [route : {"approvals"}, role : Roles, yes : BOOLEAN]
    \cup [route : {"resume"}, role : Roles \cup {"none"}, yes : BOOLEAN]
    \cup [route : {"events"}] \cup [route : {"webhook"}, id : Deliveries]
NoBody == [route |-> "none"]

VARIABLES
  thread,      \* the latest checkpoint: which pause it is, and the question recorded for it
  handler,     \* each request's handler: its place, body, checks and checkpoint
  seen,        \* _Deliveries._seen
  \* history and bounds
  log,         \* the answers taken
  forked,      \* two invocations of the thread have overlapped
  accepted,    \* how often each delivery was accepted
  suppressed,  \* the deliveries some copy of which was called a duplicate
  restarts
hooks == <<seen, accepted, suppressed, restarts>>
vars == <<thread, handler, log, forked, hooks>>

Absent == [n |-> 0, at |-> "absent", pending |-> "none"]
Question(t) == [n |-> t.n, at |-> t.at]
Unasked == Question(Absent)

Threads   == [n : 0..MaxPauses, at : Pauses \cup {"absent", "running", "over"},
              pending : Kinds \cup {"none"}]
Questions == [n : 0..MaxPauses, at : Pauses \cup {"absent"}]
Replies   == {"200", "403", "404", "409", "500", "duplicate", "lost"}
Places    == {"idle", "resuming", "loading", "answering", "running", "delivering"} \cup Replies
Answers   == [of : Questions, route : {"approvals", "resume"}, role : Roles \cup {"none"},
              yes : BOOLEAN, checked : Questions, overtaken : BOOLEAN]

\* checked: the question `post_approval` authorised the role against.  mine: the checkpoint the
\* invocation works on.  holding: it has an answer no node has taken.  overtaken: the thread was
\* written by another request since the check.
Fresh(place, b) == [pc |-> place, body |-> b, checked |-> Unasked, mine |-> Absent,
                    holding |-> FALSE, overtaken |-> FALSE]
Replied(r)  == handler[r].pc \in Replies
Invoking(r) == handler[r].pc \in {"answering", "running"}

\* `prepare_approval` records the question before its gate pauses; a report is asked without one.
PauseNext(t, p) == [n |-> t.n + 1, at |-> p, pending |-> IF p \in Kinds THEN p ELSE t.pending]

\* The checkpointer outlives the process: a thread may already be paused.
Init ==
  /\ thread \in {Absent} \cup {PauseNext(Absent, p) : p \in Pauses}
  /\ handler = [r \in Requests |-> Fresh("idle", NoBody)]
  /\ seen = {} /\ log = {} /\ forked = FALSE
  /\ accepted = [d \in Deliveries |-> 0] /\ suppressed = {} /\ restarts = 0

Becomes(r, h) == handler' = [handler EXCEPT ![r] = h]
Reply(r, code) == Becomes(r, Fresh(code, NoBody))
Goes(r, place) == Becomes(r, [handler[r] EXCEPT !.pc = place])

\* The invocation of r writes a checkpoint and becomes h: whoever is between its check and its
\* answer has been overtaken.
Write(r, t, h) ==
  /\ thread' = t
  /\ handler' = [q \in Requests |->
       IF q = r THEN h
       ELSE [handler[q] EXCEPT !.overtaken = @ \/ handler[q].pc \in {"resuming", "loading", "answering"}]]
-----------------------------------------------------------------------------
(* POST /incidents/{id}/approvals *)

\* `pending_approval_for`: what the paused graph recorded, read through the subgraph boundary.
PendingApproval(t) == t.pending
CanApprove(role, kind) == kind \in Kinds /\ role \in Approvers[kind]

\* `post_approval` up to its call of `_resume`.  `_known` is read first, but a thread is never
\* removed, so the two reads may be one.
Authorise(r, b) ==
  LET kind == PendingApproval(thread)
  IN \/ thread.at = "absent" /\ Reply(r, "404")
     \/ thread.at # "absent" /\ kind = "none" /\ Reply(r, "409")
     \/ kind # "none" /\ ~CanApprove(b.role, kind) /\ Reply(r, "403")
     \/ /\ CanApprove(b.role, kind)
        /\ Becomes(r, [Fresh("resuming", b) EXCEPT !.checked = [n |-> thread.n, at |-> kind]])

-----------------------------------------------------------------------------
(* `_resume`, which /resume and /customer-response call at once *)

\* `is_awaiting_human`: an interrupt is outstanding.
IsAwaitingHuman(t) == t.at \in Pauses

CheckPaused(r) ==
  /\ handler[r].pc = "resuming"
  /\ \/ thread.at = "absent" /\ Reply(r, "404")
     \/ thread.at \in {"running", "over"} /\ Reply(r, "409")
     \/ IsAwaitingHuman(thread) /\ Goes(r, "loading")
  /\ UNCHANGED <<thread, log, forked, hooks>>

Overlaps(r) == \E q \in Requests \ {r} : Invoking(q)

\* `ainvoke(Command(resume=...))` loads the checkpoint of this moment; nothing compares it with the
\* one that was checked.
Load(r) ==
  /\ handler[r].pc = "loading"
  /\ forked' = (forked \/ Overlaps(r))
  /\ LET loaded(place) == [handler[r] EXCEPT !.pc = place, !.mine = thread, !.holding = TRUE]
     IN \/ IsAwaitingHuman(thread) /\ Becomes(r, loaded("answering"))
        \/ thread.at = "running" /\ Becomes(r, loaded("running"))
        \/ thread.at = "over" /\ Reply(r, "200")
  /\ UNCHANGED <<thread, log, hooks>>

\* `_decision_from_answer`: total, and every answer it cannot honour is a recorded refusal.
Consents(kind, b) == b.yes /\ b.role \in Approvers[kind]

\* Mutant: nothing is written when the answer is taken, only when the run pauses again or ends.
StillPaused(t) == t
\* Mutant: the answered question stays on the state.
Left(t) == [t EXCEPT !.at = "running"]
\* `request_approval`, resumed: the question is cleared.
Cleared(t) == [t EXCEPT !.at = "running", !.pending = "none"]

Settle(r) ==
  /\ handler[r].pc = "answering"
  /\ LET h == handler[r]
         b == h.body
     IN /\ log' = log \cup
             {[of |-> Question(h.mine), route |-> b.route, role |-> b.role,
               yes |-> h.mine.at \in Kinds /\ Consents(h.mine.at, b),
               checked |-> h.checked, overtaken |-> h.overtaken]}
        /\ Write(r, Cleared(h.mine),
                 [h EXCEPT !.pc = "running", !.mine = Cleared(h.mine), !.holding = FALSE])
  /\ UNCHANGED <<forked, hooks>>

\* The graph goes on to its next pause, or to its end.  An answer given to a graph that was not
\* paused waits in the invocation: the framework may hand it to the pause the run comes to.
RunOn(r) ==
  /\ handler[r].pc = "running"
  /\ LET h == handler[r]
     IN \/ Write(r, [h.mine EXCEPT !.at = "over"], Fresh("200", NoBody))
        \/ \E p \in Pauses :
             /\ h.mine.n < MaxPauses
             /\ LET t == PauseNext(h.mine, p)
                IN \/ Write(r, t, Fresh("200", NoBody))
                   \/ h.holding /\ Write(r, t, [h EXCEPT !.pc = "answering", !.mine = t])
  /\ UNCHANGED <<log, forked, hooks>>
-----------------------------------------------------------------------------
(* POST /events and /incidents *)

\* Mutant: the initial state replaces what the thread holds.
TakesAnything(t) == TRUE
\* The initial state is merged into the thread by the reducers.  `created_at` and `sla` are
\* write-once and carry the clock, so a thread that exists refuses it and stays as it was.
TakesInitialState(t) == t.at = "absent"

\* `_start`.
Start(r, b) ==
  \/ ~TakesInitialState(thread) /\ Reply(r, "500")
  \/ /\ TakesInitialState(thread)
     /\ Becomes(r, [Fresh("running", b) EXCEPT !.mine = [Absent EXCEPT !.at = "running"]])
-----------------------------------------------------------------------------
(* POST /webhooks/{source} *)

\* Mutant: the delivery is marked only once it has been looked up, an await later.
NotedNothing(id) == seen
\* `_Deliveries.first_time`, with no await between the test and the set.
Noted(id) == seen \cup {id}

FirstTime(r, b) ==
  \/ /\ b.id \in seen /\ Reply(r, "duplicate")
     /\ suppressed' = suppressed \cup {b.id} /\ UNCHANGED seen
  \/ /\ b.id \notin seen /\ Becomes(r, Fresh("delivering", b))
     /\ seen' = Noted(b.id) /\ UNCHANGED suppressed

\* The rest of `post_webhook`: the incident is looked up when the delivery is already marked.
Deliver(r) ==
  /\ handler[r].pc = "delivering"
  /\ \/ thread.at = "absent" /\ Reply(r, "404") /\ UNCHANGED accepted
     \/ /\ thread.at # "absent" /\ Reply(r, "200")
        /\ accepted' = [accepted EXCEPT ![handler[r].body.id] = @ + 1]
  /\ UNCHANGED <<thread, log, forked, seen, suppressed, restarts>>
-----------------------------------------------------------------------------
\* A request arrives and its handler runs to the first await that another may overtake.
Arrive(r) ==
  /\ handler[r].pc = "idle"
  /\ \E b \in Bodies :
       \/ b.route = "approvals" /\ Authorise(r, b) /\ UNCHANGED <<forked, hooks>>
       \/ b.route = "resume" /\ Becomes(r, Fresh("resuming", b)) /\ UNCHANGED <<forked, hooks>>
       \/ b.route = "events" /\ Start(r, b) /\ forked' = (forked \/ Overlaps(r)) /\ UNCHANGED hooks
       \/ b.route = "webhook" /\ FirstTime(r, b) /\ UNCHANGED <<forked, accepted, restarts>>
  /\ UNCHANGED <<thread, log>>

\* The process restarts: every handler in flight is gone, the thread is its last checkpoint.
Restart ==
  /\ restarts < MaxRestarts
  /\ restarts' = restarts + 1
  /\ handler' = [r \in Requests |-> IF handler[r].pc \in {"idle"} \cup Replies THEN handler[r]
                                    ELSE Fresh("lost", NoBody)]
  /\ seen' = {}
  /\ UNCHANGED <<thread, log, forked, accepted, suppressed>>

Served == (\A r \in Requests : Replied(r)) /\ UNCHANGED vars

Step(r) == Arrive(r) \/ CheckPaused(r) \/ Load(r) \/ Settle(r) \/ RunOn(r) \/ Deliver(r)

Next == (\E r \in Requests : Step(r)) \/ Restart \/ Served

Spec == Init /\ [][Next]_vars
-----------------------------------------------------------------------------
TypeOK ==
  /\ thread \in Threads
  /\ handler \in [Requests -> [pc : Places, body : Bodies \cup {NoBody}, checked : Questions,
                               mine : Threads, holding : BOOLEAN, overtaken : BOOLEAN]]
  /\ seen \subseteq Deliveries /\ suppressed \subseteq Deliveries
  /\ log \subseteq Answers /\ forked \in BOOLEAN
  /\ accepted \in [Deliveries -> Nat] /\ restarts \in 0..MaxRestarts

\* What POST /approvals authorised a role for is the question it answers, unless another request
\* moved the thread between the check and the answer.
AuthorisedIsAnswered ==
  \A e \in log : e.route = "approvals" => e.of = e.checked \/ e.overtaken

\* A delivery is accepted at most once by a process, whatever else that process is serving.
AcceptedOncePerProcess == \A d \in Deliveries : accepted[d] <= 1 + restarts

\* While no two invocations overlap, a question leaves the thread only by being answered: no event,
\* webhook, refused request or restart takes it away.
QuestionStands ==
  [][~forked' /\ IsAwaitingHuman(thread) /\ thread' # thread => \E r \in Requests : Settle(r)]_vars

\* While no two invocations overlap, a question is answered at most once: neither a second request
\* whose check found the same pause nor one that comes after a restart answers it again.  (What an
\* invocation wrote survives the process: the checkpointer's part.)
AnsweredOnce ==
  [][\A r \in Requests : Settle(r) /\ ~forked =>
       \A e \in log : e.of # Question(handler[r].mine)]_vars

=============================================================================
