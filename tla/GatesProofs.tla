---------------------------- MODULE GatesProofs ----------------------------
(***************************************************************************)
(* Proofs about Gates for every set of requests, questions, roles and      *)
(* deliveries, every table of approvers and every bound.                   *)
(***************************************************************************)
EXTENDS Gates, TLAPS

Handlers == [pc : Places, body : Bodies \cup {NoBody}, checked : Questions, mine : Threads,
             holding : BOOLEAN, overtaken : BOOLEAN]

\* The bodies that carry an answer
Carrying == {b \in Bodies : b.route \in {"approvals", "resume"}}

\* A handler on its way to an answer carries one, and works on a checkpoint of the right kind.
Good(h) ==
  /\ h \in Handlers
  /\ h.pc \in {"resuming", "loading", "answering"} => h.body \in Carrying
  /\ h.pc = "running" /\ h.holding => h.body \in Carrying
  /\ h.pc = "answering" => h.mine.at \in Pauses
  /\ h.pc = "running" => h.mine.at = "running"

TypeInv ==
  /\ thread \in Threads
  /\ handler \in [Requests -> Handlers] /\ \A r \in Requests : Good(handler[r])
  /\ seen \subseteq Deliveries /\ suppressed \subseteq Deliveries
  /\ log \subseteq Answers /\ forked \in BOOLEAN
  /\ accepted \in [Deliveries -> Nat] /\ restarts \in 0..MaxRestarts

LEMMA Constants ==
  /\ MaxPauses \in Nat /\ MaxPauses >= 1 /\ MaxRestarts \in Nat
  /\ Approvers \in [Kinds -> SUBSET Roles]
  /\ "none" \notin Pauses /\ "none" \notin Kinds /\ Kinds \subseteq Pauses
  /\ "absent" \notin Pauses /\ "running" \notin Pauses /\ "over" \notin Pauses
  BY GatesAssumption DEF Pauses

\* What a thread goes through leaves it a thread.
LEMMA ThreadsStay ==
  /\ Absent \in Threads /\ Unasked \in Questions
  /\ [Absent EXCEPT !.at = "running"] \in Threads /\ [Absent EXCEPT !.at = "running"].at = "running"
  /\ \A t \in Threads :
       /\ Cleared(t) \in Threads /\ Cleared(t).at = "running" /\ Cleared(t).pending = "none"
       /\ [t EXCEPT !.at = "over"] \in Threads
       /\ \A p \in Pauses : t.n < MaxPauses =>
            PauseNext(t, p) \in Threads /\ PauseNext(t, p).at = p
       /\ t.at \in Pauses => Question(t) \in Questions
<1>1. /\ Absent \in Threads /\ Unasked \in Questions
      /\ [Absent EXCEPT !.at = "running"] \in Threads /\ [Absent EXCEPT !.at = "running"].at = "running"
  BY Constants DEF Threads, Questions, Absent, Unasked, Question
<1>2. ASSUME NEW t \in Threads
      PROVE  /\ Cleared(t) \in Threads /\ Cleared(t).at = "running" /\ Cleared(t).pending = "none"
             /\ [t EXCEPT !.at = "over"] \in Threads
             /\ t.at \in Pauses => Question(t) \in Questions
  BY DEF Threads, Questions, Question, Cleared
<1>3. ASSUME NEW t \in Threads, NEW p \in Pauses, t.n < MaxPauses
      PROVE  PauseNext(t, p) \in Threads /\ PauseNext(t, p).at = p
  <2>1. t.n + 1 \in 0..MaxPauses /\ (IF p \in Kinds THEN p ELSE t.pending) \in Kinds \cup {"none"}
    BY <1>3, Constants DEF Threads
  <2>2. QED BY <2>1 DEF Threads, PauseNext
<1>4. QED BY <1>1, <1>2, <1>3

\* A handler that has just been given its place is a good one.
LEMMA FreshIsGood ==
  /\ \A b \in Bodies \cup {NoBody}, place \in Replies \cup {"idle", "delivering"} :
       Good(Fresh(place, b))
  /\ \A b \in Carrying, q \in Questions : Good([Fresh("resuming", b) EXCEPT !.checked = q])
  /\ \A b \in Carrying : Good(Fresh("resuming", b))
  /\ \A b \in Bodies : Good([Fresh("running", b) EXCEPT !.mine = [Absent EXCEPT !.at = "running"]])
<1>1. \A b \in Bodies \cup {NoBody}, place \in Places : Fresh(place, b) \in Handlers
  BY ThreadsStay DEF Fresh, Handlers
<1>2. \A b \in Bodies \cup {NoBody}, place \in Replies \cup {"idle", "delivering"} :
        Good(Fresh(place, b))
  BY <1>1 DEF Good, Fresh, Places, Replies
<1>3. \A b \in Carrying, q \in Questions : Good([Fresh("resuming", b) EXCEPT !.checked = q])
  BY ThreadsStay DEF Good, Fresh, Places, Handlers, Carrying
<1>4. \A b \in Carrying : Good(Fresh("resuming", b))
  BY <1>1 DEF Good, Fresh, Places, Carrying
<1>5. \A b \in Bodies : Good([Fresh("running", b) EXCEPT !.mine = [Absent EXCEPT !.at = "running"]])
  BY ThreadsStay DEF Good, Fresh, Places, Handlers
<1>6. QED BY <1>2, <1>3, <1>4, <1>5

\* One handler becomes a good one, the others stay as they are.
LEMMA OneChanges ==
  ASSUME TypeInv, NEW r \in Requests, NEW h, Good(h), Becomes(r, h)
  PROVE  /\ handler' \in [Requests -> Handlers] /\ \A q \in Requests : Good(handler'[q])
         /\ handler'[r] = h /\ \A q \in Requests \ {r} : handler'[q] = handler[q]
  BY DEF TypeInv, Becomes, Good

\* A written checkpoint changes one handler, and marks others as overtaken.
LEMMA OneWrites ==
  ASSUME TypeInv, NEW r \in Requests, NEW t \in Threads, NEW h, Good(h), Write(r, t, h)
  PROVE  /\ thread' = t /\ handler' \in [Requests -> Handlers]
         /\ \A q \in Requests : Good(handler'[q])
         /\ handler'[r] = h
<1>1. \A q \in Requests \ {r} :
        handler'[q] = [handler[q] EXCEPT !.overtaken =
                         @ \/ handler[q].pc \in {"resuming", "loading", "answering"}]
  BY DEF Write
<1>2. \A q \in Requests \ {r} : Good(handler'[q])
  <2> SUFFICES ASSUME NEW q \in Requests \ {r} PROVE Good(handler'[q])
    OBVIOUS
  <2>1. handler[q] \in Handlers /\ Good(handler[q])
    BY DEF TypeInv
  <2>2. handler'[q] \in Handlers
    BY <1>1, <2>1 DEF Handlers
  <2>3. /\ handler'[q].pc = handler[q].pc /\ handler'[q].body = handler[q].body
        /\ handler'[q].mine = handler[q].mine /\ handler'[q].holding = handler[q].holding
    BY <1>1, <2>1 DEF Handlers
  <2>4. QED BY <2>1, <2>2, <2>3 DEF Good
<1>3. handler'[r] = h /\ thread' = t
  BY DEF Write
<1>4. \A q \in Requests : handler'[q] \in Handlers
  BY <1>2, <1>3 DEF Good
<1>5. handler' \in [Requests -> Handlers]
  BY <1>4 DEF Write
<1>6. QED BY <1>2, <1>3, <1>5

LEMMA TypeInit == Init => TypeInv
<1> SUFFICES ASSUME Init PROVE TypeInv
  OBVIOUS
<1>1. thread \in Threads
  <2>1. \A p \in Pauses : PauseNext(Absent, p) \in Threads
    <3>1. Absent \in Threads /\ Absent.n = 0
      BY ThreadsStay DEF Absent
    <3>2. \A t \in Threads : \A p \in Pauses : t.n < MaxPauses => PauseNext(t, p) \in Threads
      BY ThreadsStay
    <3>3. Absent.n < MaxPauses
      BY <3>1, Constants
    <3>4. QED BY <3>1, <3>2, <3>3, Zenon
  <2>2. QED BY <2>1, ThreadsStay DEF Init
<1>2. \A r \in Requests : handler[r] = Fresh("idle", NoBody) /\ Good(handler[r])
  BY FreshIsGood DEF Init
<1>3. handler \in [Requests -> Handlers]
  BY <1>2 DEF Init, Good
<1>4. accepted \in [Deliveries -> Nat] /\ restarts \in 0..MaxRestarts
  BY Constants DEF Init
<1>5. seen \subseteq Deliveries /\ suppressed \subseteq Deliveries /\ log \subseteq Answers /\ forked \in BOOLEAN
  BY DEF Init
<1>6. QED BY <1>1, <1>2, <1>3, <1>4, <1>5 DEF TypeInv

LEMMA ArriveType == ASSUME TypeInv, NEW r \in Requests, Arrive(r) PROVE TypeInv'
<1> USE DEF hooks
<1>0. UNCHANGED <<thread, log>>
  BY DEF Arrive
<1>r. ASSUME NEW place \in Replies, Reply(r, place)
      PROVE  handler' \in [Requests -> Handlers] /\ \A q \in Requests : Good(handler'[q])
  BY <1>r, FreshIsGood, OneChanges DEF Reply
<1>1. PICK b \in Bodies :
        \/ b.route = "approvals" /\ Authorise(r, b) /\ UNCHANGED <<forked, hooks>>
        \/ b.route = "resume" /\ Becomes(r, Fresh("resuming", b)) /\ UNCHANGED <<forked, hooks>>
        \/ b.route = "events" /\ Start(r, b) /\ forked' = (forked \/ Overlaps(r)) /\ UNCHANGED hooks
        \/ b.route = "webhook" /\ FirstTime(r, b) /\ UNCHANGED <<forked, accepted, restarts>>
  BY DEF Arrive
<1>2. CASE b.route = "approvals" /\ Authorise(r, b) /\ UNCHANGED <<forked, hooks>>
  <2>1. CASE CanApprove(b.role, PendingApproval(thread))
             /\ Becomes(r, [Fresh("resuming", b) EXCEPT
                             !.checked = [n |-> thread.n, at |-> PendingApproval(thread)]])
    <3>1. [n |-> thread.n, at |-> PendingApproval(thread)] \in Questions
      BY <2>1, Constants DEF TypeInv, Threads, Questions, CanApprove
    <3>2. b \in Carrying
      BY <1>2 DEF Carrying
    <3>3. QED BY <1>0, <1>2, <2>1, <3>1, <3>2, FreshIsGood, OneChanges DEF TypeInv
  <2>2. CASE \E place \in Replies : Reply(r, place)
    BY <1>0, <1>2, <1>r, <2>2 DEF TypeInv
  <2>3. QED BY <1>2, <2>1, <2>2 DEF Authorise, Replies
<1>3. CASE b.route = "resume" /\ Becomes(r, Fresh("resuming", b)) /\ UNCHANGED <<forked, hooks>>
  <2>1. b \in Carrying
    BY <1>3 DEF Carrying
  <2>2. QED BY <1>0, <1>3, <2>1, FreshIsGood, OneChanges DEF TypeInv
<1>4. CASE b.route = "events" /\ Start(r, b) /\ forked' = (forked \/ Overlaps(r)) /\ UNCHANGED hooks
  <2>1. CASE Reply(r, "500")
    BY <1>0, <1>4, <1>r, <2>1 DEF TypeInv, Replies, Overlaps
  <2>2. CASE Becomes(r, [Fresh("running", b) EXCEPT !.mine = [Absent EXCEPT !.at = "running"]])
    BY <1>0, <1>4, <2>2, FreshIsGood, OneChanges DEF TypeInv, Overlaps
  <2>3. QED BY <1>4, <2>1, <2>2 DEF Start
<1>5. CASE b.route = "webhook" /\ FirstTime(r, b) /\ UNCHANGED <<forked, accepted, restarts>>
  <2>1. b.id \in Deliveries
    BY <1>5 DEF Bodies
  <2>2. CASE Reply(r, "duplicate") /\ suppressed' = suppressed \cup {b.id} /\ UNCHANGED seen
    BY <1>0, <1>5, <1>r, <2>1, <2>2 DEF TypeInv, Replies
  <2>3. CASE Becomes(r, Fresh("delivering", b)) /\ seen' = Noted(b.id) /\ UNCHANGED suppressed
    BY <1>0, <1>5, <2>1, <2>3, FreshIsGood, OneChanges DEF TypeInv, Noted
  <2>4. QED BY <1>5, <2>2, <2>3 DEF FirstTime
<1>6. QED BY <1>1, <1>2, <1>3, <1>4, <1>5

LEMMA LoadType ==
  ASSUME TypeInv, NEW r \in Requests, CheckPaused(r) \/ Load(r) PROVE TypeInv'
<1> USE DEF hooks
<1>r. ASSUME NEW place \in Replies, Reply(r, place)
      PROVE  handler' \in [Requests -> Handlers] /\ \A q \in Requests : Good(handler'[q])
  BY <1>r, FreshIsGood, OneChanges DEF Reply
<1>1. CASE CheckPaused(r)
  <2>1. CASE \E place \in Replies : Reply(r, place)
    BY <1>1, <1>r, <2>1 DEF CheckPaused, TypeInv
  <2>2. CASE Goes(r, "loading")
    <3>1. Good([handler[r] EXCEPT !.pc = "loading"])
      BY <1>1 DEF CheckPaused, TypeInv, Good, Handlers, Places
    <3>2. QED BY <1>1, <2>2, <3>1, OneChanges DEF CheckPaused, Goes, TypeInv
  <2>3. QED BY <1>1, <2>1, <2>2 DEF CheckPaused, Replies
<1>2. CASE Load(r)
  <2>0. UNCHANGED <<thread, log, hooks>> /\ forked' \in BOOLEAN
    BY <1>2 DEF Load, TypeInv, Overlaps
  <2>1. CASE Reply(r, "200")
    BY <1>r, <2>0, <2>1 DEF Replies, TypeInv
  <2>2. ASSUME NEW place \in {"answering", "running"},
               place = "answering" => thread.at \in Pauses, place = "running" => thread.at = "running",
               Becomes(r, [handler[r] EXCEPT !.pc = place, !.mine = thread, !.holding = TRUE])
        PROVE  TypeInv'
    <3>1. Good([handler[r] EXCEPT !.pc = place, !.mine = thread, !.holding = TRUE])
      BY <1>2, <2>2 DEF Load, TypeInv, Good, Handlers, Places
    <3>2. QED BY <2>0, <2>2, <3>1, OneChanges DEF TypeInv
  <2>3. QED BY <1>2, <2>1, <2>2, Constants DEF Load, IsAwaitingHuman
<1>3. QED BY <1>1, <1>2

LEMMA SettleType == ASSUME TypeInv, NEW r \in Requests, Settle(r) PROVE TypeInv'
<1> USE DEF hooks
<1> DEFINE h == handler[r]
           b == h.body
           after == [h EXCEPT !.pc = "running", !.mine = Cleared(h.mine), !.holding = FALSE]
           answer == [of |-> Question(h.mine), route |-> b.route, role |-> b.role,
                      yes |-> h.mine.at \in Kinds /\ Consents(h.mine.at, b),
                      checked |-> h.checked, overtaken |-> h.overtaken]
<1>1. h \in Handlers /\ h.mine.at \in Pauses /\ b \in Carrying
  BY DEF Settle, TypeInv, Good
<1>2. Good(after)
  BY <1>1, ThreadsStay DEF Good, Handlers, Places
<1>3. b.role \in Roles \cup {"none"} /\ b.yes \in BOOLEAN /\ b.route \in {"approvals", "resume"}
  BY <1>1 DEF Carrying, Bodies
<1>4. answer \in Answers
  BY <1>1, <1>3, ThreadsStay DEF Answers, Handlers, Consents
<1>5. Write(r, Cleared(h.mine), after) /\ log' = log \cup {answer}
  BY DEF Settle
<1>6. Cleared(h.mine) \in Threads
  BY <1>1, ThreadsStay DEF Handlers
<1> HIDE DEF h, b, after, answer
<1>7. QED BY <1>2, <1>4, <1>5, <1>6, OneWrites DEF Settle, TypeInv

LEMMA RunOnType == ASSUME TypeInv, NEW r \in Requests, RunOn(r) PROVE TypeInv'
<1> USE DEF hooks
<1> DEFINE h == handler[r]
<1>1. h \in Handlers /\ h.mine \in Threads /\ h.mine.at = "running" /\ h.holding \in BOOLEAN
  BY DEF RunOn, TypeInv, Good, Handlers
<1>2. Good(Fresh("200", NoBody))
  BY FreshIsGood DEF Replies
<1>3. CASE Write(r, [h.mine EXCEPT !.at = "over"], Fresh("200", NoBody))
  BY <1>1, <1>2, <1>3, ThreadsStay, OneWrites DEF RunOn, TypeInv
<1>4. ASSUME NEW p \in Pauses, h.mine.n < MaxPauses,
             \/ Write(r, PauseNext(h.mine, p), Fresh("200", NoBody))
             \/ /\ h.holding
                /\ Write(r, PauseNext(h.mine, p), [h EXCEPT !.pc = "answering", !.mine = PauseNext(h.mine, p)])
      PROVE  TypeInv'
  <2> DEFINE t == PauseNext(h.mine, p)
  <2>1. t \in Threads /\ t.at = p
    BY <1>1, <1>4, ThreadsStay
  <2>2. CASE Write(r, t, Fresh("200", NoBody))
    BY <1>2, <2>1, <2>2, OneWrites DEF RunOn, TypeInv
  <2>3. CASE h.holding /\ Write(r, t, [h EXCEPT !.pc = "answering", !.mine = t])
    <3>1. Good([h EXCEPT !.pc = "answering", !.mine = t])
      BY <2>1, <2>3 DEF RunOn, TypeInv, Good, Handlers, Places
    <3>2. QED BY <2>1, <2>3, <3>1, OneWrites DEF RunOn, TypeInv
  <2>4. QED BY <1>4, <2>2, <2>3
<1>5. QED BY <1>3, <1>4 DEF RunOn

LEMMA DeliverType == ASSUME TypeInv, NEW r \in Requests, Deliver(r) PROVE TypeInv'
<1>1. \E place \in Replies : Reply(r, place)
  BY DEF Deliver, Replies
<1>2. handler' \in [Requests -> Handlers] /\ \A q \in Requests : Good(handler'[q])
  BY <1>1, FreshIsGood, OneChanges DEF Reply
<1>3. accepted' \in [Deliveries -> Nat]
  BY DEF Deliver, TypeInv
<1>4. QED BY <1>2, <1>3 DEF Deliver, TypeInv

LEMMA RestartType == TypeInv /\ Restart => TypeInv'
<1> SUFFICES ASSUME TypeInv, Restart PROVE TypeInv'
  OBVIOUS
<1>1. \A r \in Requests : Good(handler'[r])
  BY FreshIsGood DEF Restart, TypeInv, Replies
<1>2. handler' \in [Requests -> Handlers]
  BY <1>1 DEF Restart, Good
<1>3. restarts' \in 0..MaxRestarts
  BY Constants DEF Restart, TypeInv
<1>4. QED BY <1>1, <1>2, <1>3 DEF Restart, TypeInv

LEMMA TypeNext == TypeInv /\ [Next]_vars => TypeInv'
<1> SUFFICES ASSUME TypeInv, [Next]_vars PROVE TypeInv'
  OBVIOUS
<1>1. CASE UNCHANGED vars
  BY <1>1 DEF vars, hooks, TypeInv, Good, Handlers
<1>2. CASE Restart
  BY <1>2, RestartType
<1>3. ASSUME NEW r \in Requests, Step(r) PROVE TypeInv'
  BY <1>3, ArriveType, LoadType, SettleType, RunOnType, DeliverType DEF Step
<1>4. QED BY <1>1, <1>2, <1>3 DEF Next, Served

LEMMA TypeAlways == Spec => []TypeInv
  BY TypeInit, TypeNext, PTL DEF Spec

\* Every handler, checkpoint and recorded answer has the shape the routes of api/app.py give it.
THEOREM TypeCorrect == Spec => []TypeOK
<1>1. TypeInv => TypeOK
  BY DEF TypeInv, TypeOK, Handlers
<1>2. QED BY <1>1, TypeAlways, PTL
-----------------------------------------------------------------------------
(* What was authorised is what is answered *)

\* A question is on record only at the pause that asks it, and cleared before the run goes on.
PendingIsAsked(t) == t.pending # "none" => t.at = t.pending

\* Until another request writes the thread, an authorised handler has the question it was checked
\* against before it: in the thread, and once loaded in its own checkpoint.
OnCourse(h) ==
  h.pc \in {"resuming", "loading", "answering", "running"} /\ h.body.route = "approvals" /\ ~h.overtaken =>
    /\ h.pc \in {"resuming", "loading"} => h.checked = Question(thread) /\ thread.at \in Pauses
    /\ h.pc = "answering" => h.checked = Question(h.mine)
    /\ h.pc = "running" => ~h.holding

CourseInv ==
  /\ AuthorisedIsAnswered
  /\ PendingIsAsked(thread)
  /\ \A r \in Requests : PendingIsAsked(handler[r].mine) /\ OnCourse(handler[r])
  /\ \A r \in Requests : handler[r].pc = "running" => handler[r].mine.pending = "none"

LEMMA PendingStays ==
  /\ PendingIsAsked(Absent) /\ PendingIsAsked([Absent EXCEPT !.at = "running"])
  /\ [Absent EXCEPT !.at = "running"].pending = "none"
  /\ \A t \in Threads : PendingIsAsked(Cleared(t))
  /\ \A t \in Threads, p \in Pauses : t.pending = "none" =>
       PendingIsAsked(PauseNext(t, p)) /\ PendingIsAsked([t EXCEPT !.at = "over"])
  BY Constants DEF PendingIsAsked, Absent, Cleared, PauseNext, Threads

\* A handler that is not on its way to an answer is on course whatever the thread.
LEMMA FreshOnCourse ==
  \A b \in Bodies \cup {NoBody}, place \in Places :
    /\ Fresh(place, b).mine = Absent /\ ~Fresh(place, b).holding
    /\ Fresh(place, b).pc = place /\ Fresh(place, b).body = b /\ ~Fresh(place, b).overtaken
  BY DEF Fresh

LEMMA CourseInit == Init => CourseInv
<1> SUFFICES ASSUME Init PROVE CourseInv
  OBVIOUS
<1>1. PendingIsAsked(thread)
  <2>1. Absent \in Threads /\ Absent.pending = "none"
    BY ThreadsStay DEF Absent
  <2>2. QED BY <2>1, PendingStays DEF Init
<1>2. ASSUME NEW r \in Requests
      PROVE  PendingIsAsked(handler[r].mine) /\ handler[r].pc = "idle"
  BY PendingStays DEF Init, Fresh
<1>3. AuthorisedIsAnswered
  BY DEF Init, AuthorisedIsAnswered
<1>4. QED BY <1>1, <1>2, <1>3 DEF CourseInv, OnCourse

\* A step that leaves the thread and changes one handler.
LEMMA CourseOfOne ==
  ASSUME TypeInv, CourseInv, NEW r \in Requests, NEW h, Good(h), Becomes(r, h),
         UNCHANGED <<thread, log>>, PendingIsAsked(h.mine), OnCourse(h),
         h.pc = "running" => h.mine.pending = "none"
  PROVE  CourseInv'
<1>1. handler'[r] = h /\ \A q \in Requests \ {r} : handler'[q] = handler[q]
  BY OneChanges
<1>2. ASSUME NEW q \in Requests
      PROVE  /\ PendingIsAsked(handler'[q].mine) /\ (handler'[q].pc = "running" => handler'[q].mine.pending = "none")
             /\ OnCourse(handler[q])'
  <2>1. CASE q = r
    BY <1>1, <2>1 DEF OnCourse
  <2>2. CASE q # r
    BY <1>1, <2>2 DEF OnCourse, CourseInv
  <2>3. QED BY <2>1, <2>2
<1>3. QED BY <1>2 DEF CourseInv, AuthorisedIsAnswered, PendingIsAsked

\* A step in which r writes the thread: whoever was on course to it has been overtaken.
LEMMA CourseOfWrite ==
  ASSUME TypeInv, CourseInv, NEW r \in Requests, NEW t \in Threads, NEW h, Good(h), Write(r, t, h),
         AuthorisedIsAnswered', PendingIsAsked(t), PendingIsAsked(h.mine),
         h.pc \notin {"resuming", "loading"},
         h.pc = "answering" /\ h.body.route = "approvals" => h.overtaken \/ h.checked = Question(h.mine),
         h.pc = "running" => ~h.holding /\ h.mine.pending = "none"
  PROVE  CourseInv'
<1>1. handler'[r] = h /\ thread' = t
  BY OneWrites
<1>2. ASSUME NEW q \in Requests
      PROVE  /\ PendingIsAsked(handler'[q].mine) /\ (handler'[q].pc = "running" => handler'[q].mine.pending = "none")
             /\ OnCourse(handler[q])'
  <2>1. CASE q = r
    BY <1>1, <2>1 DEF OnCourse
  <2>2. CASE q # r
    <3>1. handler[q] \in Handlers
      BY DEF TypeInv
    <3>2. handler'[q] = [handler[q] EXCEPT !.overtaken =
                           @ \/ handler[q].pc \in {"resuming", "loading", "answering"}]
      BY <2>2 DEF Write
    <3>3. /\ handler'[q].pc = handler[q].pc /\ handler'[q].body = handler[q].body
          /\ handler'[q].mine = handler[q].mine /\ handler'[q].holding = handler[q].holding
          /\ ~handler'[q].overtaken =>
               ~handler[q].overtaken /\ handler[q].pc \notin {"resuming", "loading", "answering"}
      BY <3>1, <3>2 DEF Handlers
    <3>4. QED BY <3>3 DEF OnCourse, CourseInv
  <2>3. QED BY <2>1, <2>2
<1>3. QED BY <1>1, <1>2 DEF CourseInv, PendingIsAsked

LEMMA CourseArrive ==
  ASSUME TypeInv, CourseInv, NEW r \in Requests, Arrive(r) PROVE CourseInv'
<1>0. UNCHANGED <<thread, log>>
  BY DEF Arrive
<1>1. PICK b \in Bodies :
        \/ b.route = "approvals" /\ Authorise(r, b)
        \/ b.route = "resume" /\ Becomes(r, Fresh("resuming", b))
        \/ b.route = "events" /\ Start(r, b)
        \/ b.route = "webhook" /\ FirstTime(r, b)
  BY DEF Arrive
<1>2. ASSUME NEW place \in Replies \cup {"delivering"}, NEW c \in {b, NoBody},
             Becomes(r, Fresh(place, c))
      PROVE  CourseInv'
  <2>1. Good(Fresh(place, c)) /\ Fresh(place, c).mine = Absent /\ Fresh(place, c).pc = place
    BY FreshIsGood, FreshOnCourse DEF Places
  <2>2. QED BY <1>0, <1>2, <2>1, CourseOfOne, PendingStays DEF OnCourse, Replies
<1>3. CASE b.route = "approvals" /\ Authorise(r, b)
  <2>1. CASE thread.at # "absent" /\ CanApprove(b.role, PendingApproval(thread))
             /\ Becomes(r, [Fresh("resuming", b) EXCEPT
                             !.checked = [n |-> thread.n, at |-> PendingApproval(thread)]])
    <3> DEFINE h == [Fresh("resuming", b) EXCEPT
                      !.checked = [n |-> thread.n, at |-> PendingApproval(thread)]]
    <3>1. [n |-> thread.n, at |-> PendingApproval(thread)] \in Questions
      BY <2>1, Constants DEF TypeInv, Threads, Questions, CanApprove
    <3>2. Good(h)
      <4>1. b \in Carrying
        BY <1>3 DEF Carrying
      <4>2. QED BY <3>1, <4>1, FreshIsGood
    <3>3. thread.at = PendingApproval(thread) /\ thread.at \in Pauses
      BY <2>1, Constants DEF CourseInv, PendingIsAsked, PendingApproval, CanApprove
    <3>4. h.pc = "resuming" /\ h.checked = Question(thread) /\ h.mine = Absent
      BY <3>3 DEF Fresh, Question
    <3> HIDE DEF h
    <3>5. OnCourse(h)
      BY <3>3, <3>4 DEF OnCourse
    <3>6. QED BY <1>0, <2>1, <3>2, <3>4, <3>5, CourseOfOne, PendingStays DEF h
  <2>2. CASE \E place \in Replies : Reply(r, place)
    BY <1>2, <2>2 DEF Reply
  <2>3. CASE thread.at = "absent" /\ CanApprove(b.role, PendingApproval(thread))
    BY <2>3, Constants DEF CourseInv, PendingIsAsked, PendingApproval, CanApprove
  <2>4. QED BY <1>3, <2>1, <2>2, <2>3 DEF Authorise, Replies
<1>4. CASE b.route = "resume" /\ Becomes(r, Fresh("resuming", b))
  <2>1. b \in Carrying
    BY <1>4 DEF Carrying
  <2>2. /\ Good(Fresh("resuming", b)) /\ Fresh("resuming", b).mine = Absent
        /\ Fresh("resuming", b).pc = "resuming" /\ Fresh("resuming", b).body = b
    BY <2>1, FreshIsGood, FreshOnCourse DEF Places
  <2>3. QED BY <1>0, <1>4, <2>2, CourseOfOne, PendingStays DEF OnCourse
<1>5. CASE b.route = "events" /\ Start(r, b)
  <2>1. CASE Becomes(r, [Fresh("running", b) EXCEPT !.mine = [Absent EXCEPT !.at = "running"]])
    <3> DEFINE h == [Fresh("running", b) EXCEPT !.mine = [Absent EXCEPT !.at = "running"]]
    <3>1. Good(h) /\ h.body = b /\ h.pc = "running" /\ h.mine = [Absent EXCEPT !.at = "running"]
      BY FreshIsGood DEF Fresh
    <3> HIDE DEF h
    <3>2. OnCourse(h)
      BY <1>5, <3>1 DEF OnCourse
    <3>3. QED BY <1>0, <2>1, <3>1, <3>2, CourseOfOne, PendingStays DEF h
  <2>2. CASE Reply(r, "500")
    BY <1>2, <2>2 DEF Reply, Replies
  <2>3. QED BY <1>5, <2>1, <2>2 DEF Start
<1>6. CASE b.route = "webhook" /\ FirstTime(r, b)
  BY <1>2, <1>6 DEF FirstTime, Reply, Replies
<1>7. QED BY <1>1, <1>3, <1>4, <1>5, <1>6

LEMMA CourseLoad ==
  ASSUME TypeInv, CourseInv, NEW r \in Requests, CheckPaused(r) \/ Load(r) PROVE CourseInv'
<1>0. UNCHANGED <<thread, log>> /\ handler[r] \in Handlers /\ Good(handler[r])
  BY DEF CheckPaused, Load, TypeInv
<1>2. ASSUME NEW place \in Replies, Reply(r, place) PROVE CourseInv'
  <2>1. Good(Fresh(place, NoBody)) /\ Fresh(place, NoBody).mine = Absent /\ Fresh(place, NoBody).pc = place
    BY FreshIsGood, FreshOnCourse DEF Places
  <2>2. QED BY <1>0, <1>2, <2>1, CourseOfOne, PendingStays DEF OnCourse, Replies, Reply
<1>3. CASE handler[r].pc = "resuming" /\ Goes(r, "loading")
  <2> DEFINE h == [handler[r] EXCEPT !.pc = "loading"]
  <2>1. Good(h)
    BY <1>0, <1>3 DEF Good, Handlers, Places
  <2>2. h.pc = "loading" /\ h.body = handler[r].body /\ h.mine = handler[r].mine
        /\ h.checked = handler[r].checked /\ h.overtaken = handler[r].overtaken
    BY <1>0 DEF Handlers
  <2>3. OnCourse(h) /\ PendingIsAsked(h.mine)
    BY <1>3, <2>2 DEF OnCourse, CourseInv
  <2> HIDE DEF h
  <2>4. QED BY <1>0, <1>3, <2>1, <2>2, <2>3, CourseOfOne DEF Goes, h
<1>4. ASSUME NEW place \in {"answering", "running"}, handler[r].pc = "loading",
             place = "answering" => thread.at \in Pauses, place = "running" => thread.at = "running",
             Becomes(r, [handler[r] EXCEPT !.pc = place, !.mine = thread, !.holding = TRUE])
      PROVE  CourseInv'
  <2> DEFINE h == [handler[r] EXCEPT !.pc = place, !.mine = thread, !.holding = TRUE]
  <2>1. Good(h)
    BY <1>0, <1>4 DEF Good, Handlers, Places, TypeInv
  <2>2. h.pc = place /\ h.body = handler[r].body /\ h.mine = thread
        /\ h.checked = handler[r].checked /\ h.overtaken = handler[r].overtaken
    BY <1>0 DEF Handlers
  <2>3. thread.at = "running" => thread.pending = "none"
    BY Constants DEF CourseInv, PendingIsAsked, TypeInv, Threads
  <2>4. OnCourse(h)
    BY <1>4, <2>2, Constants DEF OnCourse, CourseInv
  <2> HIDE DEF h
  <2>5. QED BY <1>0, <1>4, <2>1, <2>2, <2>3, <2>4, CourseOfOne DEF CourseInv, h
<1>5. QED BY <1>2, <1>3, <1>4, Constants DEF CheckPaused, Load, IsAwaitingHuman, Replies

LEMMA CourseSettle ==
  ASSUME TypeInv, CourseInv, NEW r \in Requests, Settle(r) PROVE CourseInv'
<1> DEFINE h == handler[r]
           after == [h EXCEPT !.pc = "running", !.mine = Cleared(h.mine), !.holding = FALSE]
           answer == [of |-> Question(h.mine), route |-> h.body.route, role |-> h.body.role,
                      yes |-> h.mine.at \in Kinds /\ Consents(h.mine.at, h.body),
                      checked |-> h.checked, overtaken |-> h.overtaken]
<1>1. h \in Handlers /\ h.pc = "answering" /\ h.mine \in Threads /\ Good(h)
  BY DEF Settle, TypeInv, Handlers
<1>2. log' = log \cup {answer} /\ Write(r, Cleared(h.mine), after)
  BY DEF Settle
<1>3. answer.route = "approvals" => answer.of = answer.checked \/ answer.overtaken
  BY <1>1 DEF CourseInv, OnCourse
<1>4. Good(after) /\ Cleared(h.mine) \in Threads /\ after.mine.pending = "none"
  BY <1>1, ThreadsStay DEF Good, Handlers, Places
<1>5. after.pc = "running" /\ ~after.holding /\ after.mine = Cleared(h.mine)
  BY <1>1 DEF Handlers
<1> HIDE DEF h, after, answer
<1>6. AuthorisedIsAnswered'
  BY <1>2, <1>3 DEF CourseInv, AuthorisedIsAnswered
<1>7. PendingIsAsked(Cleared(h.mine))
  BY <1>1, PendingStays
<1>8. QED BY <1>2, <1>4, <1>5, <1>6, <1>7, CourseOfWrite

LEMMA CourseRunOn ==
  ASSUME TypeInv, CourseInv, NEW r \in Requests, RunOn(r) PROVE CourseInv'
<1> DEFINE h == handler[r]
<1>1. /\ h \in Handlers /\ h.pc = "running" /\ h.mine \in Threads /\ Good(h)
      /\ h.mine.pending = "none" /\ OnCourse(h)
  BY DEF RunOn, TypeInv, CourseInv, Handlers
<1>2. /\ Good(Fresh("200", NoBody)) /\ Fresh("200", NoBody).mine = Absent
      /\ Fresh("200", NoBody).pc = "200" /\ PendingIsAsked(Fresh("200", NoBody).mine)
  BY FreshIsGood, FreshOnCourse, PendingStays DEF Replies, Places
<1>3. AuthorisedIsAnswered'
  BY DEF RunOn, CourseInv, AuthorisedIsAnswered
<1>4. CASE Write(r, [h.mine EXCEPT !.at = "over"], Fresh("200", NoBody))
  <2>1. PendingIsAsked([h.mine EXCEPT !.at = "over"]) /\ [h.mine EXCEPT !.at = "over"] \in Threads
    BY <1>1, ThreadsStay DEF PendingIsAsked, Threads
  <2>2. QED BY <1>2, <1>3, <1>4, <2>1, CourseOfWrite
<1>5. ASSUME NEW p \in Pauses, h.mine.n < MaxPauses,
             \/ Write(r, PauseNext(h.mine, p), Fresh("200", NoBody))
             \/ /\ h.holding
                /\ Write(r, PauseNext(h.mine, p), [h EXCEPT !.pc = "answering", !.mine = PauseNext(h.mine, p)])
      PROVE  CourseInv'
  <2> DEFINE t == PauseNext(h.mine, p)
             after == [h EXCEPT !.pc = "answering", !.mine = t]
  <2>1. t \in Threads /\ t.at = p /\ PendingIsAsked(t)
    BY <1>1, <1>5, ThreadsStay, PendingStays
  <2>2. CASE Write(r, t, Fresh("200", NoBody))
    BY <1>2, <1>3, <2>1, <2>2, CourseOfWrite
  <2>3. CASE h.holding /\ Write(r, t, after)
    <3>1. Good(after)
      BY <1>1, <2>1, <2>3 DEF Good, Handlers, Places
    <3>2. after.pc = "answering" /\ after.mine = t /\ after.body = h.body /\ after.overtaken = h.overtaken
      BY <1>1 DEF Handlers
    <3>3. h.body.route = "approvals" => h.overtaken
      BY <1>1, <2>3 DEF OnCourse
    <3> HIDE DEF after, t
    <3>4. QED BY <1>3, <2>1, <2>3, <3>1, <3>2, <3>3, CourseOfWrite
  <2>4. QED BY <1>5, <2>2, <2>3
<1>6. QED BY <1>4, <1>5 DEF RunOn

LEMMA CourseNext == TypeInv /\ CourseInv /\ [Next]_vars => CourseInv'
<1> SUFFICES ASSUME TypeInv, CourseInv, [Next]_vars PROVE CourseInv'
  OBVIOUS
<1>1. CASE UNCHANGED vars
  BY <1>1 DEF vars, CourseInv, OnCourse, PendingIsAsked, AuthorisedIsAnswered
<1>2. CASE Restart
  <2>1. \A q \in Requests : \/ handler'[q] = handler[q]
                            \/ handler'[q] = Fresh("lost", NoBody)
    BY <1>2 DEF Restart
  <2>2. /\ Fresh("lost", NoBody).mine = Absent /\ Fresh("lost", NoBody).pc = "lost"
        /\ PendingIsAsked(Absent)
    BY FreshOnCourse, PendingStays DEF Places, Replies
  <2>3. \A q \in Requests : OnCourse(handler[q])'
    BY <1>2, <2>1, <2>2 DEF OnCourse, CourseInv, Restart
  <2>4. \A q \in Requests : PendingIsAsked(handler'[q].mine)
                            /\ (handler'[q].pc = "running" => handler'[q].mine.pending = "none")
    BY <2>1, <2>2 DEF CourseInv
  <2>5. QED BY <1>2, <2>3, <2>4 DEF Restart, CourseInv, AuthorisedIsAnswered, PendingIsAsked
<1>3. ASSUME NEW r \in Requests, Deliver(r) PROVE CourseInv'
  <2>1. UNCHANGED <<thread, log>> /\ \E place \in Replies : Reply(r, place)
    BY <1>3 DEF Deliver, Replies
  <2>2. PICK place \in Replies : Becomes(r, Fresh(place, NoBody))
    BY <2>1 DEF Reply
  <2>3. Good(Fresh(place, NoBody)) /\ Fresh(place, NoBody).mine = Absent /\ Fresh(place, NoBody).pc = place
    BY FreshIsGood, FreshOnCourse DEF Places
  <2>4. QED BY <2>1, <2>2, <2>3, CourseOfOne, PendingStays DEF OnCourse, Replies
<1>4. ASSUME NEW r \in Requests, Step(r) PROVE CourseInv'
  BY <1>3, <1>4, CourseArrive, CourseLoad, CourseSettle, CourseRunOn DEF Step
<1>5. QED BY <1>1, <1>2, <1>4 DEF Next, Served

\* A role is authorised for the question its answer reaches, unless another request moved the thread
\* between `_may_answer` and the gate: the one interleaving the boundary does not exclude.
THEOREM AuthorisedAnswered == Spec => []AuthorisedIsAnswered
<1>1. CourseInv => AuthorisedIsAnswered
  BY DEF CourseInv
<1>2. QED BY <1>1, TypeAlways, CourseInit, CourseNext, PTL DEF Spec
-----------------------------------------------------------------------------
(* Deliveries *)

Delivering(r, d) == handler[r].pc = "delivering" /\ handler[r].body.id = d

\* One copy of a delivery is being looked up at a time, and it is marked while it is.
DeliveryInv ==
  \A d \in Deliveries :
    /\ accepted[d] <= restarts + (IF d \in seen THEN 1 ELSE 0)
    /\ \A r \in Requests : Delivering(r, d) =>
         /\ d \in seen /\ accepted[d] <= restarts
         /\ \A q \in Requests \ {r} : ~Delivering(q, d)

LEMMA DeliveryInit == TypeInv /\ Init => DeliveryInv
<1> SUFFICES ASSUME TypeInv, Init, NEW d \in Deliveries
             PROVE  /\ accepted[d] <= restarts + (IF d \in seen THEN 1 ELSE 0)
                    /\ \A r \in Requests : ~Delivering(r, d)
  BY DEF DeliveryInv
<1>1. \A r \in Requests : handler[r].pc = "idle"
  BY DEF Init, Fresh
<1>2. accepted[d] = 0 /\ restarts = 0 /\ seen = {}
  BY DEF Init
<1>3. QED BY <1>1, <1>2 DEF Delivering

\* A step that marks and accepts nothing, and begins no look-up.
LEMMA DeliveryQuiet ==
  ASSUME DeliveryInv, UNCHANGED <<seen, accepted, restarts>>,
         \A q \in Requests : handler'[q].pc = "delivering" =>
           handler[q].pc = "delivering" /\ handler'[q].body = handler[q].body
  PROVE  DeliveryInv'
<1>1. \A q \in Requests, d \in Deliveries : Delivering(q, d)' => Delivering(q, d)
  BY DEF Delivering
<1>2. QED BY <1>1 DEF DeliveryInv

LEMMA DeliveryNext == TypeInv /\ DeliveryInv /\ [Next]_vars => DeliveryInv'
<1> SUFFICES ASSUME TypeInv, DeliveryInv, [Next]_vars PROVE DeliveryInv'
  OBVIOUS
<1> USE DEF hooks
<1>0. \A d \in Deliveries : accepted[d] \in Nat /\ restarts \in Nat
  BY DEF TypeInv
<1>1. CASE UNCHANGED vars
  BY <1>1, DeliveryQuiet DEF vars
<1>2. CASE Restart
  <2>1. \A q \in Requests : handler'[q].pc # "delivering"
    BY <1>2 DEF Restart, Fresh, Replies
  <2>2. \A d \in Deliveries : accepted'[d] <= restarts' /\ restarts' + 0 = restarts'
    BY <1>0, <1>2 DEF Restart, DeliveryInv
  <2>3. seen' = {}
    BY <1>2 DEF Restart
  <2>4. QED BY <2>1, <2>2, <2>3 DEF DeliveryInv, Delivering
<1>3. ASSUME NEW r \in Requests, NEW h, Becomes(r, h), h.pc # "delivering",
             UNCHANGED <<seen, accepted, restarts>>
      PROVE  DeliveryInv'
  <2>1. \A q \in Requests : handler'[q].pc = "delivering" => handler'[q] = handler[q]
    BY <1>3 DEF Becomes, TypeInv
  <2>2. QED BY <1>3, <2>1, DeliveryQuiet
<1>4. ASSUME NEW r \in Requests, Arrive(r) PROVE DeliveryInv'
  <2>1. PICK b \in Bodies :
          \/ Authorise(r, b) /\ UNCHANGED hooks
          \/ Becomes(r, Fresh("resuming", b)) /\ UNCHANGED hooks
          \/ Start(r, b) /\ UNCHANGED hooks
          \/ b.route = "webhook" /\ FirstTime(r, b) /\ UNCHANGED <<accepted, restarts>>
    BY <1>4 DEF Arrive
  <2>2. CASE Authorise(r, b) /\ UNCHANGED hooks
    BY <1>3, <2>2 DEF Authorise, Reply, Fresh
  <2>3. CASE Becomes(r, Fresh("resuming", b)) /\ UNCHANGED hooks
    BY <1>3, <2>3 DEF Fresh
  <2>4. CASE Start(r, b) /\ UNCHANGED hooks
    BY <1>3, <2>4 DEF Start, Reply, Fresh
  <2>5. CASE b.route = "webhook" /\ FirstTime(r, b) /\ UNCHANGED <<accepted, restarts>>
    <3>1. CASE Reply(r, "duplicate") /\ UNCHANGED seen
      BY <1>3, <2>5, <3>1 DEF Reply, Fresh
    <3>2. CASE b.id \notin seen /\ Becomes(r, Fresh("delivering", b)) /\ seen' = Noted(b.id)
      <4>1. handler'[r].body = b /\ \A q \in Requests \ {r} : handler'[q] = handler[q]
        BY <3>2 DEF Becomes, TypeInv, Fresh
      <4>2. seen' = seen \cup {b.id}
        BY <3>2 DEF Noted
      <4>3. \A q \in Requests : ~Delivering(q, b.id)
        <5>1. b.id \in Deliveries
          BY <2>5 DEF Bodies
        <5>2. QED BY <3>2, <5>1 DEF DeliveryInv
      <4>4. ASSUME NEW d \in Deliveries
            PROVE  /\ accepted'[d] <= restarts' + (IF d \in seen' THEN 1 ELSE 0)
                   /\ \A q \in Requests : Delivering(q, d)' =>
                        /\ d \in seen' /\ accepted'[d] <= restarts'
                        /\ \A p \in Requests \ {q} : ~Delivering(p, d)'
        <5>1. CASE d = b.id
          <6>1. \A q \in Requests \ {r} : ~Delivering(q, d)'
            BY <4>1, <4>3, <5>1 DEF Delivering
          <6>2. accepted[d] <= restarts /\ d \in seen'
            BY <1>0, <3>2, <4>2, <5>1 DEF DeliveryInv
          <6>3. QED BY <1>0, <2>5, <6>1, <6>2
        <5>2. CASE d # b.id
          <6>1. ~Delivering(r, d)'
            BY <4>1, <5>2 DEF Delivering
          <6>2. \A q \in Requests \ {r} : Delivering(q, d)' <=> Delivering(q, d)
            BY <4>1 DEF Delivering
          <6>3. d \in seen' <=> d \in seen
            BY <4>2, <5>2
          <6>4. QED BY <2>5, <6>1, <6>2, <6>3 DEF DeliveryInv
        <5>3. QED BY <5>1, <5>2
      <4>5. QED BY <4>4 DEF DeliveryInv
    <3>3. QED BY <2>5, <3>1, <3>2 DEF FirstTime
  <2>6. QED BY <2>1, <2>2, <2>3, <2>4, <2>5
<1>5. ASSUME NEW r \in Requests, CheckPaused(r) \/ Load(r) PROVE DeliveryInv'
  <2>1. CASE CheckPaused(r)
    <3>1. [handler[r] EXCEPT !.pc = "loading"].pc = "loading"
      BY DEF TypeInv, Handlers
    <3>2. QED BY <1>3, <2>1, <3>1 DEF CheckPaused, Goes, Reply, Fresh
  <2>2. CASE Load(r)
    <3>1. \A place \in {"answering", "running"} :
            [handler[r] EXCEPT !.pc = place, !.mine = thread, !.holding = TRUE].pc = place
      BY DEF TypeInv, Handlers
    <3>2. QED BY <1>3, <2>2, <3>1 DEF Load, Reply, Fresh
  <2>3. QED BY <1>5, <2>1, <2>2
<1>6. ASSUME NEW r \in Requests, Settle(r) \/ RunOn(r) PROVE DeliveryInv'
  <2>1. PICK t, h : Write(r, t, h) /\ h.pc # "delivering"
    <3>1. /\ [handler[r] EXCEPT !.pc = "running", !.mine = Cleared(handler[r].mine), !.holding = FALSE].pc = "running"
          /\ \A p : [handler[r] EXCEPT !.pc = "answering", !.mine = PauseNext(handler[r].mine, p)].pc = "answering"
      BY DEF TypeInv, Handlers
    <3>2. Fresh("200", NoBody).pc = "200"
      BY DEF Fresh
    <3>3. CASE Settle(r)
      BY <3>1, <3>3 DEF Settle
    <3>4. CASE RunOn(r)
      BY <3>1, <3>2, <3>4 DEF RunOn
    <3>5. QED BY <1>6, <3>3, <3>4
  <2>2. UNCHANGED <<seen, accepted, restarts>>
    BY <1>6 DEF Settle, RunOn
  <2>3. ASSUME NEW q \in Requests, handler'[q].pc = "delivering"
        PROVE  handler[q].pc = "delivering" /\ handler'[q].body = handler[q].body
    <3>1. handler[q] \in Handlers
      BY DEF TypeInv
    <3>2. QED BY <2>1, <2>3, <3>1 DEF Write, Handlers
  <2>4. QED BY <2>2, <2>3, DeliveryQuiet
<1>7. ASSUME NEW r \in Requests, Deliver(r) PROVE DeliveryInv'
  <2>1. CASE Reply(r, "404") /\ UNCHANGED accepted
    BY <1>3, <1>7, <2>1 DEF Deliver, Reply, Fresh
  <2>2. CASE Reply(r, "200") /\ accepted' = [accepted EXCEPT ![handler[r].body.id] = @ + 1]
    <3>1. UNCHANGED <<seen, restarts>> /\ handler[r].pc = "delivering"
      BY <1>7 DEF Deliver
    <3>2. handler'[r].pc = "200" /\ \A q \in Requests \ {r} : handler'[q] = handler[q]
      BY <2>2 DEF Reply, Becomes, TypeInv, Fresh
    <3>3. ASSUME NEW d \in Deliveries
          PROVE  /\ accepted'[d] <= restarts' + (IF d \in seen' THEN 1 ELSE 0)
                 /\ \A q \in Requests : Delivering(q, d)' =>
                      /\ d \in seen' /\ accepted'[d] <= restarts'
                      /\ \A p \in Requests \ {q} : ~Delivering(p, d)'
      <4>1. CASE Delivering(r, d)
        <5>1. \A q \in Requests : ~Delivering(q, d)'
          BY <3>2, <4>1 DEF Delivering, DeliveryInv
        <5>2. d \in seen' /\ accepted[d] <= restarts /\ accepted'[d] = accepted[d] + 1
          BY <2>2, <3>1, <4>1 DEF Delivering, DeliveryInv, TypeInv
        <5>3. QED BY <1>0, <3>1, <5>1, <5>2
      <4>2. CASE ~Delivering(r, d)
        <5>1. handler[r].body.id # d
          BY <3>1, <4>2 DEF Delivering
        <5>2. accepted'[d] = accepted[d]
          BY <2>2, <5>1 DEF TypeInv
        <5>3. \A q \in Requests : Delivering(q, d)' => Delivering(q, d)
          BY <3>2 DEF Delivering
        <5>4. QED BY <3>1, <5>2, <5>3 DEF DeliveryInv
      <4>3. QED BY <4>1, <4>2
    <3>4. QED BY <3>3 DEF DeliveryInv
  <2>3. QED BY <1>7, <2>1, <2>2 DEF Deliver
<1>8. QED BY <1>1, <1>2, <1>4, <1>5, <1>6, <1>7 DEF Next, Step, Served

\* A delivery is accepted at most once by each process that ran, however its copies interleave:
\* `_Deliveries.first_time` tests and marks without an await between.
THEOREM AcceptedOnce == Spec => []AcceptedOncePerProcess
<1>1. TypeInv /\ DeliveryInv => AcceptedOncePerProcess
  <2> SUFFICES ASSUME TypeInv, DeliveryInv, NEW d \in Deliveries PROVE accepted[d] <= 1 + restarts
    BY DEF AcceptedOncePerProcess
  <2>1. accepted[d] \in Nat /\ restarts \in Nat /\ accepted[d] <= restarts + (IF d \in seen THEN 1 ELSE 0)
    BY DEF TypeInv, DeliveryInv
  <2>2. QED BY <2>1
<1>2. QED BY <1>1, TypeAlways, TypeInit, DeliveryInit, DeliveryNext, PTL DEF Spec
-----------------------------------------------------------------------------
(* A question stands until it is answered *)

\* While invocations never overlapped there is at most one, and it has left the pause it answers;
\* a thread once made is there.
AloneInv ==
  /\ ~forked => /\ \A q, r \in Requests : Invoking(q) /\ Invoking(r) => q = r
                /\ \A r \in Requests : handler[r].pc = "running" => thread.at \notin Pauses
  /\ \A r \in Requests : handler[r].pc = "loading" => thread.at # "absent"

LEMMA AloneInit == Init => AloneInv
<1> SUFFICES ASSUME Init PROVE AloneInv
  OBVIOUS
<1>1. \A r \in Requests : handler[r].pc = "idle"
  BY DEF Init, Fresh
<1>2. QED BY <1>1 DEF AloneInv, Invoking

\* A step that leaves the thread and starts no invocation.
LEMMA AloneQuiet ==
  ASSUME AloneInv, UNCHANGED <<thread, forked>>,
         \A q \in Requests : /\ handler'[q].pc \in {"answering", "running"} => handler'[q].pc = handler[q].pc
                             /\ handler'[q].pc = "loading" => thread.at # "absent"
  PROVE  AloneInv'
  BY DEF AloneInv, Invoking

LEMMA AloneNext == TypeInv /\ AloneInv /\ [Next]_vars => AloneInv'
<1> SUFFICES ASSUME TypeInv, AloneInv, [Next]_vars PROVE AloneInv'
  OBVIOUS
<1>1. CASE UNCHANGED vars
  BY <1>1, AloneQuiet DEF vars, AloneInv
<1>2. CASE Restart
  <2>1. \A q \in Requests : handler'[q].pc \notin {"answering", "running", "loading"}
    BY <1>2 DEF Restart, Fresh, Replies
  <2>2. QED BY <1>2, <2>1, AloneQuiet DEF Restart
<1>3. ASSUME NEW r \in Requests, NEW h, Becomes(r, h), UNCHANGED <<thread, forked>>,
             h.pc \notin {"answering", "running"}, h.pc = "loading" => thread.at # "absent"
      PROVE  AloneInv'
  <2>1. \A q \in Requests : handler'[q] = (IF q = r THEN h ELSE handler[q])
    BY <1>3 DEF Becomes, TypeInv
  <2>2. QED BY <1>3, <2>1, AloneQuiet DEF AloneInv
<1>4. ASSUME NEW r \in Requests, NEW h, Becomes(r, h), UNCHANGED thread,
             forked' = (forked \/ Overlaps(r)), h.pc \in {"answering", "running"},
             h.pc = "running" => thread.at \notin Pauses
      PROVE  AloneInv'
  <2>1. \A q \in Requests : handler'[q] = (IF q = r THEN h ELSE handler[q])
    BY <1>4 DEF Becomes, TypeInv
  <2>2. ~forked' => ~forked /\ \A q \in Requests \ {r} : ~Invoking(q)
    BY <1>4 DEF Overlaps, TypeInv
  <2>3. ~forked' => \A p, q \in Requests : Invoking(p)' /\ Invoking(q)' => p = q
    BY <2>1, <2>2 DEF Invoking
  <2>4. ~forked' => \A q \in Requests : handler'[q].pc = "running" => thread'.at \notin Pauses
    BY <1>4, <2>1, <2>2 DEF AloneInv
  <2>5. \A q \in Requests : handler'[q].pc = "loading" => thread'.at # "absent"
    BY <1>4, <2>1 DEF AloneInv
  <2>6. QED BY <2>3, <2>4, <2>5 DEF AloneInv
<1>5. ASSUME NEW r \in Requests, Arrive(r) PROVE AloneInv'
  <2>1. PICK b \in Bodies :
          \/ Authorise(r, b) /\ UNCHANGED forked
          \/ Becomes(r, Fresh("resuming", b)) /\ UNCHANGED forked
          \/ Start(r, b) /\ forked' = (forked \/ Overlaps(r))
          \/ FirstTime(r, b) /\ UNCHANGED forked
    BY <1>5 DEF Arrive
  <2>2. UNCHANGED thread
    BY <1>5 DEF Arrive
  <2>3. CASE Authorise(r, b) /\ UNCHANGED forked
    BY <1>3, <2>2, <2>3 DEF Authorise, Reply, Fresh
  <2>4. CASE Becomes(r, Fresh("resuming", b)) /\ UNCHANGED forked
    BY <1>3, <2>2, <2>4 DEF Fresh
  <2>5. CASE Start(r, b) /\ forked' = (forked \/ Overlaps(r))
    <3>1. CASE Reply(r, "500")
      <4>1. \A q \in Requests : handler'[q].pc = (IF q = r THEN "500" ELSE handler[q].pc)
        BY <3>1 DEF Reply, Becomes, Fresh, TypeInv
      <4>2. ~forked' => ~forked
        BY <2>5
      <4>3. QED BY <2>2, <4>1, <4>2 DEF AloneInv, Invoking
    <3>2. CASE TakesInitialState(thread)
               /\ Becomes(r, [Fresh("running", b) EXCEPT !.mine = [Absent EXCEPT !.at = "running"]])
      <4>1. [Fresh("running", b) EXCEPT !.mine = [Absent EXCEPT !.at = "running"]].pc = "running"
        BY DEF Fresh
      <4>2. QED BY <1>4, <2>2, <2>5, <3>2, <4>1, Constants DEF TakesInitialState
    <3>3. QED BY <2>5, <3>1, <3>2 DEF Start
  <2>6. CASE FirstTime(r, b) /\ UNCHANGED forked
    BY <1>3, <2>2, <2>6 DEF FirstTime, Reply, Fresh
  <2>7. QED BY <2>1, <2>3, <2>4, <2>5, <2>6
<1>6. ASSUME NEW r \in Requests, CheckPaused(r) PROVE AloneInv'
  <2>1. [handler[r] EXCEPT !.pc = "loading"].pc = "loading"
    BY DEF TypeInv, Handlers
  <2>2. QED BY <1>3, <1>6, <2>1, Constants DEF CheckPaused, Goes, Reply, Fresh, IsAwaitingHuman
<1>7. ASSUME NEW r \in Requests, Load(r) PROVE AloneInv'
  <2>1. \A place \in {"answering", "running"} :
          [handler[r] EXCEPT !.pc = place, !.mine = thread, !.holding = TRUE].pc = place
    BY DEF TypeInv, Handlers
  <2>2. CASE Reply(r, "200")
    <3>1. \A q \in Requests : handler'[q].pc = (IF q = r THEN "200" ELSE handler[q].pc)
      BY <2>2 DEF Reply, Becomes, Fresh, TypeInv
    <3>2. UNCHANGED thread /\ (~forked' => ~forked)
      BY <1>7 DEF Load
    <3>3. QED BY <3>1, <3>2 DEF AloneInv, Invoking
  <2>3. CASE ~Reply(r, "200")
    BY <1>4, <1>7, <2>1, <2>3, Constants DEF Load
  <2>4. QED BY <2>2, <2>3
<1>8. ASSUME NEW r \in Requests, Settle(r) \/ RunOn(r) PROVE AloneInv'
  <2>1. PICK t, h : /\ Write(r, t, h) /\ t.at # "absent" /\ h.pc # "loading"
                    /\ h.pc = "running" => t.at \notin Pauses
    <3>1. handler[r] \in Handlers /\ handler[r].mine \in Threads
      BY DEF TypeInv, Handlers
    <3>2. CASE Settle(r)
      <4>1. /\ [handler[r] EXCEPT !.pc = "running", !.mine = Cleared(handler[r].mine), !.holding = FALSE].pc = "running"
            /\ Cleared(handler[r].mine).at = "running"
        BY <3>1, ThreadsStay DEF Handlers
      <4>2. QED BY <3>2, <4>1, Constants DEF Settle
    <3>3. CASE RunOn(r)
      <4>1. /\ \A p : [handler[r] EXCEPT !.pc = "answering", !.mine = PauseNext(handler[r].mine, p)].pc = "answering"
            /\ \A p \in Pauses : PauseNext(handler[r].mine, p).at = p
            /\ [handler[r].mine EXCEPT !.at = "over"].at = "over"
            /\ Fresh("200", NoBody).pc = "200"
        BY <3>1 DEF Handlers, Threads, PauseNext, Fresh
      <4>2. QED BY <3>3, <4>1, Constants DEF RunOn
    <3>4. QED BY <1>8, <3>2, <3>3
  <2>2. handler[r].pc \in {"answering", "running"} /\ UNCHANGED forked
    BY <1>8 DEF Settle, RunOn
  <2>3. thread' = t /\ handler'[r] = h
    BY <2>1 DEF Write
  <2>4. \A q \in Requests \ {r} : handler'[q].pc = handler[q].pc
    <3>1. \A q \in Requests : handler[q] \in Handlers
      BY DEF TypeInv
    <3>2. QED BY <2>1, <3>1 DEF Write, Handlers
  <2>5. ~forked' => \A q \in Requests \ {r} : ~Invoking(q)
    BY <2>2 DEF AloneInv, Invoking
  <2>6. ~forked' => \A p, q \in Requests : Invoking(p)' /\ Invoking(q)' => p = q
    BY <2>4, <2>5 DEF Invoking
  <2>7. ~forked' => \A q \in Requests : handler'[q].pc = "running" => thread'.at \notin Pauses
    BY <2>1, <2>3, <2>4, <2>5 DEF Invoking
  <2>8. QED BY <2>1, <2>3, <2>6, <2>7 DEF AloneInv
<1>9. ASSUME NEW r \in Requests, Deliver(r) PROVE AloneInv'
  BY <1>3, <1>9 DEF Deliver, Reply, Fresh
<1>10. QED BY <1>1, <1>2, <1>5, <1>6, <1>7, <1>8, <1>9 DEF Next, Step, Served

\* A question leaves the thread only by being answered, unless two invocations of it overlapped.
THEOREM QuestionsStand == Spec => QuestionStands
<1>1. TypeInv /\ AloneInv /\ [Next]_vars =>
        (~forked' /\ IsAwaitingHuman(thread) /\ thread' # thread => \E r \in Requests : Settle(r))
  <2> SUFFICES ASSUME TypeInv, AloneInv, [Next]_vars, ~forked', IsAwaitingHuman(thread), thread' # thread
               PROVE  \E r \in Requests : Settle(r)
    OBVIOUS
  <2>1. \E r \in Requests : Settle(r) \/ RunOn(r)
    BY DEF Next, Step, Arrive, CheckPaused, Load, Deliver, Restart, Served, vars
  <2>2. ASSUME NEW r \in Requests, RunOn(r) PROVE FALSE
    BY <2>2 DEF RunOn, AloneInv, IsAwaitingHuman
  <2>3. QED BY <2>1, <2>2
<1>2. QED BY <1>1, TypeAlways, AloneInit, AloneNext, PTL DEF Spec, QuestionStands
-----------------------------------------------------------------------------
(* A question is answered once *)

\* The answered question e is behind the checkpoint t.
Behind(e, t) == e.of.n < t.n \/ (e.of.n = t.n /\ t.at \notin Pauses)

\* While invocations never overlapped, every answered question is behind the thread and behind the
\* checkpoint an invocation works on; a thread that was never made has answered none.
AskedInv ==
  /\ thread.at = "absent" => log = {}
  /\ ~forked => \A e \in log : /\ Behind(e, thread)
                               /\ \A r \in Requests : Invoking(r) => Behind(e, handler[r].mine)

LEMMA AskedInit == Init => AskedInv
  BY DEF Init, AskedInv

\* A step that answers nothing, leaves the thread and starts no invocation.
LEMMA AskedQuiet ==
  ASSUME AskedInv, UNCHANGED <<thread, log>>, ~forked' => ~forked,
         \A q \in Requests : handler'[q].pc \in {"answering", "running"} =>
           handler'[q].pc = handler[q].pc /\ handler'[q].mine = handler[q].mine
  PROVE  AskedInv'
  BY DEF AskedInv, Invoking, Behind

\* What follows a checkpoint that e is behind leaves e behind it.
LEMMA StaysBehind ==
  ASSUME NEW e \in Answers, NEW t \in Threads, Behind(e, t)
  PROVE  /\ Behind(e, Cleared(t)) /\ Behind(e, [t EXCEPT !.at = "over"])
         /\ \A p \in Pauses : Behind(e, PauseNext(t, p))
<1>1. e.of.n \in Nat /\ t.n \in Nat
  BY Constants DEF Answers, Questions, Threads
<1>2. /\ Cleared(t).n = t.n /\ Cleared(t).at = "running"
      /\ [t EXCEPT !.at = "over"].n = t.n /\ [t EXCEPT !.at = "over"].at = "over"
  BY DEF Threads, Cleared
<1>3. \A p \in Pauses : Behind(e, PauseNext(t, p))
  <2> SUFFICES ASSUME NEW p \in Pauses PROVE Behind(e, PauseNext(t, p))
    OBVIOUS
  <2>1. PauseNext(t, p).n = t.n + 1
    BY DEF PauseNext
  <2>2. e.of.n < t.n + 1
    BY <1>1 DEF Behind
  <2>3. QED BY <2>1, <2>2 DEF Behind
<1>4. Behind(e, Cleared(t)) /\ Behind(e, [t EXCEPT !.at = "over"])
  BY <1>1, <1>2, Constants DEF Behind
<1>5. QED BY <1>3, <1>4

LEMMA AskedNext == TypeInv /\ AloneInv /\ AskedInv /\ [Next]_vars => AskedInv'
<1> SUFFICES ASSUME TypeInv, AloneInv, AskedInv, [Next]_vars PROVE AskedInv'
  OBVIOUS
<1>1. CASE UNCHANGED vars
  BY <1>1, AskedQuiet DEF vars
<1>2. CASE Restart
  <2>1. \A q \in Requests : handler'[q].pc \notin {"answering", "running"}
    BY <1>2 DEF Restart, Fresh, Replies
  <2>2. QED BY <1>2, <2>1, AskedQuiet DEF Restart
<1>3. ASSUME NEW r \in Requests, NEW h, Becomes(r, h), UNCHANGED <<thread, log>>,
             ~forked' => ~forked, h.pc \notin {"answering", "running"}
      PROVE  AskedInv'
  <2>1. \A q \in Requests : handler'[q] = (IF q = r THEN h ELSE handler[q])
    BY <1>3 DEF Becomes, TypeInv
  <2>2. QED BY <1>3, <2>1, AskedQuiet
<1>4. ASSUME NEW r \in Requests, NEW h, Becomes(r, h), UNCHANGED <<thread, log>>,
             ~forked' => ~forked, \A e \in log : Behind(e, thread) => Behind(e, h.mine)
      PROVE  AskedInv'
  <2>1. \A q \in Requests : handler'[q] = (IF q = r THEN h ELSE handler[q])
    BY <1>4 DEF Becomes, TypeInv
  <2>2. ~forked' => \A e \in log : \A q \in Requests : Invoking(q)' => Behind(e, handler'[q].mine)
    BY <1>4, <2>1 DEF AskedInv, Invoking
  <2>3. QED BY <1>4, <2>2 DEF AskedInv, Behind
<1>5. ASSUME NEW r \in Requests, Arrive(r) PROVE AskedInv'
  <2>1. PICK b \in Bodies :
          \/ Authorise(r, b) /\ UNCHANGED forked
          \/ Becomes(r, Fresh("resuming", b)) /\ UNCHANGED forked
          \/ Start(r, b) /\ forked' = (forked \/ Overlaps(r))
          \/ FirstTime(r, b) /\ UNCHANGED forked
    BY <1>5 DEF Arrive
  <2>2. UNCHANGED <<thread, log>> /\ (~forked' => ~forked)
    <3>1. UNCHANGED <<thread, log>>
      BY <1>5 DEF Arrive
    <3>2. UNCHANGED forked \/ forked' = (forked \/ Overlaps(r))
      BY <2>1, Zenon
    <3>3. ~forked' => ~forked
      BY <3>2
    <3>4. QED BY <3>1, <3>3
  <2>3. CASE Authorise(r, b)
    BY <1>3, <2>2, <2>3 DEF Authorise, Reply, Fresh
  <2>4. CASE Becomes(r, Fresh("resuming", b))
    BY <1>3, <2>2, <2>4 DEF Fresh
  <2>5. CASE Start(r, b)
    <3>1. CASE Reply(r, "500")
      BY <1>3, <2>2, <3>1 DEF Reply, Fresh
    <3>2. CASE TakesInitialState(thread)
               /\ Becomes(r, [Fresh("running", b) EXCEPT !.mine = [Absent EXCEPT !.at = "running"]])
      <4>1. log = {}
        BY <3>2 DEF TakesInitialState, AskedInv
      <4>2. QED BY <1>4, <2>2, <3>2, <4>1
    <3>3. QED BY <2>5, <3>1, <3>2 DEF Start
  <2>6. CASE FirstTime(r, b)
    BY <1>3, <2>2, <2>6 DEF FirstTime, Reply, Fresh
  <2>7. QED BY <2>1, <2>3, <2>4, <2>5, <2>6
<1>6. ASSUME NEW r \in Requests, CheckPaused(r) PROVE AskedInv'
  <2>1. [handler[r] EXCEPT !.pc = "loading"].pc = "loading"
    BY DEF TypeInv, Handlers
  <2>2. QED BY <1>3, <1>6, <2>1 DEF CheckPaused, Goes, Reply, Fresh
<1>7. ASSUME NEW r \in Requests, Load(r) PROVE AskedInv'
  <2>1. \A place \in {"answering", "running"} :
          [handler[r] EXCEPT !.pc = place, !.mine = thread, !.holding = TRUE].mine = thread
    BY DEF TypeInv, Handlers
  <2>2. UNCHANGED <<thread, log>> /\ (~forked' => ~forked)
    BY <1>7 DEF Load
  <2>3. CASE Reply(r, "200")
    BY <1>3, <2>2, <2>3 DEF Reply, Fresh
  <2>4. CASE ~Reply(r, "200")
    BY <1>4, <1>7, <2>1, <2>2, <2>4 DEF Load
  <2>5. QED BY <2>3, <2>4
<1>8. ASSUME NEW r \in Requests, Settle(r) \/ RunOn(r) PROVE AskedInv'
  <2> DEFINE m == handler[r].mine
  <2>0. /\ handler[r] \in Handlers /\ m \in Threads /\ log \subseteq Answers
        /\ handler[r].pc = "answering" => m.at \in Pauses
    BY DEF TypeInv, Handlers, Good
  <2>1. Invoking(r) /\ UNCHANGED forked
    BY <1>8 DEF Settle, RunOn, Invoking
  <2>2. ~forked' => \A q \in Requests \ {r} : ~Invoking(q)
    BY <2>1 DEF AloneInv
  <2>3. ~forked' => \A e \in log : Behind(e, m)
    BY <2>1 DEF AskedInv
  <2>4. PICK t, h : /\ Write(r, t, h) /\ t.at # "absent"
                    /\ h.pc \in {"answering", "running"} => h.mine = t
                    /\ ~forked' => \A e \in log' : Behind(e, t)
    <3>1. CASE Settle(r)
      <4> DEFINE b == handler[r].body
                 answer == [of |-> Question(m), route |-> b.route, role |-> b.role,
                            yes |-> m.at \in Kinds /\ Consents(m.at, b),
                            checked |-> handler[r].checked, overtaken |-> handler[r].overtaken]
                 after == [handler[r] EXCEPT !.pc = "running", !.mine = Cleared(m), !.holding = FALSE]
      <4>1. Write(r, Cleared(m), after) /\ log' = log \cup {answer}
        BY <3>1 DEF Settle
      <4>2. after.mine = Cleared(m)
        BY <2>0 DEF Handlers
      <4>3. Cleared(m).n = m.n /\ Cleared(m).at = "running"
        BY <2>0 DEF Threads, Cleared
      <4>4. Behind(answer, Cleared(m))
        BY <4>3, Constants DEF Behind, Question
      <4>5. ~forked' => \A e \in log : Behind(e, Cleared(m))
        BY <2>0, <2>3, StaysBehind
      <4> HIDE DEF answer, after, m
      <4>6. QED BY <4>1, <4>2, <4>3, <4>4, <4>5
    <3>2. CASE RunOn(r)
      <4>1. CASE Write(r, [m EXCEPT !.at = "over"], Fresh("200", NoBody))
        <5>1. [m EXCEPT !.at = "over"].at = "over" /\ Fresh("200", NoBody).pc = "200"
          BY <2>0 DEF Threads, Fresh
        <5>2. ~forked' => \A e \in log' : Behind(e, [m EXCEPT !.at = "over"])
          BY <2>0, <2>3, <3>2, StaysBehind DEF RunOn
        <5> HIDE DEF m
        <5>3. QED BY <4>1, <5>1, <5>2
      <4>2. ASSUME NEW p \in Pauses,
                   \/ Write(r, PauseNext(m, p), Fresh("200", NoBody))
                   \/ Write(r, PauseNext(m, p),
                            [handler[r] EXCEPT !.pc = "answering", !.mine = PauseNext(m, p)])
            PROVE  \E t, h : /\ Write(r, t, h) /\ t.at # "absent"
                             /\ h.pc \in {"answering", "running"} => h.mine = t
                             /\ ~forked' => \A e \in log' : Behind(e, t)
        <5>1. /\ PauseNext(m, p).at # "absent" /\ Fresh("200", NoBody).pc = "200"
              /\ [handler[r] EXCEPT !.pc = "answering", !.mine = PauseNext(m, p)].mine = PauseNext(m, p)
          BY <2>0, Constants DEF PauseNext, Fresh, Handlers
        <5>2. ~forked' => \A e \in log' : Behind(e, PauseNext(m, p))
          BY <2>0, <2>3, <3>2, StaysBehind DEF RunOn
        <5> HIDE DEF m
        <5>3. QED BY <4>2, <5>1, <5>2
      <4>3. QED BY <3>2, <4>1, <4>2 DEF RunOn
    <3>3. QED BY <1>8, <3>1, <3>2
  <2>5. thread' = t /\ handler'[r] = h
    BY <2>4 DEF Write
  <2>6. \A q \in Requests \ {r} : handler'[q].pc = handler[q].pc
    <3>1. \A q \in Requests : handler[q] \in Handlers
      BY DEF TypeInv
    <3>2. QED BY <2>4, <3>1 DEF Write, Handlers
  <2>7. ~forked' => \A q \in Requests : Invoking(q)' => handler'[q].mine = t
    BY <2>2, <2>4, <2>5, <2>6 DEF Invoking
  <2>8. QED BY <2>4, <2>5, <2>7 DEF AskedInv, Behind
<1>9. ASSUME NEW r \in Requests, Deliver(r) PROVE AskedInv'
  BY <1>3, <1>9 DEF Deliver, Reply, Fresh
<1>10. QED BY <1>1, <1>2, <1>5, <1>6, <1>7, <1>8, <1>9 DEF Next, Step, Served

\* No question is answered twice, by however many requests and across however many restarts, unless
\* two invocations of the thread overlapped.
THEOREM AnswersOnce == Spec => AnsweredOnce
<1>1. ASSUME TypeInv, AskedInv, NEW r \in Requests, Settle(r), ~forked
      PROVE  \A e \in log : e.of # Question(handler[r].mine)
  <2>1. Invoking(r) /\ handler[r].mine.at \in Pauses
    BY <1>1 DEF Settle, Invoking, TypeInv, Good
  <2>2. SUFFICES ASSUME NEW e \in log, e.of = Question(handler[r].mine) PROVE FALSE
    OBVIOUS
  <2>3. e.of.n < handler[r].mine.n
    BY <1>1, <2>1 DEF AskedInv, Behind
  <2>4. e.of.n = handler[r].mine.n
    BY <2>2 DEF Question
  <2>5. handler[r].mine.n \in Nat
    <3>1. handler[r].mine \in Threads
      BY <1>1 DEF TypeInv, Handlers
    <3>2. QED BY <3>1, Constants DEF Threads
  <2>6. QED BY <2>3, <2>4, <2>5
<1>2. TypeInv /\ AskedInv =>
        \A r \in Requests : Settle(r) /\ ~forked => \A e \in log : e.of # Question(handler[r].mine)
  BY <1>1
<1>3. QED BY <1>2, TypeAlways, AloneInit, AloneNext, AskedInit, AskedNext, PTL DEF Spec, AnsweredOnce
=============================================================================
