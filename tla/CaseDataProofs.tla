--------------------------- MODULE CaseDataProofs ---------------------------
(***************************************************************************)
(* What holds of the data of the case, for every catalogue, policy, budget *)
(* and set of domains: that closures are proved and signed, that nothing   *)
(* is acted on twice or without consent, and that nothing is left open.    *)
(*                                                                         *)
(* Each property is about one place of the graph, and what makes it true   *)
(* was decided some nodes before.  The invariant says, for every place,    *)
(* what has been decided on the way there (`Here`); most places are plain, *)
(* where nothing is under way (`Clear`).  A step is then a change of a few *)
(* fields and a move to a place where what is needed holds.                *)
(***************************************************************************)
EXTENDS CaseGraphProofs

(* Records *)

Looks == 0..MinSamples
Requests == 0..MaxMRs
Tries == 0..MaxReconciles

Case == [data : {"ok", "poor"}, test : {"none"} \cup Tests, dom : Domains \cup {"unknown"},
         plan : SUBSET Options, chosen : Options \cup {"none"}, tried : SUBSET Options,
         verdict : [Actions -> Outcomes \cup {"none"}],
         due : SUBSET Kinds, answer : [Kinds -> Answers \cup {"none"}],
         asked : SUBSET Options,
         ran : BOOLEAN, fixed : BOOLEAN, fix : BOOLEAN, looks : Looks,
         session : {"none", "open", "completed", "resolved", "declined", "timed_out",
                    "not_resolved"},
         order : {"none", "open", "done"}, finding : {"none", "done", "unsure", "plant"},
         contract : {"none", "complete", "partial", "accepted", "rejected"},
         mr : {"none", "awaiting_osp", "completed", "dead"}, mrs : Requests,
         validation : {"none", "passed", "observing", "pending", "failed"},
         confirmed : {"unset", "yes", "no"},
         recon : {"none", "consistent", "mismatch"}, retries : Tries,
         closure : {"none", "normal", "exceptional"}]

Fields ==
  {"data", "test", "dom", "plan", "chosen", "tried", "verdict", "due", "answer", "asked", "ran",
   "fixed", "fix", "looks", "session", "order", "finding", "contract", "mr", "mrs", "validation",
   "confirmed", "recon", "retries", "closure"}

\* e is a record with the fields of a case, and differs from d at most in those named.
Differs(d, e, names) ==
  /\ DOMAIN e = Fields /\ e = [f \in Fields |-> e[f]]
  /\ \A f \in Fields \ names : e[f] = d[f]

\* A case has the fields of a case.
LEMMA CaseFields == ASSUME NEW d \in Case PROVE DOMAIN d = Fields /\ Differs(d, d, {})
<1>1. DOMAIN d = Fields
  BY DEF Case, Fields
<1>2. d = [f \in Fields |-> d[f]]
  BY <1>1 DEF Case
<1> QED BY <1>1, <1>2 DEF Differs

\* The bounds of the counters, without their arithmetic.
LEMMA Counts ==
  /\ 0 \in Looks /\ 0 \in Requests /\ 0 \in Tries
  /\ \A l \in Looks : l < MinSamples => l + 1 \in Looks
  /\ \A r \in Requests : r < MaxMRs => r + 1 \in Requests
  /\ \A r \in Tries : r < MaxReconciles => r + 1 \in Tries
  /\ 0 < MaxReconciles
BY BudgetAssumption DEF Looks, Requests, Tries

(* What each helper changes of a case, and to what *)

\* One more look at the sources may flag the data, and changes nothing else.
LEMMA GatheredChanges ==
  ASSUME NEW d \in Case, NEW e \in Gathered(d)
  PROVE  e \in Case /\ Differs(d, e, {"data"})
<1>1. CASE e = d
  BY <1>1, CaseFields DEF Differs
<1>2. CASE e = [d EXCEPT !.data = "poor"]
  <2>1. Differs(d, e, {"data"}) /\ e.data = "poor"
    BY <1>2, CaseFields DEF Differs, Fields
  <2> HIDE <1>2
  <2> QED BY <2>1 DEF Case, Differs, Fields
<1> QED BY <1>1, <1>2 DEF Gathered

\* A read of the service may count as one more.
LEMMA ReadChanges ==
  ASSUME NEW d \in Case, NEW e \in Read(d)
  PROVE  e \in Case /\ Differs(d, e, {"looks"})
<1>1. CASE e = d
  BY <1>1, CaseFields DEF Differs
<1>2. CASE e = [d EXCEPT !.looks = IF @ < MinSamples THEN @ + 1 ELSE @]
  <2>1. Differs(d, e, {"looks"}) /\ e.looks = IF d.looks < MinSamples THEN d.looks + 1 ELSE d.looks
    BY <1>2, CaseFields DEF Differs, Fields
  <2>2. d.looks \in Looks
    BY DEF Case
  <2>3. e.looks \in Looks
    BY <2>1, <2>2, Counts
  <2> QED BY <2>1, <2>3 DEF Case, Differs, Fields
<1> QED BY <1>1, <1>2 DEF Read

\* A decision changes the verdict on its action, and adds the kind it demands.
LEMMA DecideChanges ==
  ASSUME NEW d \in Case, NEW a \in Actions, NEW v \in Outcomes, NEW e, e = Decide(d, a, v)
  PROVE  /\ e \in Case /\ Differs(d, e, {"verdict", "due"})
         /\ e.verdict[a] = v /\ \A b \in Actions \ {a} : e.verdict[b] = d.verdict[b]
         /\ v \in Kinds => e.due = d.due \cup {v}
         /\ v \notin Kinds => e.due = d.due
<1>1. /\ Differs(d, e, {"verdict", "due"})
      /\ e.verdict = [d.verdict EXCEPT ![a] = v]
      /\ e.due = IF v \in Kinds THEN d.due \cup {v} ELSE d.due
  BY CaseFields DEF Decide, Differs, Fields
<1>2. d.verdict \in [Actions -> Outcomes \cup {"none"}] /\ d.due \in SUBSET Kinds
  BY DEF Case
<1>3. e.verdict \in [Actions -> Outcomes \cup {"none"}] /\ e.due \in SUBSET Kinds
  BY <1>1, <1>2
<1>4. e \in Case
  BY <1>1, <1>3 DEF Case, Differs, Fields
<1> QED BY <1>1, <1>2, <1>4

\* An answer changes what is on record for its kind, and settles its demand.
LEMMA AnsweredChanges ==
  ASSUME NEW d \in Case, NEW k \in Kinds, NEW ans \in Answers, NEW e, e = Answered(d, k, ans)
  PROVE  /\ e \in Case /\ Differs(d, e, {"answer", "due"})
         /\ e.answer[k] = ans /\ \A j \in Kinds \ {k} : e.answer[j] = d.answer[j]
         /\ e.due = d.due \ {k}
<1>1. /\ Differs(d, e, {"answer", "due"})
      /\ e.answer = [d.answer EXCEPT ![k] = ans]
      /\ e.due = d.due \ {k}
  BY CaseFields DEF Answered, Differs, Fields
<1>2. d.answer \in [Kinds -> Answers \cup {"none"}] /\ d.due \in SUBSET Kinds
  BY DEF Case
<1>3. e.answer \in [Kinds -> Answers \cup {"none"}] /\ e.due \in SUBSET Kinds
  BY <1>1, <1>2
<1>4. e \in Case
  BY <1>1, <1>3 DEF Case, Differs, Fields
<1> QED BY <1>1, <1>2, <1>4

\* A repair restarts the count of reads.
LEMMA RepairedChanges ==
  ASSUME NEW d \in Case, NEW e, e = Repaired(d)
  PROVE  e \in Case /\ Differs(d, e, {"fix", "looks"})
<1>1. Differs(d, e, {"fix", "looks"}) /\ e.fix = TRUE /\ e.looks = 0
  BY CaseFields DEF Repaired, Differs, Fields
<1>2. e.fix \in BOOLEAN /\ e.looks \in Looks
  BY <1>1, Counts
<1> QED BY <1>1, <1>2 DEF Case, Differs, Fields

\* A note to the plant crew is recorded, or leaves a demand.
LEMMA ChasedChanges ==
  ASSUME NEW d \in Case, NEW v, NEW e, e = Chased(d, v)
  PROVE  e \in Case /\ Differs(d, e, {"fix", "looks", "due"})
<1>1. CASE v = "allowed"
  <2>1. e = Repaired(d)
    BY <1>1 DEF Chased
  <2> QED BY <2>1, RepairedChanges DEF Differs
<1>2. CASE v # "allowed"
  <2>1. Differs(d, e, {"due"}) /\ e.due = d.due \cup ({v} \cap Kinds)
    BY <1>2, CaseFields DEF Chased, Differs, Fields
  <2>2. e.due \in SUBSET Kinds
    BY <2>1 DEF Case
  <2> QED BY <2>1, <2>2 DEF Case, Differs, Fields
<1> QED BY <1>1, <1>2

\* An attempt takes its option off the plan for good.
LEMMA ActedChanges ==
  ASSUME NEW d \in Case, NEW a \in Options, NEW reached \in BOOLEAN, NEW e, e = Acted(d, a, reached)
  PROVE  /\ e \in Case /\ Differs(d, e, {"fix", "looks", "tried", "plan", "asked"})
         /\ e.plan = d.plan \ {a} /\ e.tried \subseteq d.tried \cup {a}
<1> DEFINE r == Repaired(d)
<1>1. r \in Case /\ Differs(d, r, {"fix", "looks"})
  BY RepairedChanges
<1>2. e = [r EXCEPT !.tried = IF reached THEN @ \cup {a} ELSE @, !.plan = @ \ {a},
                    !.asked = IF reached THEN @ \ {a} ELSE @]
  BY DEF Acted
<1> HIDE DEF r
<1>3. /\ Differs(r, e, {"tried", "plan", "asked"})
      /\ e.tried = IF reached THEN r.tried \cup {a} ELSE r.tried
      /\ e.plan = r.plan \ {a}
      /\ e.asked = IF reached THEN r.asked \ {a} ELSE r.asked
  BY <1>1, <1>2, CaseFields DEF Differs, Fields
<1>4. r.tried \in SUBSET Options /\ r.plan \in SUBSET Options /\ r.asked \in SUBSET Options
  BY <1>1 DEF Case
<1>5. e.tried \in SUBSET Options /\ e.plan \in SUBSET Options /\ e.asked \in SUBSET Options
  BY <1>3, <1>4
<1>6. e \in Case
  BY <1>1, <1>3, <1>5, SMTT(30) DEF Case, Differs, Fields
<1>7. Differs(d, e, {"fix", "looks", "tried", "plan", "asked"}) /\ r.plan = d.plan /\ r.tried = d.tried
  BY <1>1, <1>3 DEF Differs, Fields
<1> QED BY <1>3, <1>6, <1>7

\* A plant request leaves one with the plant crew, and counts if it left the process.
LEMMA SubmittedChanges ==
  ASSUME NEW d \in Case, NEW reached \in BOOLEAN, d.mrs < MaxMRs, NEW e, e = Submitted(d, reached)
  PROVE  e \in Case /\ Differs(d, e, {"fix", "looks", "mr", "mrs"}) /\ e.mr = "awaiting_osp"
<1> DEFINE r == Repaired(d)
<1>1. r \in Case /\ Differs(d, r, {"fix", "looks"})
  BY RepairedChanges
<1>2. e = [r EXCEPT !.mr = "awaiting_osp", !.mrs = IF reached THEN @ + 1 ELSE @]
  BY DEF Submitted
<1> HIDE DEF r
<1>3. /\ Differs(r, e, {"mr", "mrs"}) /\ e.mr = "awaiting_osp"
      /\ e.mrs = IF reached THEN r.mrs + 1 ELSE r.mrs
  BY <1>1, <1>2, CaseFields DEF Differs, Fields
<1>4. r.mrs \in Requests /\ r.mrs = d.mrs
  BY <1>1 DEF Case, Differs, Fields
<1>5. e.mrs \in Requests
  BY <1>3, <1>4, Counts
<1>6. e \in Case
  BY <1>1, <1>3, <1>5, SMTT(30) DEF Case, Differs, Fields
<1>7. Differs(d, e, {"fix", "looks", "mr", "mrs"})
  BY <1>1, <1>3 DEF Differs, Fields
<1> QED BY <1>3, <1>6, <1>7

\* A work order that is closed is open no longer, and an order that is not open stays as it is.
LEMMA OrderClosedChanges ==
  ASSUME NEW d \in Case, NEW e, e = OrderClosed(d)
  PROVE  e \in Case /\ Differs(d, e, {"fix", "looks", "order"}) /\ e.order # "open"
<1> DEFINE r == Repaired(d)
<1>1. r \in Case /\ Differs(d, r, {"fix", "looks"})
  BY RepairedChanges
<1>2. CASE d.order # "open"
  BY <1>2, CaseFields DEF OrderClosed, Differs, Fields
<1>3. CASE d.order = "open"
  <2>1. e = [r EXCEPT !.order = "done"]
    BY <1>3 DEF OrderClosed
  <2> HIDE DEF r
  <2>2. Differs(r, e, {"order"}) /\ e.order = "done"
    BY <1>1, <2>1, CaseFields DEF Differs, Fields
  <2>3. e \in Case
    BY <1>1, <2>2, SMTT(30) DEF Case, Differs, Fields
  <2>4. Differs(d, e, {"fix", "looks", "order"})
    BY <1>1, <2>2 DEF Differs, Fields
  <2> QED BY <2>2, <2>3, <2>4
<1> QED BY <1>2, <1>3

\* The answer about an attempt is the answer for its kind, unless the attempt was answered before.
LEMMA AnsweredOnceChanges ==
  ASSUME NEW d \in Case, NEW ans \in Answers, d.chosen \in Options, d.verdict[d.chosen] \in Kinds,
         NEW e, e = AnsweredOnce(d, ans)
  PROVE  /\ e \in Case /\ Differs(d, e, {"answer", "due", "asked"})
         /\ \A j \in Kinds \ {d.verdict[d.chosen]} : e.answer[j] = d.answer[j]
<1> DEFINE k == d.verdict[d.chosen]
           r == Answered(d, k, ans)
<1>1. /\ r \in Case /\ Differs(d, r, {"answer", "due"})
      /\ \A j \in Kinds \ {k} : r.answer[j] = d.answer[j]
  BY AnsweredChanges
<1>2. CASE d.chosen \in d.asked
  BY <1>2, CaseFields DEF AnsweredOnce, Differs, Fields
<1>3. CASE d.chosen \notin d.asked
  <2>1. e = [r EXCEPT !.asked = @ \cup {d.chosen}]
    BY <1>3 DEF AnsweredOnce
  <2> HIDE DEF r
  <2>2. Differs(r, e, {"asked"}) /\ e.asked = r.asked \cup {d.chosen}
    BY <1>1, <2>1, CaseFields DEF Differs, Fields
  <2>3. r.asked \in SUBSET Options
    BY <1>1 DEF Case
  <2>4. e.asked \in SUBSET Options
    BY <2>2, <2>3
  <2>5. e \in Case
    BY <1>1, <2>2, <2>4, SMTT(30) DEF Case, Differs, Fields
  <2>6. Differs(d, e, {"answer", "due", "asked"}) /\ e.answer = r.answer
    BY <1>1, <2>2 DEF Differs, Fields
  <2> QED BY <1>1, <2>5, <2>6
<1> QED BY <1>2, <1>3

\* What the policy answers is an outcome; a plant request it lets through is within its limit.
LEMMA JudgementsAreOutcomes ==
  ASSUME NEW d \in Case, NEW a \in Actions, NEW v \in Judgements(d, a)
  PROVE  /\ v \in Outcomes
         /\ a = RaiseMR /\ v # "blocked" => d.mrs < MaxMRs
         /\ a \in d.tried \ d.plan => v = "blocked"
<1>1. Verdicts[a] \subseteq Outcomes /\ "blocked" \in Outcomes
  BY CatalogueAssumption DEF Outcomes
<1>2. d.mrs \in 0..MaxMRs /\ d.tried \subseteq Options /\ MaxMRs \in Nat \ {0}
  BY BudgetAssumption DEF Case, Requests
<1>3. RaiseMR \notin Options
  BY CatalogueAssumption DEF Options, RaiseMR, Selfhelp, Dispatch, Close
<1> QED BY <1>1, <1>2, <1>3 DEF Judgements

\* Selecting takes an option that is planned and not blocked, and judges it.
LEMMA SelectChanges ==
  ASSUME NEW d \in Case, NEW options \in SUBSET Options, Actionable(d, options) # {},
         NEW e \in SelectOption(d, options)
  PROVE  /\ e \in Case /\ Differs(d, e, {"chosen", "verdict", "due"})
         /\ e.chosen \in d.plan \cap options
<1>1. PICK a \in Actionable(d, options) :
        \E v \in Judgements(d, a) : e = Decide([d EXCEPT !.chosen = a], a, v)
  BY DEF SelectOption
<1>w. PICK v \in Judgements(d, a) : e = Decide([d EXCEPT !.chosen = a], a, v)
  BY <1>1
<1>2. a \in d.plan /\ a \in options /\ a \in Options /\ a \in Actions
  BY DEF Actionable, Actions
<1> DEFINE r == [d EXCEPT !.chosen = a]
<1>3. Differs(d, r, {"chosen"}) /\ r.chosen = a
  BY CaseFields DEF Differs, Fields
<1>4. e = Decide(r, a, v)
  BY <1>w
<1> HIDE DEF r
<1>5. r \in Case
  BY <1>2, <1>3 DEF Case, Differs, Fields
<1>6. v \in Outcomes
  BY <1>2, JudgementsAreOutcomes
<1>7. e \in Case /\ Differs(r, e, {"verdict", "due"})
  BY <1>2, <1>4, <1>5, <1>6, DecideChanges
<1>8. Differs(d, e, {"chosen", "verdict", "due"}) /\ e.chosen = a
  BY <1>3, <1>7 DEF Differs, Fields
<1> QED BY <1>2, <1>7, <1>8

-----------------------------------------------------------------------------
(* The invariant *)

\* Where a case that is closed, or whose closure has been answered, may still be.
Late == {"record_chronic_pattern", "update_kpis_and_learning", "reconciliation_closure"}
Signing == Late \cup {"close_linked_records", "abandon_closure"}
\* Where a work order may be open: the visit, and the planning that has just committed it.
Visiting == Subgraphs.field_execution \cup {"field_planning"}
\* Where the plant crew may hold a request.
Following == Subgraphs.plant_execution \cup {"plant_execution", "plant_referral", "field_execution"}
Filing == {"file_plant_mr", "file_plant_referral_mr"}

\* What is under way only in its own stage of the graph.
Clear(p, d) ==
  /\ d.closure # "none" => p \in Late
  /\ d.answer["closure"] # "none" => p \in Signing
  /\ d.order = "open" => p \in Visiting
  /\ d.mr = "awaiting_osp" => p \in Following /\ ~(p = "field_execution" /\ d.finding = "done")
  /\ d.mr = "none" /\ d.answer["handover"] = "approved" => p \in Filing
  /\ d.retries < MaxReconciles

Consented(d, verdict, kind) ==
  \/ verdict = "allowed"
  \/ verdict \in Kinds /\ d.answer[kind] = "approved" /\ kind \notin d.due
Weighed(d, a) == d.verdict[a] \notin {"none", "blocked"}

Asking == {"prepare_remote_approval", "request_remote_approval",
           "prepare_self_help_approval", "request_self_help_approval"}
Attempting == {"execute_remote_repair", "send_self_help_instructions"}
Booking == {"prepare_dispatch_approval", "request_dispatch_approval", "commit_field_dispatch"}
HandingOver == {"build_handover_contract", "prepare_handover_approval", "request_handover_approval",
                "file_plant_mr"}
Referring == {"prepare_plant_referral_approval", "request_plant_referral_approval",
              "file_plant_referral_mr"}

\* What has been decided on the way to a place, about the fault and an attempt
Diagnosed == {"prepare_low_confidence_review", "request_low_confidence_review",
              "generate_resolution_options"}
Repairing(p, d) ==
  /\ p \in Diagnosed => d.dom \in Domains
  /\ p = "select_remote_action" => Actionable(d, Remote) # {}
  /\ p = "select_self_help_script" => Actionable(d, {Selfhelp}) # {}
  /\ p \in Asking \cup Attempting => d.chosen \in d.plan /\ d.chosen # Dispatch
  /\ p \in Asking => d.verdict[d.chosen] = "high_risk"
  /\ p \in Attempting => Consented(d, d.verdict[d.chosen], d.verdict[d.chosen])

\* about a visit, and a request to the plant,
Sending(p, d) ==
  /\ p \in Booking => Weighed(d, Dispatch) /\ Dispatch \notin d.tried
  /\ p = "commit_field_dispatch" => Consented(d, d.verdict[Dispatch], "dispatch")
  /\ p \in HandingOver \cup {"evaluate_handover_policy"} => d.finding # "done"
  /\ p \in HandingOver \cup Referring => Weighed(d, RaiseMR) /\ d.mrs < MaxMRs
  /\ p \in Referring => d.mr = "none"
  /\ p \in Filing /\ d.mr = "none" => Consented(d, d.verdict[RaiseMR], "handover")

\* and about the end of the case.
Proven(d) == d.fix /\ d.looks >= MinSamples /\ d.validation = "passed"
Closing == {"evaluate_closure_policy", "prepare_exceptional_closure_approval",
            "request_exceptional_closure_approval", "close_linked_records"}
Reconciling == {"reconcile_linked_systems", "hold_for_reconciliation_retry"}
Ending(p, d) ==
  /\ p = "restoration_validation" /\ d.validation = "passed" => Proven(d)
  /\ p = "confirm_customer_outcome" => Proven(d)
  /\ p \in Reconciling \cup Closing => Proven(d) /\ d.confirmed # "no"
  /\ p \in Closing => d.recon = "consistent"
  /\ p \in {"prepare_exceptional_closure_approval", "request_exceptional_closure_approval"} =>
       d.verdict[Close] = "closure"
  /\ p = "close_linked_records" =>
       \/ d.verdict[Close] = "allowed"
       \/ d.verdict[Close] = "closure" /\ d.answer["closure"] = "approved" /\ "closure" \notin d.due

Decided(p, d) == Repairing(p, d) /\ Sending(p, d) /\ Ending(p, d)
Here(p, d) == Clear(p, d) /\ Decided(p, d)

\* What holds of a case wherever it is.
Signed(d) ==
  d.closure # "none" =>
    /\ d.order # "open" /\ d.mr # "awaiting_osp"
    /\ (d.closure = "normal" => Proven(d) /\ d.confirmed # "no" /\ d.recon = "consistent")
    /\ (d.closure = "exceptional" => d.answer["closure"] = "approved" /\ "closure" \notin d.due)
Sound(d) == d \in Case /\ d.plan \cap d.tried = {} /\ Signed(d)

CaseInv == Sound(case) /\ (pc \in Stops \/ escalated \/ Here(pc, case))

-----------------------------------------------------------------------------
(* Steps *)

\* A node that writes, if what it leaves is right for the place it leads to.
LEMMA WriteKeeps ==
  ASSUME ControlInv, CaseInv, NEW n \in Nodes, NEW s, NEW esc, NEW e, NEW next,
         Write(n, s, esc, e, next),
         Here(n, case) => Sound(e) /\ (next \in Stops \/ esc \/ Here(next, e))
  PROVE  CaseInv'
<1>1. pc = n /\ Merge(n, TRUE, s, esc, e, next)
  BY DEF Write
<1>2. ~escalated /\ n \notin Stops
  BY <1>1, EndsAreNotNodes DEF ControlInv, EscalationStops
<1>3. Sound(e) /\ (next \in Stops \/ esc \/ Here(next, e))
  BY <1>1, <1>2 DEF CaseInv
<1>4. CASE CanTransition(status, s)
  <2>1. pc' = next /\ escalated' = esc /\ case' = e
    BY <1>1, <1>4 DEF Merge
  <2> QED BY <1>3, <2>1 DEF CaseInv
<1>5. CASE ~CanTransition(status, s)
  <2>1. pc' = "crash:status" /\ case' = case
    BY <1>1, <1>5 DEF Merge, Crash
  <2> QED BY <2>1 DEF CaseInv, Stops
<1> QED BY <1>4, <1>5

\* A node that raises leaves the case as it was.
LEMMA CrashKeepsCase ==
  ASSUME CaseInv, NEW why \in Stops, Crash(why)
  PROVE  CaseInv'
BY DEF CaseInv, Crash

\* Places where something may be under way.
Busy == Signing \cup Visiting \cup Following \cup Filing
\* Places that something must have been decided for.
Decisive == {"select_remote_action", "select_self_help_script", "evaluate_handover_policy",
             "restoration_validation", "confirm_customer_outcome"}
            \cup Diagnosed \cup Asking \cup Attempting \cup Booking \cup HandingOver
            \cup Referring \cup Filing \cup Reconciling \cup Closing
\* What matters of a case between two places that are neither, with two of the answers.
Lasting == {"order", "mr", "retries", "closure"}

\* The other places ask for nothing.
LEMMA NothingToDecide == ASSUME NEW p, p \notin Decisive, NEW d PROVE Decided(p, d)
<1>1. Repairing(p, d)
  BY DEF Repairing, Decisive
<1>2. Sending(p, d)
  BY DEF Sending, Decisive, Booking
<1>3. Ending(p, d)
  BY DEF Ending, Decisive, Closing
<1> QED BY <1>1, <1>2, <1>3 DEF Decided

\* From a node where nothing is under way, only what lasts matters.
LEMMA Passing ==
  ASSUME ControlInv, CaseInv, NEW n \in Nodes \ Busy, NEW s, NEW esc, NEW e, NEW next,
         Write(n, s, esc, e, next),
         Differs(case, e, Fields \ Lasting), e.plan \cap e.tried = {},
         \A k \in {"closure", "handover"} : e.answer[k] = case.answer[k],
         Here(n, case) => e \in Case /\ Decided(next, e)
  PROVE  CaseInv'
<1>1. /\ e.order = case.order /\ e.mr = case.mr
      /\ e.retries = case.retries /\ e.closure = case.closure
  <2>1. Lasting \subseteq Fields
    BY DEF Lasting, Fields
  <2>2. \A f \in Lasting : e[f] = case[f]
    BY <2>1 DEF Differs
  <2> QED BY <2>2 DEF Lasting
<1>2. ASSUME Here(n, case) PROVE Sound(e) /\ Here(next, e)
  <2>1. /\ case.closure = "none" /\ case.answer["closure"] = "none" /\ case.order # "open"
        /\ case.mr # "awaiting_osp"
        /\ ~(case.mr = "none" /\ case.answer["handover"] = "approved")
        /\ case.retries < MaxReconciles
    BY <1>2 DEF Here, Clear, Busy, Signing
  <2>2. Sound(e)
    BY <1>1, <1>2, <2>1 DEF Sound, Signed
  <2>3. Clear(next, e)
    BY <1>1, <2>1 DEF Clear
  <2> QED BY <1>2, <2>2, <2>3 DEF Here
<1> QED BY <1>2, WriteKeeps

\* The case is a case, and what is planned was never tried.
LEMMA CaseIsSound == ASSUME CaseInv PROVE case \in Case /\ case.plan \cap case.tried = {}
BY DEF CaseInv, Sound

\* Nodes where nothing is under way
Ordinary == ParentNodes \cup Subgraphs.remote_resolution \cup Subgraphs.self_help
            \cup Subgraphs.field_planning \cup Subgraphs.restoration_validation
            \cup Subgraphs.preventive_maintenance \cup Reconciling
            \cup (Closing \ {"close_linked_records"})
            \cup (Subgraphs.plant_referral \ {"file_plant_referral_mr"})

\* The ordinary nodes are nodes, and none is busy but with the plant crew.
LEMMA OrdinaryNodes == Ordinary \subseteq Nodes \ Busy
<1>1. Ordinary \subseteq Nodes
  <2>1. Reconciling \cup Closing \subseteq Subgraphs.reconciliation_closure
    BY DEF Reconciling, Closing, Subgraphs
  <2> QED BY <2>1, NodeNames, NameList DEF Ordinary
<1>2. ASSUME NEW n \in Ordinary PROVE n \notin Busy
  <2>1. n \notin Late /\ n \notin Signing /\ n \notin Filing
    BY DEF Ordinary, Late, Signing, Filing, ParentNodes, Subgraphs, Reconciling, Closing
  <2>2. n \notin Visiting
    BY DEF Ordinary, Visiting, ParentNodes, Subgraphs, Reconciling, Closing
  <2>3. n \notin Following
    BY DEF Ordinary, Following, ParentNodes, Subgraphs, Reconciling, Closing
  <2> QED BY <2>1, <2>2, <2>3 DEF Busy
<1> QED BY <1>1, <1>2

\* What differs in less differs in no more; two changes after one another add up.
LEMMA DiffersMore ==
  ASSUME NEW d, NEW e, NEW names, NEW more, names \subseteq more, Differs(d, e, names)
  PROVE  Differs(d, e, more)
BY DEF Differs

\* What changes in two steps is what the one or the other changes.
LEMMA DiffersTwice ==
  ASSUME NEW d, NEW e, NEW g, NEW names, NEW more, Differs(d, e, names), Differs(e, g, more)
  PROVE  Differs(d, g, names \cup more)
BY DEF Differs

\* What may change without anything that lasts, or that is planned, changing.
Minor == Fields \ (Lasting \cup {"plan", "tried", "answer"})

\* From such a node, to a place that asks for no more than is there.
LEMMA Onward ==
  ASSUME ControlInv, CaseInv, NEW n \in Ordinary, NEW s, NEW esc, NEW e \in Case, NEW next,
         Write(n, s, esc, e, next), NEW names \in SUBSET Minor, Differs(case, e, names),
         Here(n, case) => Decided(next, e)
  PROVE  CaseInv'
<1>1. n \in Nodes \ Busy
  BY OrdinaryNodes
<1>2. Differs(case, e, Fields \ Lasting)
  BY DiffersMore DEF Minor
<1>3. e.plan = case.plan /\ e.tried = case.tried /\ e.answer = case.answer
  <2>1. "plan" \in Fields \ names /\ "tried" \in Fields \ names /\ "answer" \in Fields \ names
    BY DEF Minor, Fields
  <2> QED BY <2>1 DEF Differs
<1>4. e.plan \cap e.tried = {}
  BY <1>3, CaseIsSound
<1> QED BY <1>1, <1>2, <1>3, <1>4, Passing

\* Where the diagnosis and the gates above it lead: to a repair only if one is actionable.
LEMMA AfterPlanning ==
  ASSUME NEW d PROVE Decided(RouteSafetyAndBlastRadius(d), d)
<1>1. \/ RouteSafetyAndBlastRadius(d) \in {"prepare_blast_radius_approval", "record_escalation",
            "evaluate_plant_referral", "build_field_requirement"}
      \/ /\ RouteSafetyAndBlastRadius(d) = "select_remote_action"
         /\ Actionable(d, Remote) # {}
      \/ /\ RouteSafetyAndBlastRadius(d) = "select_self_help_script"
         /\ Actionable(d, {Selfhelp}) # {}
  BY DEF RouteSafetyAndBlastRadius, RouteSharedOrPlant, RouteRemoteEligibility,
         RouteSelfHelpSuitability
<1>2. ASSUME NEW p \in {"prepare_blast_radius_approval", "record_escalation",
                        "evaluate_plant_referral", "build_field_requirement"}
      PROVE  p \notin Decisive
  BY DEF Decisive, Diagnosed, Asking, Attempting, Booking, HandingOver, Referring, Filing,
         Reconciling, Closing
<1>3. Actionable(d, Remote) # {} => Decided("select_remote_action", d)
  BY DEF Decided, Repairing, Sending, Ending, Diagnosed, Asking, Attempting, Booking, HandingOver,
         Referring, Filing, Reconciling, Closing
<1>4. Actionable(d, {Selfhelp}) # {} => Decided("select_self_help_script", d)
  BY DEF Decided, Repairing, Sending, Ending, Diagnosed, Asking, Attempting, Booking, HandingOver,
         Referring, Filing, Reconciling, Closing
<1> QED BY <1>1, <1>2, <1>3, <1>4, NothingToDecide

\* The other places the diagnosis and the stages around it lead to
Plain == {"END", "normalize_event", "resolve_identity_and_topology", "deduplicate_and_correlate",
          "assess_impact_and_priority", "create_or_attach_incident", "assess_predictive_risk",
          "assemble_case_evidence", "create_diagnostic_test_plan", "execute_read_only_tests",
          "determine_root_cause", "prepare_blast_radius_approval",
          "request_blast_radius_approval", "record_escalation", "evaluate_plant_referral",
          "build_field_requirement", "await_service_stability", "snapshot_post_fix_state",
          "assess_restoration", "optimize_field_schedule", "evaluate_dispatch_policy",
          "queue_for_dispatcher", "abandon_field_planning", "verify_remote_repair",
          "abandon_remote_action", "mark_awaiting_customer", "await_customer_response",
          "verify_self_help", "abandon_self_help", "abandon_plant_referral", "open_preventive_case",
          "plan_preventive_field_work", "apply_remote_prevention", "record_monitoring",
          "remote_resolution", "self_help", "field_planning", "field_execution", "plant_referral",
          "plant_execution", "reconciliation_closure", "preventive_maintenance",
          "open_field_visit", "capture_field_evidence", "close_clean_boots_visit",
          "determine_delimiter", "request_additional_field_tests", "abandon_handover",
          "search_plant_mr", "update_plant_mr", "capture_plant_evidence", "abandon_closure",
          "record_chronic_pattern", "update_kpis_and_learning"}

\* Nothing is decided on the way to a plain place.
LEMMA PlainPlaces == Plain \cap Decisive = {}
<1> SUFFICES ASSUME NEW p \in Plain PROVE p \notin Decisive
  OBVIOUS
<1>1. p \notin {"select_remote_action", "select_self_help_script", "evaluate_handover_policy",
                "restoration_validation", "confirm_customer_outcome"}
  BY DEF Plain
<1>2. p \notin Diagnosed /\ p \notin Asking /\ p \notin Attempting
  BY DEF Plain, Asking, Attempting, Diagnosed
<1>3. p \notin Booking /\ p \notin HandingOver
  BY DEF Plain, Booking, HandingOver
<1>4. p \notin Referring /\ p \notin Filing
  BY DEF Plain, Referring, Filing
<1>5. p \notin Reconciling /\ p \notin Closing
  BY DEF Plain, Reconciling, Closing
<1> QED BY <1>1, <1>2, <1>3, <1>4, <1>5 DEF Decisive

\* On to a plain place, with the case as it was.
LEMMA OnwardAsIs ==
  ASSUME ControlInv, CaseInv, NEW n \in Ordinary, NEW s, NEW esc, NEW next \in Plain,
         Write(n, s, esc, case, next)
  PROVE  CaseInv'
<1>1. case \in Case /\ Differs(case, case, {})
  BY CaseIsSound, CaseFields
<1> QED BY <1>1, PlainPlaces, NothingToDecide, Onward

\* Where a diagnosis leads: what it found is known there.
LEMMA AfterDiagnosis ==
  ASSUME NEW d, d.dom \in Domains PROVE Decided(RouteRcaConfidence(d), d)
<1>1. RouteRcaConfidence(d) \in Diagnosed \cup {"assemble_case_evidence"}
  BY DEF RouteRcaConfidence, Diagnosed
<1>2. ASSUME NEW p \in Diagnosed PROVE Decided(p, d)
  BY DEF Decided, Repairing, Sending, Ending, Diagnosed, Asking, Attempting, Booking, HandingOver,
         Referring, Filing, Reconciling, Closing
<1>3. Decided("assemble_case_evidence", d)
  BY PlainPlaces, NothingToDecide DEF Plain
<1> QED BY <1>1, <1>2, <1>3

\* A read of the service, then of the sources.
LEMMA ReadGathered ==
  ASSUME NEW d \in Case, NEW r \in Read(d), NEW e \in Gathered(r)
  PROVE  e \in Case /\ Differs(d, e, {"looks", "data"})
<1>1. r \in Case /\ Differs(d, r, {"looks"})
  BY ReadChanges
<1>2. e \in Case /\ Differs(r, e, {"data"})
  BY <1>1, GatheredChanges
<1>3. {"looks"} \cup {"data"} = {"looks", "data"}
  OBVIOUS
<1> QED BY <1>1, <1>2, <1>3, DiffersTwice

\* Looking at the sources on the way to a plain place.
LEMMA OnwardGathered ==
  ASSUME ControlInv, CaseInv, NEW n \in Ordinary, NEW s, NEW esc, NEW next \in Plain,
         NEW e \in Gathered(case), Write(n, s, esc, e, next)
  PROVE  CaseInv'
<1>1. e \in Case /\ Differs(case, e, {"data"})
  BY CaseIsSound, GatheredChanges
<1>2. {"data"} \in SUBSET Minor
  BY DEF Minor, Fields, Lasting
<1>3. Decided(next, e)
  BY PlainPlaces, NothingToDecide
<1> QED BY <1>1, <1>2, <1>3, Onward

\* After a validation that passed, and that nobody denies, the linked systems are reconciled.
LEMMA AfterValidation ==
  ASSUME NEW d, Proven(d), d.confirmed # "no", NEW p \in Reconciling PROVE Decided(p, d)
BY DEF Decided, Repairing, Sending, Ending, Diagnosed, Asking, Attempting, Booking, HandingOver,
       Referring, Filing, Reconciling, Closing

\* From such a node, with the answer to a question of another kind than a handover or a closure.
LEMMA AnsweredOnward ==
  ASSUME ControlInv, CaseInv, NEW n \in Ordinary, NEW s, NEW esc, NEW e \in Case, NEW next,
         Write(n, s, esc, e, next), NEW k \in Kinds \ {"closure", "handover"},
         NEW names \in SUBSET (Minor \cup {"answer"}), Differs(case, e, names),
         \A j \in Kinds \ {k} : e.answer[j] = case.answer[j],
         Here(n, case) => Decided(next, e)
  PROVE  CaseInv'
<1>1. n \in Nodes \ Busy
  BY OrdinaryNodes
<1>2. Differs(case, e, Fields \ Lasting)
  <2>1. Minor \cup {"answer"} \subseteq Fields \ Lasting
    BY DEF Minor, Fields, Lasting
  <2> QED BY <2>1, DiffersMore
<1>3. e.plan = case.plan /\ e.tried = case.tried
  <2>1. "plan" \in Fields \ names /\ "tried" \in Fields \ names
    BY DEF Minor, Fields
  <2> QED BY <2>1 DEF Differs
<1>4. e.plan \cap e.tried = {}
  BY <1>3, CaseIsSound
<1>5. \A j \in {"closure", "handover"} : e.answer[j] = case.answer[j]
  BY DEF Kinds
<1> QED BY <1>1, <1>2, <1>4, <1>5, Passing

-----------------------------------------------------------------------------
(* The stages *)

\* Every node of intake, diagnosis and the parent gates keeps the invariant.
LEMMA DiagnosisKeeps == ASSUME ControlInv, CaseInv, DiagnosisNext PROVE CaseInv'
<1> USE DEF Node, Quiet
<1>0. case \in Case /\ ParentNodes \subseteq Ordinary
  BY CaseIsSound DEF Ordinary
<1>1. CASE ReceiveSignal
  BY <1>0, <1>1, OnwardAsIs DEF ReceiveSignal, ParentNodes, Plain
<1>2. CASE NormalizeEvent
  BY <1>0, <1>2, OnwardGathered, ZenonT(40) DEF NormalizeEvent, ParentNodes, Plain
<1>3. CASE ResolveIdentityAndTopology
  BY <1>0, <1>3, OnwardGathered, ZenonT(40) DEF ResolveIdentityAndTopology, ParentNodes, Plain
<1>4. CASE DeduplicateAndCorrelate
  BY <1>0, <1>4, OnwardGathered DEF DeduplicateAndCorrelate, ParentNodes, Plain
<1>5. CASE AssessImpactAndPriority
  BY <1>0, <1>5, OnwardGathered DEF AssessImpactAndPriority, ParentNodes, Plain
<1>6. CASE CreateOrAttachIncident
  BY <1>0, <1>6, OnwardAsIs DEF CreateOrAttachIncident, ParentNodes, Plain
<1>7. CASE AssembleCaseEvidence
  <2>1. PICK read \in Read(case) : \E d \in Gathered(read) :
          Write("assemble_case_evidence", "diagnosing", escalated, d, RouteEvidenceSufficiency(d))
    BY <1>7 DEF AssembleCaseEvidence
  <2>2. PICK d \in Gathered(read) :
          Write("assemble_case_evidence", "diagnosing", escalated, d, RouteEvidenceSufficiency(d))
    BY <2>1
  <2>3. d \in Case /\ Differs(case, d, {"looks", "data"})
    BY <1>0, ReadGathered
  <2>4. {"looks", "data"} \in SUBSET Minor
    BY DEF Minor, Fields, Lasting
  <2>5. Decided(RouteEvidenceSufficiency(d), d)
    BY PlainPlaces, NothingToDecide DEF RouteEvidenceSufficiency, Plain
  <2>6. "assemble_case_evidence" \in Ordinary
    BY <1>0 DEF ParentNodes
  <2> QED BY <2>2, <2>3, <2>4, <2>5, <2>6, Onward
<1>8. CASE CreateDiagnosticTestPlan
  BY <1>0, <1>8, OnwardAsIs DEF CreateDiagnosticTestPlan, ParentNodes, Plain
<1>9. CASE ExecuteReadOnlyTests
  <2>1. PICK t \in Tests \cup {case.test} :
          Write("execute_read_only_tests", status, escalated, [case EXCEPT !.test = t],
                "determine_root_cause")
    BY <1>9 DEF ExecuteReadOnlyTests
  <2> DEFINE d == [case EXCEPT !.test = t]
  <2>2. Differs(case, d, {"test"}) /\ d.test = t
    BY <1>0, CaseFields DEF Differs, Fields
  <2>3. "execute_read_only_tests" \in Ordinary /\ {"test"} \in SUBSET Minor
    BY <1>0 DEF ParentNodes, Minor, Fields, Lasting
  <2>4. Write("execute_read_only_tests", status, escalated, d, "determine_root_cause")
    BY <2>1
  <2> HIDE DEF d
  <2>5. t \in Tests \cup {"none"}
    BY <1>0 DEF Case
  <2>6. d \in Case
    BY <1>0, <2>2, <2>5 DEF Case, Differs, Fields
  <2>7. Decided("determine_root_cause", d)
    BY PlainPlaces, NothingToDecide DEF Plain
  <2> QED BY <2>2, <2>3, <2>4, <2>6, <2>7, Onward
<1>10. CASE DetermineRootCause
  <2>1. PICK f \in Domains :
          LET d == [case EXCEPT !.dom = f]
          IN Write("determine_root_cause", "diagnosing", escalated, d, RouteRcaConfidence(d))
    BY <1>10 DEF DetermineRootCause
  <2> DEFINE d == [case EXCEPT !.dom = f]
  <2>2. Differs(case, d, {"dom"}) /\ d.dom = f
    BY <1>0, CaseFields DEF Differs, Fields
  <2>3. "determine_root_cause" \in Ordinary /\ {"dom"} \in SUBSET Minor
    BY <1>0 DEF ParentNodes, Minor, Fields, Lasting
  <2>4. Write("determine_root_cause", "diagnosing", escalated, d, RouteRcaConfidence(d))
    BY <2>1
  <2> HIDE DEF d
  <2>5. d \in Case
    BY <1>0, <2>2 DEF Case, Differs, Fields
  <2>6. Decided(RouteRcaConfidence(d), d)
    BY <2>2, AfterDiagnosis
  <2> QED BY <2>2, <2>3, <2>4, <2>5, <2>6, Onward
<1>11. CASE GenerateResolutionOptions
  <2> DEFINE d == [case EXCEPT !.plan = Offered[case.dom] \ case.tried, !.chosen = "none"]
  <2>1. Write("generate_resolution_options", status, escalated, d, RouteSafetyAndBlastRadius(d))
    BY <1>11 DEF GenerateResolutionOptions
  <2>2. /\ Differs(case, d, {"plan", "chosen"})
        /\ d.plan = Offered[case.dom] \ case.tried /\ d.chosen = "none" /\ d.tried = case.tried
    BY <1>0, CaseFields DEF Differs, Fields
  <2>3. "generate_resolution_options" \in Nodes \ Busy /\ {"plan", "chosen"} \subseteq Fields \ Lasting
    BY <1>0, OrdinaryNodes DEF ParentNodes, Fields, Lasting
  <2> HIDE DEF d
  <2>4. ASSUME Here("generate_resolution_options", case) PROVE case.dom \in Domains
    BY <2>4 DEF Here, Decided, Repairing, Diagnosed
  <2>5. case.dom \in Domains => Offered[case.dom] \subseteq Options
    BY CatalogueAssumption
  <2>6. case.dom \in Domains => d \in Case
    BY <1>0, <2>2, <2>5 DEF Case, Differs, Fields
  <2>7. Decided(RouteSafetyAndBlastRadius(d), d)
    BY AfterPlanning
  <2>8. d.answer = case.answer /\ d.plan \cap d.tried = {} /\ Differs(case, d, Fields \ Lasting)
    BY <2>2, <2>3, DiffersMore DEF Differs, Fields
  <2> QED BY <2>1, <2>3, <2>4, <2>6, <2>7, <2>8, Passing
<1>12. CASE PrepareLowConfidenceReview
  <2>1. Write("prepare_low_confidence_review", "awaiting_approval", escalated, case,
              "request_low_confidence_review")
    BY <1>12 DEF PrepareLowConfidenceReview
  <2>2. "prepare_low_confidence_review" \in Ordinary /\ {} \in SUBSET Minor
        /\ Differs(case, case, {})
    BY <1>0, CaseFields DEF ParentNodes
  <2>3. Here("prepare_low_confidence_review", case) => Decided("request_low_confidence_review", case)
    BY DEF Here, Decided, Repairing, Sending, Ending, Diagnosed, Asking, Attempting, Booking,
           HandingOver, Referring, Filing, Reconciling, Closing
  <2> QED BY <1>0, <2>1, <2>2, <2>3, Onward
<1>13. CASE RequestLowConfidenceReview
  <2>1. PICK ans \in Answers :
          LET d == Answered(case, "low_confidence", ans)
          IN Write("request_low_confidence_review", "diagnosing", escalated, d, RouteRcaConfidence(d))
    BY <1>13 DEF RequestLowConfidenceReview
  <2> DEFINE d == Answered(case, "low_confidence", ans)
  <2>2. /\ "low_confidence" \in Kinds \ {"closure", "handover"}
        /\ "request_low_confidence_review" \in Ordinary
        /\ {"answer", "due"} \in SUBSET (Minor \cup {"answer"})
    BY <1>0 DEF Kinds, ParentNodes, Minor, Fields, Lasting
  <2>3. Write("request_low_confidence_review", "diagnosing", escalated, d, RouteRcaConfidence(d))
    BY <2>1
  <2>4. d \in Case /\ Differs(case, d, {"answer", "due"})
        /\ \A j \in Kinds \ {"low_confidence"} : d.answer[j] = case.answer[j]
    BY <1>0, <2>2, AnsweredChanges
  <2> HIDE DEF d
  <2>5. Here("request_low_confidence_review", case) => case.dom \in Domains
    BY DEF Here, Decided, Repairing, Diagnosed
  <2>6. d.dom = case.dom
    BY <2>4 DEF Differs, Fields
  <2>7. Here("request_low_confidence_review", case) => Decided(RouteRcaConfidence(d), d)
    BY <2>5, <2>6, AfterDiagnosis
  <2> QED BY <2>2, <2>3, <2>4, <2>7, AnsweredOnward
<1>14. CASE PrepareBlastRadiusApproval
  <2>1. \/ Crash("crash:input")
        \/ Write("prepare_blast_radius_approval", "awaiting_approval", escalated, case,
                 "request_blast_radius_approval")
    BY <1>14 DEF PrepareBlastRadiusApproval, Needs
  <2> QED BY <1>0, <2>1, OnwardAsIs, CrashKeepsCase DEF ParentNodes, Plain, Stops
<1>15. CASE RequestBlastRadiusApproval
  <2>1. PICK ans \in Answers :
          LET d == Answered(case, "blast_radius", ans)
          IN Write("request_blast_radius_approval", "diagnosing", escalated, d,
                   RouteSafetyAndBlastRadius(d))
    BY <1>15 DEF RequestBlastRadiusApproval
  <2> DEFINE d == Answered(case, "blast_radius", ans)
  <2>2. /\ "blast_radius" \in Kinds \ {"closure", "handover"}
        /\ "request_blast_radius_approval" \in Ordinary
        /\ {"answer", "due"} \in SUBSET (Minor \cup {"answer"})
    BY <1>0 DEF Kinds, ParentNodes, Minor, Fields, Lasting
  <2>3. Write("request_blast_radius_approval", "diagnosing", escalated, d,
              RouteSafetyAndBlastRadius(d))
    BY <2>1
  <2>4. d \in Case /\ Differs(case, d, {"answer", "due"})
        /\ \A j \in Kinds \ {"blast_radius"} : d.answer[j] = case.answer[j]
    BY <1>0, <2>2, AnsweredChanges
  <2> HIDE DEF d
  <2> QED BY <2>2, <2>3, <2>4, AfterPlanning, AnsweredOnward
<1>16. CASE RecordEscalation
  BY <1>0, <1>16, OnwardAsIs DEF RecordEscalation, ParentNodes, Plain
<1>17. CASE ConfirmCustomerOutcome
  <2>1. \/ Crash("crash:input")
        \/ \E c \in {"yes", "no", case.confirmed} :
             LET d == [case EXCEPT !.confirmed = c]
             IN Write("confirm_customer_outcome", status, escalated, d, RouteResolution(d))
    BY <1>17 DEF ConfirmCustomerOutcome, Needs
  <2>2. CASE Crash("crash:input")
    BY <2>2, CrashKeepsCase DEF Stops
  <2>3. ASSUME NEW c \in {"yes", "no", case.confirmed}, NEW d, d = [case EXCEPT !.confirmed = c],
               Write("confirm_customer_outcome", status, escalated, d, RouteResolution(d))
        PROVE  CaseInv'
    <3>1. Differs(case, d, {"confirmed"}) /\ d.confirmed = c
      BY <1>0, <2>3, CaseFields DEF Differs, Fields
    <3>2. "confirm_customer_outcome" \in Ordinary /\ {"confirmed"} \in SUBSET Minor
      BY <1>0 DEF ParentNodes, Minor, Fields, Lasting
    <3>3. c \in {"unset", "yes", "no"}
      BY <1>0 DEF Case
    <3>4. d \in Case
      BY <1>0, <3>1, <3>3 DEF Case, Differs, Fields
    <3>5. Here("confirm_customer_outcome", case) => Proven(case)
      BY DEF Here, Decided, Ending
    <3>6. Proven(case) => Proven(d)
      BY <3>1 DEF Proven, Differs, Fields
    <3>7. ASSUME Proven(d) PROVE Decided(RouteResolution(d), d)
      <4>1. CASE d.confirmed # "no" /\ d.validation = "passed"
        <5>1. RouteResolution(d) \in Reconciling
          BY <4>1 DEF RouteResolution, Reconciling
        <5> QED BY <3>7, <4>1, <5>1, AfterValidation
      <4>2. CASE ~(d.confirmed # "no" /\ d.validation = "passed")
        BY <4>2, PlainPlaces, NothingToDecide DEF RouteResolution, Plain
      <4> QED BY <4>1, <4>2
    <3> QED BY <2>3, <3>1, <3>2, <3>4, <3>5, <3>6, <3>7, Onward
  <2> QED BY <2>1, <2>2, <2>3
<1> QED
  BY <1>1, <1>2, <1>3, <1>4, <1>5, <1>6, <1>7, <1>8, <1>9, <1>10, <1>11, <1>12, <1>13, <1>14,
     <1>15, <1>16, <1>17 DEF DiagnosisNext

\* A node that writes is where the run is, and what has been decided on the way there holds.
LEMMA WriterIsHere ==
  ASSUME ControlInv, CaseInv, NEW n \in Nodes, NEW s, NEW esc, NEW e, NEW next,
         Write(n, s, esc, e, next)
  PROVE  Here(n, case)
<1>1. pc = n /\ n \notin Stops
  BY EndsAreNotNodes DEF Write
<1> QED BY <1>1 DEF ControlInv, EscalationStops, CaseInv

\* Nothing but the attempt itself is decided on the way to its places.
LEMMA AttemptPlaces ==
  /\ Asking \cap Attempting = {}
  /\ \A p \in Asking \cup Attempting :
       /\ p \notin Diagnosed \cup {"select_remote_action", "select_self_help_script"}
       /\ \A d : Sending(p, d) /\ Ending(p, d)
<1>1. Asking \cap Attempting = {}
  BY DEF Asking, Attempting
<1>2. ASSUME NEW p \in Asking \cup Attempting, NEW d
      PROVE  /\ p \notin Diagnosed \cup {"select_remote_action", "select_self_help_script"}
             /\ Sending(p, d) /\ Ending(p, d)
  <2>1. p \notin Diagnosed \cup {"select_remote_action", "select_self_help_script"}
    BY DEF Asking, Attempting, Diagnosed
  <2>2. Sending(p, d)
    BY DEF Sending, Asking, Attempting, Booking, HandingOver, Referring, Filing
  <2>3. Ending(p, d)
    BY DEF Ending, Asking, Attempting, Reconciling, Closing
  <2> QED BY <2>1, <2>2, <2>3
<1> QED BY <1>1, <1>2

\* The gate of an attempt leads to it only with consent, and to a question only for a kind the gate
\* may ask about.
LEMMA AfterOptionGate ==
  ASSUME NEW d \in Case, d.chosen \in d.plan, d.chosen # Dispatch,
         NEW approve \in Asking, NEW act \in Attempting, NEW abandon \in Plain
  PROVE  Decided(OptionGate(d, approve, act, abandon), d)
<1> DEFINE v == d.verdict[d.chosen]
<1>1. Decided(abandon, d)
  BY PlainPlaces, NothingToDecide
<1>2. v \in Outcomes \cup {"none"} /\ d.due \subseteq Kinds
  BY DEF Case, Actions
<1>3. ASSUME v = "high_risk" PROVE Decided(approve, d)
  BY <1>3, AttemptPlaces DEF Decided, Repairing
<1>4. ASSUME Consented(d, v, v) PROVE Decided(act, d)
  BY <1>4, AttemptPlaces DEF Decided, Repairing
<1>5. CASE d.chosen = "none" \/ v \in {"none", "blocked"}
  <2>1. v \in {"none", "blocked"} => v # "allowed" /\ v \notin d.due
    BY <1>2 DEF Kinds
  <2> QED BY <1>1, <1>5, <2>1 DEF OptionGate
<1>6. CASE d.chosen # "none" /\ v = "allowed"
  <2>1. v \notin {"none", "blocked"} /\ v \notin d.due
    BY <1>2, <1>6 DEF Kinds
  <2> QED BY <1>4, <1>6, <2>1 DEF OptionGate, Consented
<1>7. CASE d.chosen # "none" /\ v \in Kinds
  <2>1. v \notin {"allowed", "none", "blocked"}
    BY <1>7 DEF Kinds
  <2>2. CASE v \in d.due
    <3>1. v \notin Dedicated => v = "high_risk"
      BY <1>7 DEF Dedicated
    <3> QED BY <1>1, <1>3, <1>7, <2>1, <2>2, <3>1 DEF OptionGate
  <2>3. CASE v \notin d.due
    BY <1>1, <1>4, <1>7, <2>1, <2>3 DEF OptionGate, Consented
  <2> QED BY <2>2, <2>3
<1> QED BY <1>2, <1>5, <1>6, <1>7 DEF Outcomes

\* A node that selects an option and asks its gate.
LEMMA SelectKeeps ==
  ASSUME ControlInv, CaseInv, NEW n \in Ordinary, NEW s, NEW esc,
         NEW options \in SUBSET (Options \ {Dispatch}), NEW e \in SelectOption(case, options),
         NEW approve \in Asking, NEW act \in Attempting, NEW abandon \in Plain,
         Write(n, s, esc, e, OptionGate(e, approve, act, abandon)),
         Here(n, case) => Actionable(case, options) # {}
  PROVE  CaseInv'
<1>1. Actionable(case, options) # {} /\ case \in Case
  BY OrdinaryNodes, WriterIsHere, CaseIsSound
<1>2. /\ e \in Case /\ Differs(case, e, {"chosen", "verdict", "due"})
      /\ e.chosen \in case.plan /\ e.chosen # Dispatch
  BY <1>1, SelectChanges
<1>3. e.plan = case.plan
  BY <1>2 DEF Differs, Fields
<1>4. Decided(OptionGate(e, approve, act, abandon), e)
  BY <1>2, <1>3, AfterOptionGate
<1>5. {"chosen", "verdict", "due"} \in SUBSET Minor
  BY DEF Minor, Fields, Lasting
<1> QED BY <1>2, <1>4, <1>5, Onward

\* A node that takes the answer about an attempt and asks its gate again.
LEMMA AskedKeeps ==
  ASSUME ControlInv, CaseInv, NEW n \in Ordinary \cap Asking, NEW s, NEW esc,
         NEW ans \in Answers, NEW e, e = AnsweredOnce(case, ans),
         NEW approve \in Asking, NEW act \in Attempting, NEW abandon \in Plain,
         Write(n, s, esc, e, OptionGate(e, approve, act, abandon))
  PROVE  CaseInv'
<1>1. case.chosen \in case.plan /\ case.chosen # Dispatch /\ case.verdict[case.chosen] = "high_risk"
  BY OrdinaryNodes, WriterIsHere DEF Here, Decided, Repairing
<1>2. /\ case \in Case /\ case.chosen \in Options
      /\ "high_risk" \in Kinds \ {"closure", "handover"}
  BY <1>1, CaseIsSound DEF Case, Kinds
<1>3. /\ e \in Case /\ Differs(case, e, {"answer", "due", "asked"})
      /\ \A j \in Kinds \ {"high_risk"} : e.answer[j] = case.answer[j]
  BY <1>1, <1>2, AnsweredOnceChanges
<1>4. e.plan = case.plan /\ e.chosen = case.chosen
  BY <1>3 DEF Differs, Fields
<1>5. Decided(OptionGate(e, approve, act, abandon), e)
  BY <1>1, <1>3, <1>4, AfterOptionGate
<1>6. {"answer", "due", "asked"} \in SUBSET (Minor \cup {"answer"})
  BY DEF Minor, Fields, Lasting
<1> QED BY <1>2, <1>3, <1>5, <1>6, AnsweredOnward

\* What an attempt leaves, whatever is noted next to it: less is planned, and nothing planned was
\* tried.
LEMMA AttemptLeaves ==
  ASSUME CaseInv, NEW a \in Options, NEW reached \in BOOLEAN, NEW g \in Gathered(case),
         NEW e, NEW names, Differs(Acted(g, a, reached), e, names),
         names \cap {"plan", "tried"} = {}
  PROVE  /\ e.plan \cap e.tried = {} /\ Acted(g, a, reached) \in Case
         /\ Differs(case, e, {"data", "fix", "looks", "tried", "plan", "asked"} \cup names)
<1> DEFINE r == Acted(g, a, reached)
<1>1. g \in Case /\ Differs(case, g, {"data"})
  BY CaseIsSound, GatheredChanges
<1>2. /\ r \in Case /\ Differs(g, r, {"fix", "looks", "tried", "plan", "asked"})
      /\ r.plan = g.plan \ {a} /\ r.tried \subseteq g.tried \cup {a}
  BY <1>1, ActedChanges
<1> HIDE DEF r
<1>3. g.plan = case.plan /\ g.tried = case.tried
  BY <1>1 DEF Differs, Fields
<1>4. e.plan = r.plan /\ e.tried = r.tried
  <2>1. "plan" \in Fields \ names /\ "tried" \in Fields \ names
    BY DEF Fields
  <2> QED BY <2>1 DEF Differs, r
<1>5. e.plan \cap e.tried = {}
  BY <1>2, <1>3, <1>4, CaseIsSound
<1>6. Differs(case, r, {"data", "fix", "looks", "tried", "plan", "asked"})
  <2>1. {"data"} \cup {"fix", "looks", "tried", "plan", "asked"}
          = {"data", "fix", "looks", "tried", "plan", "asked"}
    OBVIOUS
  <2> QED BY <1>1, <1>2, <2>1, DiffersTwice
<1>7. Differs(case, e, {"data", "fix", "looks", "tried", "plan", "asked"} \cup names)
  BY <1>6, DiffersTwice DEF r
<1> QED BY <1>2, <1>5, <1>7 DEF r

\* A node that attempts what was selected, and notes how it went.
LEMMA AttemptKeeps ==
  ASSUME ControlInv, CaseInv, NEW n \in Ordinary \cap Attempting, NEW s, NEW esc,
         NEW reached \in Reach, NEW g \in Gathered(case), NEW e \in Case, NEW next \in Plain,
         Differs(Acted(g, case.chosen, reached), e, {"ran", "session"}),
         Write(n, s, esc, e, next)
  PROVE  CaseInv'
<1>1. case.chosen \in case.plan /\ case \in Case
  BY OrdinaryNodes, WriterIsHere, CaseIsSound DEF Here, Decided, Repairing
<1>2. case.chosen \in Options /\ reached \in BOOLEAN
  BY <1>1, CatalogueAssumption DEF Case
<1>3. /\ e.plan \cap e.tried = {}
      /\ Differs(case, e, {"data", "fix", "looks", "tried", "plan", "asked"} \cup {"ran", "session"})
  BY <1>2, AttemptLeaves
<1>4. /\ Differs(case, e, Fields \ Lasting) /\ e.answer = case.answer
  <2>1. {"data", "fix", "looks", "tried", "plan", "asked"} \cup {"ran", "session"}
          \subseteq Fields \ (Lasting \cup {"answer"})
    BY DEF Fields, Lasting
  <2>2. Differs(case, e, Fields \ (Lasting \cup {"answer"}))
    BY <1>3, <2>1, DiffersMore
  <2>3. "answer" \in Fields \ (Fields \ (Lasting \cup {"answer"}))
    BY DEF Fields
  <2>4. e.answer = case.answer
    BY <2>2, <2>3 DEF Differs
  <2>5. Differs(case, e, Fields \ Lasting)
    BY <2>2, DiffersMore
  <2> QED BY <2>4, <2>5
<1>5. Decided(next, e)
  BY PlainPlaces, NothingToDecide
<1> QED BY <1>3, <1>4, <1>5, OrdinaryNodes, Passing

\* A node that puts the question about an attempt to a human, and the one that waits for the answer.
LEMMA PrepareKeeps ==
  ASSUME ControlInv, CaseInv, NEW n \in Ordinary \cap Asking, NEW s, NEW esc, NEW next \in Asking,
         Write(n, s, esc, case, next)
  PROVE  CaseInv'
<1>1. case \in Case /\ Differs(case, case, {}) /\ {} \in SUBSET Minor
  BY CaseIsSound, CaseFields
<1>2. Here(n, case) => Decided(next, case)
  BY AttemptPlaces DEF Here, Decided, Repairing
<1> QED BY <1>1, <1>2, Onward

\* Every node of remote repair keeps the invariant.
LEMMA RemoteKeeps == ASSUME ControlInv, CaseInv, RemoteNext PROVE CaseInv'
<1> USE DEF Node, Quiet, End
<1>0. case \in Case /\ Subgraphs.remote_resolution \subseteq Ordinary
  BY CaseIsSound DEF Ordinary
<1>1. /\ "select_remote_action" \in Ordinary /\ "abandon_remote_action" \in Ordinary \cap Plain
      /\ "prepare_remote_approval" \in Ordinary \cap Asking
      /\ "request_remote_approval" \in Ordinary \cap Asking
      /\ "execute_remote_repair" \in Ordinary \cap Attempting
      /\ "verify_remote_repair" \in Ordinary \cap Plain /\ "remote_resolution" \in Plain
  BY <1>0 DEF Subgraphs, Asking, Attempting, Plain
<1>2. CASE SelectRemoteAction
  <2>1. PICK d \in SelectOption(case, Remote) :
          Write("select_remote_action", status, escalated, d, RouteRemoteGate(d))
    BY <1>2 DEF SelectRemoteAction
  <2>2. Here("select_remote_action", case) => Actionable(case, Remote) # {}
    BY DEF Here, Decided, Repairing
  <2>3. Remote \in SUBSET (Options \ {Dispatch})
    BY CatalogueAssumption DEF Options
  <2> QED BY <1>1, <2>1, <2>2, <2>3, SelectKeeps DEF RouteRemoteGate
<1>3. CASE PrepareRemoteApproval
  BY <1>1, <1>3, PrepareKeeps DEF PrepareRemoteApproval
<1>4. CASE RequestRemoteApproval
  BY <1>1, <1>4, AskedKeeps DEF RequestRemoteApproval, RouteRemoteGate
<1>5. CASE AbandonRemoteAction
  BY <1>1, <1>5, OnwardAsIs DEF AbandonRemoteAction
<1>6. CASE ExecuteRemoteRepair
  <2>1. PICK g \in Gathered(case), reached \in Reach, worked \in BOOLEAN :
          Write("execute_remote_repair", "remote_resolution", escalated,
                [Acted(g, case.chosen, reached) EXCEPT !.ran = worked], "verify_remote_repair")
    BY <1>6 DEF ExecuteRemoteRepair
  <2> DEFINE r == Acted(g, case.chosen, reached)
             e == [r EXCEPT !.ran = worked]
  <2>2. case.chosen \in case.plan
    BY <1>1, <2>1, OrdinaryNodes, WriterIsHere DEF Here, Decided, Repairing
  <2>3. case.chosen \in Options /\ reached \in BOOLEAN /\ g \in Case
    BY <1>0, <2>2, GatheredChanges, CatalogueAssumption DEF Case
  <2>4. r \in Case
    BY <2>3, ActedChanges
  <2>5. Write("execute_remote_repair", "remote_resolution", escalated, e, "verify_remote_repair")
    BY <2>1
  <2> HIDE DEF r
  <2>6. Differs(r, e, {"ran"}) /\ e.ran = worked
    BY <2>4, CaseFields DEF Differs, Fields
  <2> HIDE DEF e
  <2>7. e \in Case
    BY <2>4, <2>6 DEF Case, Differs, Fields
  <2>8. Differs(r, e, {"ran", "session"})
    BY <2>6, DiffersMore
  <2> QED BY <1>1, <2>5, <2>7, <2>8, AttemptKeeps DEF r
<1>7. CASE VerifyRemoteRepair
  <2>1. PICK read \in Read(case), passed \in BOOLEAN : \E d \in Gathered(read) :
          Write("verify_remote_repair", status, escalated,
                [d EXCEPT !.fixed = @ \/ (d.ran /\ passed)], "remote_resolution")
    BY <1>7 DEF VerifyRemoteRepair
  <2>2. PICK d \in Gathered(read) :
          Write("verify_remote_repair", status, escalated,
                [d EXCEPT !.fixed = @ \/ (d.ran /\ passed)], "remote_resolution")
    BY <2>1
  <2>3. d \in Case /\ Differs(case, d, {"looks", "data"})
    BY <1>0, ReadGathered
  <2> DEFINE e == [d EXCEPT !.fixed = @ \/ (d.ran /\ passed)]
  <2>4. Differs(d, e, {"fixed"}) /\ e.fixed = (d.fixed \/ (d.ran /\ passed))
    BY <2>3, CaseFields DEF Differs, Fields
  <2>5. Write("verify_remote_repair", status, escalated, e, "remote_resolution")
    BY <2>2
  <2> HIDE DEF e
  <2>6. e.fixed \in BOOLEAN
    BY <2>4
  <2>7. e \in Case
    BY <2>3, <2>4, <2>6 DEF Case, Differs, Fields
  <2>8. Differs(case, e, {"looks", "data"} \cup {"fixed"})
    BY <2>3, <2>4, DiffersTwice
  <2>9. {"looks", "data"} \cup {"fixed"} \in SUBSET Minor
    BY DEF Minor, Fields, Lasting
  <2> QED BY <1>1, <2>5, <2>7, <2>8, <2>9, PlainPlaces, NothingToDecide, Onward
<1> QED BY <1>2, <1>3, <1>4, <1>5, <1>6, <1>7 DEF RemoteNext

\* A node that notes what became of the self-help session, after reading what it reads.
LEMMA SessionOnward ==
  ASSUME ControlInv, CaseInv, NEW n \in Ordinary, NEW s, NEW esc, NEW next \in Plain,
         NEW d \in Case, Differs(case, d, {"looks", "data"}),
         NEW v \in {"open", "completed", "resolved", "declined", "timed_out", "not_resolved"},
         NEW e, e = [d EXCEPT !.session = v],
         Write(n, s, esc, e, next)
  PROVE  CaseInv'
<1>1. Differs(d, e, {"session"}) /\ e.session = v
  BY CaseFields DEF Differs, Fields
<1>2. e \in Case
  BY <1>1 DEF Case, Differs, Fields
<1>3. Differs(case, e, {"looks", "data"} \cup {"session"})
  BY <1>1, DiffersTwice
<1>4. {"looks", "data"} \cup {"session"} \in SUBSET Minor
  BY DEF Minor, Fields, Lasting
<1>5. Decided(next, e)
  BY PlainPlaces, NothingToDecide
<1> QED BY <1>2, <1>3, <1>4, <1>5, Onward

\* Every node of self-help keeps the invariant.
LEMMA SelfHelpKeeps == ASSUME ControlInv, CaseInv, SelfHelpNext PROVE CaseInv'
<1> USE DEF Node, Quiet, End
<1>0. case \in Case /\ Subgraphs.self_help \subseteq Ordinary
  BY CaseIsSound DEF Ordinary
<1>1. /\ "select_self_help_script" \in Ordinary /\ "abandon_self_help" \in Ordinary \cap Plain
      /\ "prepare_self_help_approval" \in Ordinary \cap Asking
      /\ "request_self_help_approval" \in Ordinary \cap Asking
      /\ "send_self_help_instructions" \in Ordinary \cap Attempting
      /\ "mark_awaiting_customer" \in Ordinary \cap Plain
      /\ "await_customer_response" \in Ordinary \cap Plain
      /\ "verify_self_help" \in Ordinary \cap Plain /\ "self_help" \in Plain
  BY <1>0 DEF Subgraphs, Asking, Attempting, Plain
<1>2. CASE SelectSelfHelpScript
  <2>1. PICK d \in SelectOption(case, {Selfhelp}) :
          Write("select_self_help_script", status, escalated, d, RouteSelfHelpGate(d))
    BY <1>2 DEF SelectSelfHelpScript
  <2>2. Here("select_self_help_script", case) => Actionable(case, {Selfhelp}) # {}
    BY DEF Here, Decided, Repairing
  <2>3. {Selfhelp} \in SUBSET (Options \ {Dispatch})
    BY DEF Options, Selfhelp, Dispatch
  <2> QED BY <1>1, <2>1, <2>2, <2>3, SelectKeeps DEF RouteSelfHelpGate
<1>3. CASE PrepareSelfHelpApproval
  BY <1>1, <1>3, PrepareKeeps DEF PrepareSelfHelpApproval
<1>4. CASE RequestSelfHelpApproval
  BY <1>1, <1>4, AskedKeeps DEF RequestSelfHelpApproval, RouteSelfHelpGate
<1>5. CASE AbandonSelfHelp
  BY <1>1, <1>5, OnwardAsIs DEF AbandonSelfHelp
<1>6. CASE SendSelfHelpInstructions
  <2>1. PICK g \in Gathered(case), reached \in Reach :
          Write("send_self_help_instructions", "self_help", escalated,
                [Acted(g, case.chosen, reached) EXCEPT !.session = "open"], "mark_awaiting_customer")
    BY <1>6 DEF SendSelfHelpInstructions
  <2> DEFINE r == Acted(g, case.chosen, reached)
             e == [r EXCEPT !.session = "open"]
  <2>2. case.chosen \in case.plan
    BY <1>1, <2>1, OrdinaryNodes, WriterIsHere DEF Here, Decided, Repairing
  <2>3. case.chosen \in Options /\ reached \in BOOLEAN /\ g \in Case
    BY <1>0, <2>2, GatheredChanges, CatalogueAssumption DEF Case
  <2>4. r \in Case
    BY <2>3, ActedChanges
  <2>5. Write("send_self_help_instructions", "self_help", escalated, e, "mark_awaiting_customer")
    BY <2>1
  <2> HIDE DEF r
  <2>6. Differs(r, e, {"session"}) /\ e.session = "open"
    BY <2>4, CaseFields DEF Differs, Fields
  <2> HIDE DEF e
  <2>7. e \in Case
    BY <2>4, <2>6 DEF Case, Differs, Fields
  <2>8. Differs(r, e, {"ran", "session"})
    BY <2>6, DiffersMore
  <2> QED BY <1>1, <2>5, <2>7, <2>8, AttemptKeeps DEF r
<1>7. CASE MarkAwaitingCustomer
  <2>1. \/ Crash("crash:input")
        \/ Write("mark_awaiting_customer", "awaiting_customer", escalated, case,
                 "await_customer_response")
    BY <1>7 DEF MarkAwaitingCustomer, Needs
  <2> QED BY <1>1, <2>1, OnwardAsIs, CrashKeepsCase DEF Stops
<1>8. CASE AwaitCustomerResponse
  <2>1. \/ Crash("crash:input")
        \/ \E v \in {"open", "completed", "declined", "timed_out"} :
             Write("await_customer_response", status, escalated, [case EXCEPT !.session = v],
                   RouteCustomerAnswer([case EXCEPT !.session = v]))
    BY <1>8 DEF AwaitCustomerResponse, Needs
  <2>2. ASSUME NEW v \in {"open", "completed", "declined", "timed_out"}, NEW e,
               e = [case EXCEPT !.session = v],
               Write("await_customer_response", status, escalated, e, RouteCustomerAnswer(e))
        PROVE  CaseInv'
    <3>1. RouteCustomerAnswer(e) \in Plain
      BY DEF RouteCustomerAnswer, Plain
    <3>2. Differs(case, case, {"looks", "data"})
      BY <1>0, CaseFields DEF Differs
    <3> QED BY <1>0, <1>1, <2>2, <3>1, <3>2, SessionOnward
  <2> QED BY <2>1, <2>2, CrashKeepsCase DEF Stops
<1>9. CASE VerifySelfHelp
  <2>1. \/ Crash("crash:input")
        \/ \E read \in Read(case), v \in {"resolved", "not_resolved"} : \E d \in Gathered(read) :
             Write("verify_self_help", "self_help", escalated, [d EXCEPT !.session = v], "self_help")
    BY <1>9 DEF VerifySelfHelp, Needs
  <2>2. ASSUME NEW read \in Read(case), NEW v \in {"resolved", "not_resolved"},
               NEW d \in Gathered(read),
               Write("verify_self_help", "self_help", escalated, [d EXCEPT !.session = v],
                     "self_help")
        PROVE  CaseInv'
    <3>1. d \in Case /\ Differs(case, d, {"looks", "data"})
      BY <1>0, ReadGathered
    <3> QED BY <1>1, <2>2, <3>1, SessionOnward
  <2> QED BY <2>1, <2>2, CrashKeepsCase DEF Stops
<1> QED BY <1>2, <1>3, <1>4, <1>5, <1>6, <1>7, <1>8, <1>9 DEF SelfHelpNext

\* Nothing but the visit is decided on the way to the places it is booked at.
LEMMA BookingPlaces ==
  \A p \in Booking : \A d :
    /\ Repairing(p, d) /\ Ending(p, d)
    /\ p \notin HandingOver \cup Referring \cup Filing \cup {"evaluate_handover_policy"}
BY DEF Repairing, Ending, Booking, Diagnosed, Asking, Attempting, HandingOver, Referring, Filing,
       Reconciling, Closing

\* The gate of a visit leads to it only with consent, and nowhere near it once one was sent.
LEMMA AfterDispatchGate ==
  ASSUME NEW d \in Case, Weighed(d, Dispatch) => Dispatch \notin d.tried
  PROVE  Decided(RouteDispatchGate(d), d)
<1>1. \/ RouteDispatchGate(d) \in {"queue_for_dispatcher", "optimize_field_schedule"}
      \/ Weighed(d, Dispatch) /\ RouteDispatchGate(d) = "prepare_dispatch_approval"
      \/ /\ Weighed(d, Dispatch) /\ RouteDispatchGate(d) = "commit_field_dispatch"
         /\ Consented(d, d.verdict[Dispatch], "dispatch")
  <2>1. d.verdict[Dispatch] \in Outcomes \cup {"none"}
    BY DEF Case, Actions, Options
  <2>2. CASE d.verdict[Dispatch] \in {"none", "blocked"}
    BY <2>2 DEF RouteDispatchGate
  <2>3. CASE Weighed(d, Dispatch) /\ "dispatch" \in d.due
    BY <2>3 DEF RouteDispatchGate, Weighed
  <2>4. CASE Weighed(d, Dispatch) /\ "dispatch" \notin d.due
    <3>1. d.verdict[Dispatch] = "allowed" \/ d.verdict[Dispatch] \in Kinds
      BY <2>1, <2>4 DEF Weighed, Outcomes
    <3>2. CASE d.answer["dispatch"] = "approved"
      BY <2>4, <3>1, <3>2 DEF RouteDispatchGate, Weighed, Consented
    <3>3. CASE d.answer["dispatch"] # "approved"
      BY <2>4, <3>1, <3>3 DEF RouteDispatchGate, Weighed, Consented
    <3> QED BY <3>2, <3>3
  <2> QED BY <2>2, <2>3, <2>4 DEF Weighed
<1>2. ASSUME NEW p \in {"queue_for_dispatcher", "optimize_field_schedule"} PROVE Decided(p, d)
  BY PlainPlaces, NothingToDecide DEF Plain
<1>3. Weighed(d, Dispatch) => Decided("prepare_dispatch_approval", d)
  BY BookingPlaces DEF Decided, Sending, Booking
<1>4. Weighed(d, Dispatch) /\ Consented(d, d.verdict[Dispatch], "dispatch")
        => Decided("commit_field_dispatch", d)
  BY BookingPlaces DEF Decided, Sending, Booking
<1> QED BY <1>1, <1>2, <1>3, <1>4

\* Every node of field planning keeps the invariant.
LEMMA PlanningKeeps ==
  ASSUME ControlInv, CaseInv,
         \/ BuildFieldRequirement \/ OptimizeFieldSchedule \/ EvaluateDispatchPolicy
         \/ PrepareDispatchApproval \/ RequestDispatchApproval \/ CommitFieldDispatch
         \/ QueueForDispatcher \/ AbandonFieldPlanning
  PROVE  CaseInv'
<1> USE DEF Node, Quiet, End
<1>0. case \in Case /\ Subgraphs.field_planning \subseteq Ordinary /\ Dispatch \in Options
  BY CaseIsSound DEF Ordinary, Options
<1>1. /\ {"build_field_requirement", "evaluate_dispatch_policy", "prepare_dispatch_approval",
          "request_dispatch_approval", "commit_field_dispatch"} \subseteq Ordinary
      /\ {"optimize_field_schedule", "queue_for_dispatcher", "abandon_field_planning"}
           \subseteq Ordinary \cap Plain
      /\ {"evaluate_dispatch_policy", "field_planning"} \subseteq Plain
  BY <1>0 DEF Subgraphs, Plain
<1>2. CASE BuildFieldRequirement
  <2>1. ASSUME NEW d, Write("build_field_requirement", status, escalated, d, RouteFieldGate(d)),
               d = case \/ d = [case EXCEPT !.chosen = Dispatch]
        PROVE  CaseInv'
    <3>1. Differs(case, d, {"chosen"}) /\ d.chosen \in {case.chosen, Dispatch}
      BY <1>0, <2>1, CaseFields DEF Differs, Fields
    <3> HIDE <2>1
    <3>2. case.chosen \in Options \cup {"none"}
      BY <1>0 DEF Case
    <3>3. d \in Case
      BY <1>0, <3>1, <3>2 DEF Case, Differs, Fields
    <3>4. RouteFieldGate(d) \in Plain
      BY DEF RouteFieldGate, Plain
    <3>5. {"chosen"} \in SUBSET Minor
      BY DEF Minor, Fields, Lasting
    <3> QED BY <1>1, <2>1, <3>1, <3>3, <3>4, <3>5, PlainPlaces, NothingToDecide, Onward
  <2> QED BY <1>2, <2>1 DEF BuildFieldRequirement
<1>3. CASE OptimizeFieldSchedule
  BY <1>1, <1>3, OnwardGathered DEF OptimizeFieldSchedule
<1>4. CASE EvaluateDispatchPolicy
  <2>1. PICK v \in Judgements(case, Dispatch) :
          LET d == Decide(case, Dispatch, v)
          IN Write("evaluate_dispatch_policy", status, escalated, d, RouteDispatchGate(d))
    BY <1>4 DEF EvaluateDispatchPolicy
  <2> DEFINE d == Decide(case, Dispatch, v)
  <2>2. v \in Outcomes /\ (Dispatch \in case.tried \ case.plan => v = "blocked")
    BY <1>0, JudgementsAreOutcomes DEF Actions
  <2>3. d \in Case /\ Differs(case, d, {"verdict", "due"}) /\ d.verdict[Dispatch] = v
    BY <1>0, <2>2, DecideChanges DEF Actions
  <2>4. Write("evaluate_dispatch_policy", status, escalated, d, RouteDispatchGate(d))
    BY <2>1
  <2> HIDE DEF d
  <2>5. d.tried = case.tried
    BY <2>3 DEF Differs, Fields
  <2>6. Weighed(d, Dispatch) => Dispatch \notin d.tried
    BY <2>2, <2>3, <2>5, CaseIsSound DEF Weighed
  <2>7. {"verdict", "due"} \in SUBSET Minor
    BY DEF Minor, Fields, Lasting
  <2> QED BY <1>1, <2>3, <2>4, <2>6, <2>7, AfterDispatchGate, Onward
<1>5. CASE PrepareDispatchApproval
  <2>1. Write("prepare_dispatch_approval", "awaiting_approval", escalated, case,
              "request_dispatch_approval")
    BY <1>5 DEF PrepareDispatchApproval
  <2>2. Here("prepare_dispatch_approval", case) => Decided("request_dispatch_approval", case)
    BY BookingPlaces DEF Here, Decided, Sending, Booking
  <2>3. Differs(case, case, {}) /\ {} \in SUBSET Minor
    BY <1>0, CaseFields
  <2> QED BY <1>0, <1>1, <2>1, <2>2, <2>3, Onward
<1>6. CASE RequestDispatchApproval
  <2>1. PICK ans \in Answers :
          LET d == Answered(case, "dispatch", ans)
          IN Write("request_dispatch_approval", status, escalated, d, RouteDispatchGate(d))
    BY <1>6 DEF RequestDispatchApproval
  <2> DEFINE d == Answered(case, "dispatch", ans)
  <2>2. /\ "dispatch" \in Kinds \ {"closure", "handover"}
        /\ {"answer", "due"} \in SUBSET (Minor \cup {"answer"})
    BY DEF Kinds, Minor, Fields, Lasting
  <2>3. /\ d \in Case /\ Differs(case, d, {"answer", "due"})
        /\ \A j \in Kinds \ {"dispatch"} : d.answer[j] = case.answer[j]
    BY <1>0, <2>2, AnsweredChanges
  <2>4. Write("request_dispatch_approval", status, escalated, d, RouteDispatchGate(d))
    BY <2>1
  <2> HIDE DEF d
  <2>5. d.tried = case.tried
    BY <2>3 DEF Differs, Fields
  <2>6. Here("request_dispatch_approval", case) => Dispatch \notin case.tried
    BY DEF Here, Decided, Sending, Booking
  <2> QED BY <1>1, <2>2, <2>3, <2>4, <2>5, <2>6, AfterDispatchGate, AnsweredOnward
<1>7. CASE CommitFieldDispatch
  <2>1. PICK reached \in Reach :
          Write("commit_field_dispatch", "dispatch_planning", escalated,
                [Acted(case, Dispatch, reached) EXCEPT !.order = "open"], "field_planning")
    BY <1>7 DEF CommitFieldDispatch
  <2> DEFINE r == Acted(case, Dispatch, reached)
             e == [r EXCEPT !.order = "open"]
  <2>2. reached \in BOOLEAN /\ case \in Gathered(case)
    BY CatalogueAssumption DEF Gathered
  <2>3. r \in Case
    BY <1>0, <2>2, ActedChanges
  <2>4. Write("commit_field_dispatch", "dispatch_planning", escalated, e, "field_planning")
    BY <2>1
  <2> HIDE DEF r
  <2>5. Differs(r, e, {"order"}) /\ e.order = "open"
    BY <2>3, CaseFields DEF Differs, Fields
  <2> HIDE DEF e
  <2>6. e \in Case
    BY <2>3, <2>5 DEF Case, Differs, Fields
  <2>7. /\ e.plan \cap e.tried = {}
        /\ Differs(case, e, {"data", "fix", "looks", "tried", "plan", "asked"} \cup {"order"})
    BY <1>0, <2>2, <2>5, AttemptLeaves DEF r
  <2>8. /\ e.closure = case.closure /\ e.answer = case.answer /\ e.mr = case.mr
        /\ e.retries = case.retries
    BY <2>7 DEF Differs, Fields
  <2>9. ASSUME Here("commit_field_dispatch", case) PROVE Sound(e) /\ Here("field_planning", e)
    <3>1. "commit_field_dispatch" \notin Busy
      BY <1>1, OrdinaryNodes
    <3>2. /\ case.closure = "none" /\ case.answer["closure"] = "none" /\ case.mr # "awaiting_osp"
          /\ ~(case.mr = "none" /\ case.answer["handover"] = "approved")
          /\ case.retries < MaxReconciles
      BY <2>9, <3>1 DEF Here, Clear, Busy, Signing
    <3>3. Sound(e)
      BY <2>6, <2>7, <2>8, <3>2 DEF Sound, Signed
    <3>4. Clear("field_planning", e)
      BY <2>5, <2>8, <3>2 DEF Clear, Visiting
    <3> QED BY <1>1, <3>3, <3>4, PlainPlaces, NothingToDecide DEF Here
  <2> QED BY <1>1, <2>4, <2>9, OrdinaryNodes, WriteKeeps
<1>8. CASE QueueForDispatcher
  BY <1>1, <1>8, OnwardAsIs DEF QueueForDispatcher
<1>9. CASE AbandonFieldPlanning
  BY <1>1, <1>9, OnwardAsIs DEF AbandonFieldPlanning
<1> QED BY <1>2, <1>3, <1>4, <1>5, <1>6, <1>7, <1>8, <1>9

\* The nodes of a visit.
Visit == Subgraphs.field_execution

\* During a visit the work order may be open, and the plant crew holds nothing.
LEMMA VisitAnswered ==
  ASSUME ControlInv, CaseInv, NEW n \in Visit, NEW s, NEW esc, NEW e \in Case, NEW next,
         Write(n, s, esc, e, next),
         NEW names \in SUBSET (Fields \ {"closure", "mr", "retries", "plan", "tried"}),
         Differs(case, e, names), e.answer["closure"] = case.answer["closure"],
         next \in Visiting \/ e.order # "open",
         Here(n, case) =>
           /\ e.mr = "none" /\ e.answer["handover"] = "approved" => next \in Filing
           /\ Decided(next, e)
  PROVE  CaseInv'
<1>1. n \in Nodes
  BY NodeNames, NameList DEF Visit
<1>2. /\ e.closure = case.closure /\ e.mr = case.mr /\ e.retries = case.retries
      /\ e.plan = case.plan /\ e.tried = case.tried
  <2>1. {"closure", "mr", "retries", "plan", "tried"} \subseteq Fields \ names
    BY DEF Fields
  <2>2. \A f \in {"closure", "mr", "retries", "plan", "tried"} : e[f] = case[f]
    BY <2>1 DEF Differs
  <2> QED BY <2>2
<1>3. n \notin Signing /\ n \notin Late /\ n \notin Following
  BY DEF Visit, Signing, Late, Following, Subgraphs
<1>4. ASSUME Here(n, case) PROVE Sound(e) /\ Here(next, e)
  <2>1. /\ case.closure = "none" /\ case.answer["closure"] = "none"
        /\ case.mr # "awaiting_osp" /\ case.retries < MaxReconciles
    BY <1>3, <1>4 DEF Here, Clear
  <2>2. Sound(e)
    BY <1>2, <2>1, CaseIsSound DEF Sound, Signed
  <2>3. Clear(next, e)
    BY <1>2, <1>4, <2>1 DEF Clear
  <2> QED BY <1>4, <2>2, <2>3 DEF Here
<1> QED BY <1>1, <1>4, WriteKeeps

\* The same, from a node that neither records an answer nor files a request.
LEMMA VisitOnward ==
  ASSUME ControlInv, CaseInv, NEW n \in Visit \ {"file_plant_mr"}, NEW s, NEW esc, NEW e \in Case,
         NEW next, Write(n, s, esc, e, next),
         NEW names \in SUBSET (Fields \ {"closure", "answer", "mr", "retries", "plan", "tried"}),
         Differs(case, e, names),
         next \in Visiting \/ e.order # "open",
         Here(n, case) => Decided(next, e)
  PROVE  CaseInv'
<1>1. e.answer = case.answer /\ e.mr = case.mr
  <2>1. "answer" \in Fields \ names /\ "mr" \in Fields \ names
    BY DEF Fields
  <2> QED BY <2>1 DEF Differs
<1>2. n \notin Filing
  BY DEF Visit, Subgraphs, Filing
<1>3. Here(n, case) => ~(e.mr = "none" /\ e.answer["handover"] = "approved")
  BY <1>1, <1>2 DEF Here, Clear
<1>4. names \in SUBSET (Fields \ {"closure", "mr", "retries", "plan", "tried"})
  OBVIOUS
<1> QED BY <1>1, <1>3, <1>4, VisitAnswered

\* On to another node of the visit that asks for nothing, or out of it without an open order.
LEMMA VisitAsIs ==
  ASSUME ControlInv, CaseInv, NEW n \in Visit \ {"file_plant_mr"}, NEW s, NEW esc, NEW next \in Plain,
         Write(n, s, esc, case, next), next \in Visiting \/ case.order # "open"
  PROVE  CaseInv'
<1>1. Differs(case, case, {}) /\ case \in Case
  BY CaseIsSound, CaseFields
<1>2. {} \in SUBSET (Fields \ {"closure", "answer", "mr", "retries", "plan", "tried"})
  OBVIOUS
<1> QED BY <1>1, <1>2, PlainPlaces, NothingToDecide, VisitOnward

\* Nothing but the request is decided on the way to the places of a handover.
LEMMA HandoverPlaces ==
  \A p \in HandingOver \cup {"evaluate_handover_policy"} : \A d :
    /\ Repairing(p, d) /\ Ending(p, d)
    /\ p \notin Booking \cup Referring
BY DEF Repairing, Ending, Booking, Diagnosed, Asking, Attempting, HandingOver, Referring,
       Reconciling, Closing

\* The gate of a handover leads to the request only with an approval.
LEMMA AfterHandoverGate ==
  ASSUME NEW d \in Case, d.finding # "done", Weighed(d, RaiseMR) => d.mrs < MaxMRs,
         d.mr = "none" /\ d.answer["handover"] = "approved" => "handover" \notin d.due
  PROVE  Decided(RouteHandoverGate(d), d)
<1>1. \/ RouteHandoverGate(d) = "abandon_handover"
      \/ Weighed(d, RaiseMR) /\ RouteHandoverGate(d) = "build_handover_contract"
      \/ /\ Weighed(d, RaiseMR) /\ RouteHandoverGate(d) = "file_plant_mr"
         /\ d.answer["handover"] = "approved"
  BY DEF RouteHandoverGate, Weighed
<1>2. Decided("abandon_handover", d)
  BY PlainPlaces, NothingToDecide DEF Plain
<1>3. Weighed(d, RaiseMR) => Decided("build_handover_contract", d)
  BY HandoverPlaces DEF Decided, Sending, HandingOver, Filing
<1>4. ASSUME Weighed(d, RaiseMR), d.answer["handover"] = "approved"
      PROVE  Decided("file_plant_mr", d)
  <2>1. d.verdict[RaiseMR] = "allowed" \/ d.verdict[RaiseMR] \in Kinds
    BY <1>4 DEF Case, Actions, Weighed, Outcomes
  <2>2. d.mr = "none" => Consented(d, d.verdict[RaiseMR], "handover")
    BY <1>4, <2>1 DEF Consented
  <2> QED BY <1>4, <2>2, HandoverPlaces DEF Decided, Sending, HandingOver, Filing
<1> QED BY <1>1, <1>2, <1>3, <1>4

\* Every node of the visit keeps the invariant.
LEMMA VisitKeeps ==
  ASSUME ControlInv, CaseInv,
         \/ OpenFieldVisit \/ CaptureFieldEvidence \/ CloseCleanBootsVisit \/ DetermineDelimiter
         \/ RequestAdditionalFieldTests \/ EvaluateHandoverPolicy \/ BuildHandoverContract
         \/ PrepareHandoverApproval \/ RequestHandoverApproval \/ FilePlantMR \/ AbandonHandover
  PROVE  CaseInv'
<1> USE DEF Node, Quiet, End
<1> DEFINE Free == Fields \ {"closure", "answer", "mr", "retries", "plan", "tried"}
<1>0. case \in Case /\ "field_execution" \in Plain /\ "crash:input" \in Stops
  BY CaseIsSound DEF Plain, Stops
<1>1. /\ {"open_field_visit", "capture_field_evidence", "close_clean_boots_visit",
          "determine_delimiter", "request_additional_field_tests", "abandon_handover"}
            \subseteq Plain \cap (Visit \ {"file_plant_mr"})
      /\ HandingOver \cup {"evaluate_handover_policy"} \subseteq Visit
      /\ Visit \subseteq Visiting /\ Visit \subseteq Nodes
  BY NodeNames, NameList DEF Visit, Visiting, Subgraphs, Plain, HandingOver
<1>2. /\ {"evaluate_handover_policy", "build_handover_contract", "prepare_handover_approval",
          "request_handover_approval", "file_plant_mr"} = HandingOver \cup {"evaluate_handover_policy"}
      /\ "file_plant_mr" \in Filing
  BY DEF HandingOver, Filing
<1>3. \A p \in HandingOver \cup {"evaluate_handover_policy"} : Here(p, case) => case.finding # "done"
  BY DEF Here, Decided, Sending
<1>4. \A p \in HandingOver : Here(p, case) => Weighed(case, RaiseMR) /\ case.mrs < MaxMRs
  BY DEF Here, Decided, Sending
<1>5. CASE OpenFieldVisit
  BY <1>0, <1>1, <1>5, VisitAsIs DEF OpenFieldVisit
<1>6. CASE CaptureFieldEvidence
  <2>1. \/ Crash("crash:input")
        \/ \E f \in {"done", "unsure", "plant", case.finding} :
             LET d == [case EXCEPT !.finding = f]
             IN Write("capture_field_evidence", status, escalated, d,
                      IF f = "done" THEN "close_clean_boots_visit" ELSE "determine_delimiter")
    BY <1>6 DEF CaptureFieldEvidence, Needs
  <2>2. ASSUME NEW f \in {"done", "unsure", "plant", case.finding}, NEW d,
               d = [case EXCEPT !.finding = f],
               NEW next \in {"close_clean_boots_visit", "determine_delimiter"},
               Write("capture_field_evidence", status, escalated, d, next)
        PROVE  CaseInv'
    <3>1. Differs(case, d, {"finding"}) /\ d.finding = f
      BY <1>0, <2>2, CaseFields DEF Differs, Fields
    <3>2. f \in {"none", "done", "unsure", "plant"}
      BY <1>0 DEF Case
    <3>3. d \in Case
      BY <1>0, <3>1, <3>2 DEF Case, Differs, Fields
    <3>4. {"finding"} \in SUBSET Free /\ next \in Visiting /\ next \in Plain
      BY <1>1 DEF Fields
    <3> QED BY <1>1, <2>2, <3>1, <3>3, <3>4, PlainPlaces, NothingToDecide, VisitOnward
  <2> QED BY <1>0, <2>1, <2>2, CrashKeepsCase
<1>7. CASE CloseCleanBootsVisit
  <2>1. \/ Crash("crash:input")
        \/ \E f \in Domains :
             Write("close_clean_boots_visit", "validating", escalated,
                   [OrderClosed(case) EXCEPT !.dom = f], "field_execution")
    BY <1>7 DEF CloseCleanBootsVisit, Needs
  <2>2. ASSUME NEW f \in Domains, NEW d, d = [OrderClosed(case) EXCEPT !.dom = f],
               Write("close_clean_boots_visit", "validating", escalated, d, "field_execution")
        PROVE  CaseInv'
    <3> DEFINE r == OrderClosed(case)
    <3>1. r \in Case /\ Differs(case, r, {"fix", "looks", "order"}) /\ r.order # "open"
      BY <1>0, OrderClosedChanges
    <3>2. d = [r EXCEPT !.dom = f]
      BY <2>2
    <3> HIDE DEF r
    <3>3. Differs(r, d, {"dom"}) /\ d.dom = f /\ d.order # "open"
      BY <3>1, <3>2, CaseFields DEF Differs, Fields
    <3>4. d \in Case
      BY <3>1, <3>3 DEF Case, Differs, Fields
    <3>5. Differs(case, d, {"fix", "looks", "order"} \cup {"dom"})
      BY <3>1, <3>3, DiffersTwice
    <3>6. {"fix", "looks", "order"} \cup {"dom"} \in SUBSET Free
      BY DEF Fields
    <3> QED BY <1>0, <1>1, <2>2, <3>3, <3>4, <3>5, <3>6, PlainPlaces, NothingToDecide,
           VisitOnward, ZenonT(40)
  <2> QED BY <1>0, <2>1, <2>2, CrashKeepsCase
<1>8. CASE DetermineDelimiter
  <2>1. PICK f \in Domains \cup {case.dom} :
          Write("determine_delimiter", "field_in_progress", escalated, [case EXCEPT !.dom = f],
                IF case.finding = "plant" THEN "evaluate_handover_policy"
                ELSE "request_additional_field_tests")
    BY <1>8 DEF DetermineDelimiter
  <2> DEFINE d == [case EXCEPT !.dom = f]
             next == IF case.finding = "plant" THEN "evaluate_handover_policy"
                     ELSE "request_additional_field_tests"
  <2>2. Write("determine_delimiter", "field_in_progress", escalated, d, next)
    BY <2>1
  <2>3. Differs(case, d, {"dom"}) /\ d.dom = f
    BY <1>0, CaseFields DEF Differs, Fields
  <2> HIDE DEF d
  <2>4. f \in Domains \cup {"unknown"}
    BY <1>0 DEF Case
  <2>5. d \in Case /\ d.finding = case.finding
    BY <1>0, <2>3, <2>4 DEF Case, Differs, Fields
  <2>6. Decided(next, d)
    <3>1. CASE case.finding = "plant"
      <4>1. d.finding # "done"
        BY <2>5, <3>1
      <4>2. Sending("evaluate_handover_policy", d)
        BY <4>1 DEF Sending, Booking, HandingOver, Referring, Filing
      <4> QED BY <3>1, <4>2, HandoverPlaces DEF Decided
    <3>2. CASE case.finding # "plant"
      BY <1>1, <3>2, PlainPlaces, NothingToDecide
    <3> QED BY <3>1, <3>2
  <2>7. {"dom"} \in SUBSET Free /\ next \in Visiting
    BY <1>1 DEF Fields
  <2> QED BY <1>1, <2>2, <2>3, <2>5, <2>6, <2>7, VisitOnward
<1>9. CASE RequestAdditionalFieldTests
  BY <1>1, <1>9, VisitAsIs DEF RequestAdditionalFieldTests
<1>10. CASE EvaluateHandoverPolicy
  <2>1. \/ Crash("crash:input")
        \/ \E v \in Judgements(case, RaiseMR) :
             LET d == Decide(case, RaiseMR, v)
             IN Write("evaluate_handover_policy", status, escalated, d, RouteHandoverGate(d))
    BY <1>10 DEF EvaluateHandoverPolicy, Needs
  <2>2. ASSUME NEW v \in Judgements(case, RaiseMR), NEW d, d = Decide(case, RaiseMR, v),
               Write("evaluate_handover_policy", status, escalated, d, RouteHandoverGate(d))
        PROVE  CaseInv'
    <3>1. RaiseMR \in Actions /\ "evaluate_handover_policy" \in Visit \ {"file_plant_mr"}
      BY <1>1 DEF Actions
    <3>2. v \in Outcomes /\ (v # "blocked" => case.mrs < MaxMRs)
      BY <1>0, <3>1, JudgementsAreOutcomes
    <3>3. d \in Case /\ Differs(case, d, {"verdict", "due"}) /\ d.verdict[RaiseMR] = v
      BY <1>0, <2>2, <3>1, <3>2, DecideChanges
    <3> HIDE <2>2
    <3>4. /\ d.mrs = case.mrs /\ d.finding = case.finding /\ d.mr = case.mr
          /\ d.answer = case.answer
      BY <3>3 DEF Differs, Fields
    <3>5. Here("evaluate_handover_policy", case)
            => case.finding # "done" /\ ~(case.mr = "none" /\ case.answer["handover"] = "approved")
      BY <1>3 DEF Here, Clear, Filing
    <3>6. Here("evaluate_handover_policy", case) => Decided(RouteHandoverGate(d), d)
      BY <3>2, <3>3, <3>4, <3>5, AfterHandoverGate DEF Weighed
    <3>7. {"verdict", "due"} \in SUBSET Free
      BY DEF Fields
    <3>8. RouteHandoverGate(d) \in Visiting
      BY <1>1, <1>2 DEF RouteHandoverGate
    <3> QED BY <2>2, <3>1, <3>3, <3>6, <3>7, <3>8, VisitOnward
  <2> QED BY <1>0, <2>1, <2>2, CrashKeepsCase
<1>11. CASE BuildHandoverContract
  <2>1. \/ Crash("crash:input")
        \/ \E c \in {"complete", "partial"}, f \in Domains :
             Write("build_handover_contract", "awaiting_handover", escalated,
                   [case EXCEPT !.contract = c, !.dom = f],
                   IF c = "complete" THEN "prepare_handover_approval"
                   ELSE "request_additional_field_tests")
    BY <1>11 DEF BuildHandoverContract, Needs
  <2>2. ASSUME NEW c \in {"complete", "partial"}, NEW f \in Domains, NEW d,
               d = [case EXCEPT !.contract = c, !.dom = f],
               NEW next \in {"prepare_handover_approval", "request_additional_field_tests"},
               Write("build_handover_contract", "awaiting_handover", escalated, d, next)
        PROVE  CaseInv'
    <3>1. Differs(case, d, {"contract", "dom"}) /\ d.contract = c /\ d.dom = f
      BY <1>0, <2>2, CaseFields DEF Differs, Fields
    <3>2. d \in Case
      BY <1>0, <3>1 DEF Case, Differs, Fields
    <3>3. /\ "build_handover_contract" \in HandingOver /\ next \in Visiting
          /\ "build_handover_contract" \in Visit \ {"file_plant_mr"}
          /\ {"contract", "dom"} \in SUBSET Free
      BY <1>1 DEF HandingOver, Fields
    <3>4. ASSUME Here("build_handover_contract", case) PROVE Decided(next, d)
      <4>1. d.finding = case.finding /\ d.mrs = case.mrs /\ d.verdict = case.verdict
        BY <3>1 DEF Differs, Fields
      <4>2. d.finding # "done" /\ Weighed(d, RaiseMR) /\ d.mrs < MaxMRs
        BY <1>3, <1>4, <3>3, <3>4, <4>1 DEF Weighed
      <4>3. Decided("prepare_handover_approval", d)
        BY <4>2, HandoverPlaces DEF Decided, Sending, HandingOver, Filing
      <4>4. Decided("request_additional_field_tests", d)
        BY <1>1, PlainPlaces, NothingToDecide
      <4> QED BY <4>3, <4>4
    <3> QED BY <2>2, <3>1, <3>2, <3>3, <3>4, VisitOnward
  <2> QED BY <1>0, <2>1, <2>2, CrashKeepsCase
<1>12. CASE PrepareHandoverApproval
  <2>1. \/ Crash("crash:input")
        \/ Write("prepare_handover_approval", "awaiting_approval", escalated, case,
                 "request_handover_approval")
    BY <1>12 DEF PrepareHandoverApproval, Needs
  <2>2. /\ "prepare_handover_approval" \in HandingOver \ {"file_plant_mr"}
        /\ "request_handover_approval" \in Visiting
    BY <1>1 DEF HandingOver
  <2>3. Here("prepare_handover_approval", case) => Decided("request_handover_approval", case)
    BY <1>3, <1>4, <2>2, HandoverPlaces DEF Decided, Sending, HandingOver, Filing
  <2>4. Differs(case, case, {}) /\ {} \in SUBSET Free
    BY <1>0, CaseFields
  <2> QED BY <1>0, <1>1, <2>1, <2>2, <2>3, <2>4, VisitOnward, CrashKeepsCase
<1>13. CASE RequestHandoverApproval
  <2>1. PICK ans \in Answers :
          LET d == Answered(case, "handover", ans)
          IN Write("request_handover_approval", status, escalated, d, RouteHandoverGate(d))
    BY <1>13 DEF RequestHandoverApproval
  <2> DEFINE d == Answered(case, "handover", ans)
  <2>2. /\ "handover" \in Kinds /\ "closure" \in Kinds \ {"handover"}
        /\ "request_handover_approval" \in HandingOver
    BY DEF Kinds, HandingOver
  <2>3. /\ d \in Case /\ Differs(case, d, {"answer", "due"})
        /\ d.answer["handover"] = ans /\ d.due = case.due \ {"handover"}
        /\ \A j \in Kinds \ {"handover"} : d.answer[j] = case.answer[j]
    BY <1>0, <2>2, AnsweredChanges
  <2>4. Write("request_handover_approval", status, escalated, d, RouteHandoverGate(d))
    BY <2>1
  <2> HIDE DEF d
  <2>5. /\ d.mrs = case.mrs /\ d.finding = case.finding /\ d.verdict = case.verdict
    BY <2>3 DEF Differs, Fields
  <2>6. {"answer", "due"} \in SUBSET (Fields \ {"closure", "mr", "retries", "plan", "tried"})
    BY DEF Fields
  <2>7. RouteHandoverGate(d) \in Visiting
    BY <1>1, <1>2 DEF RouteHandoverGate
  <2>8. ASSUME Here("request_handover_approval", case)
        PROVE  /\ d.mr = "none" /\ d.answer["handover"] = "approved" => RouteHandoverGate(d) \in Filing
               /\ Decided(RouteHandoverGate(d), d)
    <3>1. d.finding # "done" /\ Weighed(d, RaiseMR) /\ d.mrs < MaxMRs
      BY <1>3, <1>4, <2>2, <2>5, <2>8 DEF Weighed
    <3>2. Decided(RouteHandoverGate(d), d)
      BY <2>3, <3>1, AfterHandoverGate
    <3>3. d.answer["handover"] = "approved" => RouteHandoverGate(d) = "file_plant_mr"
      BY <3>1 DEF RouteHandoverGate, Weighed
    <3> QED BY <1>2, <3>2, <3>3
  <2>9. d.answer["closure"] = case.answer["closure"]
    BY <2>2, <2>3
  <2> QED BY <1>1, <2>2, <2>3, <2>4, <2>6, <2>7, <2>8, <2>9, VisitAnswered
<1>14. CASE FilePlantMR
  <2>1. \/ Crash("crash:input")
        \/ \E reached \in Reach :
             Write("file_plant_mr", "mr_raised", escalated,
                   [Submitted(OrderClosed(case), reached) EXCEPT !.contract = "accepted"],
                   "field_execution")
    BY <1>14 DEF FilePlantMR, Needs
  <2>2. ASSUME NEW reached \in Reach, NEW d,
               d = [Submitted(OrderClosed(case), reached) EXCEPT !.contract = "accepted"],
               Write("file_plant_mr", "mr_raised", escalated, d, "field_execution")
        PROVE  CaseInv'
    <3> DEFINE r == OrderClosed(case)
               t == Submitted(r, reached)
    <3>1. r \in Case /\ Differs(case, r, {"fix", "looks", "order"}) /\ r.order # "open"
      BY <1>0, OrderClosedChanges
    <3>2. "file_plant_mr" \in HandingOver /\ "file_plant_mr" \in Nodes
      BY <1>1 DEF HandingOver
    <3>3. Here("file_plant_mr", case)
      BY <2>2, <3>2, WriterIsHere
    <3>4. case.mrs < MaxMRs /\ case.finding # "done"
      BY <1>3, <1>4, <3>2, <3>3
    <3>5. r.mrs = case.mrs
      BY <3>1 DEF Differs, Fields
    <3>6. reached \in BOOLEAN
      BY CatalogueAssumption
    <3> HIDE DEF r
    <3>7. t \in Case /\ Differs(r, t, {"fix", "looks", "mr", "mrs"}) /\ t.mr = "awaiting_osp"
      BY <3>1, <3>4, <3>5, <3>6, SubmittedChanges
    <3>8. d = [t EXCEPT !.contract = "accepted"]
      BY <2>2 DEF r
    <3> HIDE DEF t
    <3>9. Differs(t, d, {"contract"}) /\ d.contract = "accepted"
      BY <3>7, <3>8, CaseFields DEF Differs, Fields
    <3>10. d \in Case
      BY <3>7, <3>9 DEF Case, Differs, Fields
    <3>11. /\ d.order # "open" /\ d.mr = "awaiting_osp" /\ d.finding = case.finding
           /\ d.closure = case.closure /\ d.answer = case.answer /\ d.retries = case.retries
           /\ d.plan = case.plan /\ d.tried = case.tried
      BY <3>1, <3>7, <3>9 DEF Differs, Fields
    <3>12. case.closure = "none" /\ case.answer["closure"] = "none" /\ case.retries < MaxReconciles
      BY <3>3 DEF Here, Clear, Signing, Late
    <3>13. Sound(d)
      BY <3>10, <3>11, <3>12, CaseIsSound DEF Sound, Signed
    <3>14. Clear("field_execution", d)
      BY <3>4, <3>11, <3>12 DEF Clear, Following
    <3>15. Decided("field_execution", d)
      BY <1>0, PlainPlaces, NothingToDecide
    <3> QED BY <2>2, <3>2, <3>13, <3>14, <3>15, WriteKeeps DEF Here
  <2> QED BY <1>0, <2>1, <2>2, CrashKeepsCase
<1>15. CASE AbandonHandover
  <2> DEFINE r == OrderClosed(case)
             d == [r EXCEPT !.contract = IF @ = "none" THEN @ ELSE "rejected"]
  <2>1. Write("abandon_handover", "diagnosing", escalated, d, "field_execution")
    BY <1>15 DEF AbandonHandover
  <2>2. r \in Case /\ Differs(case, r, {"fix", "looks", "order"}) /\ r.order # "open"
    BY <1>0, OrderClosedChanges
  <2> HIDE DEF r
  <2>3. /\ Differs(r, d, {"contract"}) /\ d.order # "open"
        /\ d.contract = IF r.contract = "none" THEN r.contract ELSE "rejected"
    BY <2>2, CaseFields DEF Differs, Fields
  <2> HIDE DEF d
  <2>4. d.contract \in {"none", "complete", "partial", "accepted", "rejected"}
    BY <2>3
  <2>5. d \in Case
    BY <2>2, <2>3, <2>4 DEF Case, Differs, Fields
  <2>6. Differs(case, d, {"fix", "looks", "order"} \cup {"contract"})
    BY <2>2, <2>3, DiffersTwice
  <2>7. {"fix", "looks", "order"} \cup {"contract"} \in SUBSET Free
    BY DEF Fields
  <2> QED BY <1>0, <1>1, <2>1, <2>3, <2>5, <2>6, <2>7, PlainPlaces, NothingToDecide, VisitOnward
<1> QED BY <1>5, <1>6, <1>7, <1>8, <1>9, <1>10, <1>11, <1>12, <1>13, <1>14, <1>15

\* Every node of field work keeps the invariant.
LEMMA FieldKeeps == ASSUME ControlInv, CaseInv, FieldNext PROVE CaseInv'
BY PlanningKeeps, VisitKeeps DEF FieldNext

\* Nothing but the request is decided on the way to the places of a referral.
LEMMA ReferralPlaces ==
  \A p \in Referring : \A d :
    /\ Repairing(p, d) /\ Ending(p, d)
    /\ p \notin Booking \cup HandingOver \cup {"evaluate_handover_policy", "commit_field_dispatch"}
BY DEF Repairing, Ending, Booking, Diagnosed, Asking, Attempting, HandingOver, Referring,
       Reconciling, Closing

\* The gate of a referral leads to the request only with an approval, for a case that holds none.
LEMMA AfterReferralGate ==
  ASSUME NEW d \in Case, d.mr = "none" /\ Weighed(d, RaiseMR) => d.mrs < MaxMRs,
         d.mr = "none" /\ d.answer["handover"] = "approved" => "handover" \notin d.due
  PROVE  Decided(RoutePlantReferralGate(d), d)
<1> USE DEF End
<1>1. \/ RoutePlantReferralGate(d) \in {"plant_referral", "abandon_plant_referral"}
      \/ /\ d.mr = "none" /\ Weighed(d, RaiseMR)
         /\ RoutePlantReferralGate(d) = "prepare_plant_referral_approval"
      \/ /\ d.mr = "none" /\ Weighed(d, RaiseMR) /\ d.answer["handover"] = "approved"
         /\ RoutePlantReferralGate(d) = "file_plant_referral_mr"
  BY DEF RoutePlantReferralGate, Weighed
<1>2. ASSUME NEW p \in {"plant_referral", "abandon_plant_referral"} PROVE Decided(p, d)
  BY PlainPlaces, NothingToDecide DEF Plain
<1>3. d.mr = "none" /\ Weighed(d, RaiseMR) => Decided("prepare_plant_referral_approval", d)
  BY ReferralPlaces DEF Decided, Sending, Referring, Filing
<1>4. ASSUME d.mr = "none", Weighed(d, RaiseMR), d.answer["handover"] = "approved"
      PROVE  Decided("file_plant_referral_mr", d)
  <2>1. d.verdict[RaiseMR] = "allowed" \/ d.verdict[RaiseMR] \in Kinds
    BY <1>4 DEF Case, Actions, Weighed, Outcomes
  <2>2. Consented(d, d.verdict[RaiseMR], "handover")
    BY <1>4, <2>1 DEF Consented
  <2> QED BY <1>4, <2>2, ReferralPlaces DEF Decided, Sending, Referring, Filing
<1> QED BY <1>1, <1>2, <1>3, <1>4

\* While the plant crew is followed, the request may be with it; nothing else is open.
LEMMA FollowOnward ==
  ASSUME ControlInv, CaseInv, NEW n \in Subgraphs.plant_execution, NEW s, NEW esc, NEW e \in Case,
         NEW next \in Plain, Write(n, s, esc, e, next), Differs(case, e, {"fix", "looks", "due", "mr"}),
         e.mr = "none" => case.mr = "none",
         e.mr = "awaiting_osp" => next \in Following \ {"field_execution"}
  PROVE  CaseInv'
<1>1. n \in Nodes
  BY NodeNames, NameList
<1>2. /\ e.closure = case.closure /\ e.retries = case.retries /\ e.answer = case.answer
      /\ e.plan = case.plan /\ e.tried = case.tried /\ e.order = case.order
  BY DEF Differs, Fields
<1>3. n \notin Signing /\ n \notin Late /\ n \notin Visiting /\ n \notin Filing
  BY DEF Visiting, Signing, Late, Filing, Subgraphs
<1>4. ASSUME Here(n, case) PROVE Sound(e) /\ Here(next, e)
  <2>1. /\ case.closure = "none" /\ case.answer["closure"] = "none"
        /\ case.order # "open" /\ case.retries < MaxReconciles
        /\ ~(case.mr = "none" /\ case.answer["handover"] = "approved")
    BY <1>3, <1>4 DEF Here, Clear
  <2>2. Sound(e)
    BY <1>2, <2>1, CaseIsSound DEF Sound, Signed
  <2>3. Clear(next, e)
    BY <1>2, <2>1 DEF Clear
  <2> QED BY <2>2, <2>3, PlainPlaces, NothingToDecide DEF Here
<1> QED BY <1>1, <1>4, WriteKeeps

\* Every node of plant referral and execution keeps the invariant.
LEMMA PlantKeeps == ASSUME ControlInv, CaseInv, PlantNext PROVE CaseInv'
<1> USE DEF Node, Quiet, End
<1>0. /\ case \in Case /\ Subgraphs.plant_referral \ {"file_plant_referral_mr"} \subseteq Ordinary
      /\ "crash:input" \in Stops
  BY CaseIsSound DEF Ordinary, Stops
<1>1. /\ "evaluate_plant_referral" \in Ordinary
      /\ "prepare_plant_referral_approval" \in Ordinary \cap Referring
      /\ "request_plant_referral_approval" \in Ordinary \cap Referring
      /\ "file_plant_referral_mr" \in Nodes \cap Referring
      /\ "abandon_plant_referral" \in Ordinary \cap Plain
      /\ {"search_plant_mr", "update_plant_mr", "capture_plant_evidence"}
           \subseteq Subgraphs.plant_execution \cap Plain
      /\ {"plant_referral", "plant_execution"} \subseteq Plain
      /\ Subgraphs.plant_execution \cup {"plant_execution"} \subseteq Following \ {"field_execution"}
  BY <1>0, NodeNames, NameList DEF Subgraphs, Plain, Referring, Following
<1>2. RaiseMR \in Actions
  BY DEF Actions
<1>3. \A p \in Referring : Here(p, case) =>
        Weighed(case, RaiseMR) /\ case.mrs < MaxMRs /\ case.mr = "none"
  BY DEF Here, Decided, Sending
<1>4. CASE EvaluatePlantReferral
  <2>1. ASSUME case.mr # "none",
               Write("evaluate_plant_referral", status, escalated, case, RoutePlantReferralGate(case))
        PROVE  CaseInv'
    <3>1. RoutePlantReferralGate(case) = "plant_referral"
      BY <2>1 DEF RoutePlantReferralGate
    <3> QED BY <1>1, <2>1, <3>1, OnwardAsIs
  <2>2. ASSUME case.mr = "none", NEW v \in Judgements(case, RaiseMR), NEW d,
               d = Decide(case, RaiseMR, v),
               Write("evaluate_plant_referral", status, escalated, d, RoutePlantReferralGate(d))
        PROVE  CaseInv'
    <3>1. Here("evaluate_plant_referral", case)
      BY <1>1, <2>2, OrdinaryNodes, WriterIsHere
    <3>2. ~(case.mr = "none" /\ case.answer["handover"] = "approved")
      BY <3>1 DEF Here, Clear, Filing
    <3>3. v \in Outcomes /\ (v # "blocked" => case.mrs < MaxMRs)
      BY <1>0, <1>2, JudgementsAreOutcomes
    <3>4. d \in Case /\ Differs(case, d, {"verdict", "due"}) /\ d.verdict[RaiseMR] = v
      BY <1>0, <1>2, <2>2, <3>3, DecideChanges
    <3>5. d.mrs = case.mrs /\ d.mr = case.mr /\ d.answer = case.answer
      BY <3>4 DEF Differs, Fields
    <3>6. Decided(RoutePlantReferralGate(d), d)
      BY <3>2, <3>3, <3>4, <3>5, AfterReferralGate DEF Weighed
    <3>7. {"verdict", "due"} \in SUBSET Minor
      BY DEF Minor, Fields, Lasting
    <3> QED BY <1>1, <2>2, <3>4, <3>6, <3>7, Onward
  <2> QED BY <1>4, <2>1, <2>2 DEF EvaluatePlantReferral
<1>5. CASE PreparePlantReferralApproval
  <2>1. Write("prepare_plant_referral_approval", "awaiting_approval", escalated, case,
              "request_plant_referral_approval")
    BY <1>5 DEF PreparePlantReferralApproval
  <2>2. Here("prepare_plant_referral_approval", case)
          => Decided("request_plant_referral_approval", case)
    BY <1>1, <1>3, ReferralPlaces DEF Decided, Sending, Filing
  <2>3. Differs(case, case, {}) /\ {} \in SUBSET Minor
    BY <1>0, CaseFields
  <2> QED BY <1>0, <1>1, <2>1, <2>2, <2>3, Onward
<1>6. CASE RequestPlantReferralApproval
  <2>1. PICK ans \in Answers :
          LET d == Answered(case, "handover", ans)
          IN Write("request_plant_referral_approval", status, escalated, d, RoutePlantReferralGate(d))
    BY <1>6 DEF RequestPlantReferralApproval
  <2> DEFINE d == Answered(case, "handover", ans)
  <2>2. "handover" \in Kinds /\ "closure" \in Kinds \ {"handover"}
    BY DEF Kinds
  <2>3. /\ d \in Case /\ Differs(case, d, {"answer", "due"})
        /\ d.answer["handover"] = ans /\ d.due = case.due \ {"handover"}
        /\ \A j \in Kinds \ {"handover"} : d.answer[j] = case.answer[j]
    BY <1>0, <2>2, AnsweredChanges
  <2>4. Write("request_plant_referral_approval", status, escalated, d, RoutePlantReferralGate(d))
    BY <2>1
  <2> HIDE DEF d
  <2>5. /\ d.mrs = case.mrs /\ d.verdict = case.verdict /\ d.mr = case.mr /\ d.order = case.order
        /\ d.closure = case.closure /\ d.retries = case.retries
        /\ d.plan = case.plan /\ d.tried = case.tried
    BY <2>3 DEF Differs, Fields
  <2>6. ASSUME Here("request_plant_referral_approval", case)
        PROVE  Sound(d) /\ Here(RoutePlantReferralGate(d), d)
    <3>1. Weighed(d, RaiseMR) /\ d.mrs < MaxMRs /\ d.mr = "none"
      BY <1>1, <1>3, <2>5, <2>6 DEF Weighed
    <3>2. Decided(RoutePlantReferralGate(d), d)
      BY <2>3, <3>1, AfterReferralGate
    <3>3. /\ case.closure = "none" /\ case.answer["closure"] = "none" /\ case.order # "open"
          /\ case.retries < MaxReconciles
      BY <1>1, <2>6, OrdinaryNodes DEF Here, Clear, Busy, Signing
    <3>4. Sound(d)
      BY <2>3, <2>5, <3>3, CaseIsSound DEF Sound, Signed
    <3>5. d.answer["handover"] = "approved" => RoutePlantReferralGate(d) \in Filing
      BY <3>1 DEF RoutePlantReferralGate, Weighed, Filing
    <3>6. d.answer["closure"] = "none"
      BY <2>2, <2>3, <3>3
    <3>7. Clear(RoutePlantReferralGate(d), d)
      BY <2>5, <3>1, <3>3, <3>5, <3>6 DEF Clear
    <3> QED BY <3>2, <3>4, <3>7 DEF Here
  <2> QED BY <1>1, <2>4, <2>6, OrdinaryNodes, WriteKeeps
<1>7. CASE FilePlantReferralMR
  <2>1. PICK reached \in Reach :
          Write("file_plant_referral_mr", "mr_raised", escalated, Submitted(case, reached),
                "plant_referral")
    BY <1>7 DEF FilePlantReferralMR
  <2> DEFINE d == Submitted(case, reached)
  <2>2. Here("file_plant_referral_mr", case)
    BY <1>1, <2>1, WriterIsHere
  <2>3. reached \in BOOLEAN
    BY CatalogueAssumption
  <2>4. d \in Case /\ Differs(case, d, {"fix", "looks", "mr", "mrs"}) /\ d.mr = "awaiting_osp"
    BY <1>0, <1>1, <1>3, <2>2, <2>3, SubmittedChanges
  <2>5. Write("file_plant_referral_mr", "mr_raised", escalated, d, "plant_referral")
    BY <2>1
  <2> HIDE DEF d
  <2>6. /\ d.closure = case.closure /\ d.answer = case.answer /\ d.retries = case.retries
        /\ d.order = case.order /\ d.plan = case.plan /\ d.tried = case.tried
    BY <2>4 DEF Differs, Fields
  <2>7. /\ case.closure = "none" /\ case.answer["closure"] = "none" /\ case.order # "open"
        /\ case.retries < MaxReconciles
    BY <2>2 DEF Here, Clear, Signing, Late, Visiting, Subgraphs
  <2>8. Sound(d)
    BY <2>4, <2>6, <2>7, CaseIsSound DEF Sound, Signed
  <2>9. Clear("plant_referral", d)
    BY <2>4, <2>6, <2>7 DEF Clear, Following
  <2>10. Decided("plant_referral", d)
    BY <1>1, PlainPlaces, NothingToDecide
  <2> QED BY <1>1, <2>5, <2>8, <2>9, <2>10, WriteKeeps DEF Here
<1>8. CASE AbandonPlantReferral
  BY <1>1, <1>8, OnwardAsIs DEF AbandonPlantReferral
<1>9. Differs(case, case, {"fix", "looks", "due", "mr"})
  BY <1>0, CaseFields DEF Differs
<1>10. CASE SearchPlantMR
  BY <1>0, <1>1, <1>9, <1>10, FollowOnward DEF SearchPlantMR
<1>11. CASE UpdatePlantMR
  <2>1. \/ Crash("crash:input")
        \/ \E d \in {case} \cup {Chased(case, v) : v \in Verdicts[UpdateMR]} :
             Write("update_plant_mr", status, escalated, d, "capture_plant_evidence")
    BY <1>11 DEF UpdatePlantMR, Needs
  <2>2. ASSUME NEW d \in {case} \cup {Chased(case, v) : v \in Verdicts[UpdateMR]},
               Write("update_plant_mr", status, escalated, d, "capture_plant_evidence")
        PROVE  CaseInv'
    <3>1. d \in Case /\ Differs(case, d, {"fix", "looks", "due"})
      BY <1>0, CaseFields, ChasedChanges, DiffersMore
    <3>2. Differs(case, d, {"fix", "looks", "due", "mr"}) /\ d.mr = case.mr
      BY <3>1, DiffersMore DEF Differs, Fields
    <3> QED BY <1>1, <2>2, <3>1, <3>2, FollowOnward
  <2> QED BY <1>0, <2>1, <2>2, CrashKeepsCase
<1>12. CASE CapturePlantEvidence
  <2>1. \/ Crash("crash:input")
        \/ \E m \in {"awaiting_osp", "completed", "dead"} :
             Write("capture_plant_evidence", "awaiting_plant_repair", escalated,
                   [case EXCEPT !.mr = m], "plant_execution")
    BY <1>12 DEF CapturePlantEvidence, Needs
  <2>2. ASSUME NEW m \in {"awaiting_osp", "completed", "dead"}, NEW d, d = [case EXCEPT !.mr = m],
               Write("capture_plant_evidence", "awaiting_plant_repair", escalated, d,
                     "plant_execution")
        PROVE  CaseInv'
    <3>1. Differs(case, d, {"mr"}) /\ d.mr = m
      BY <1>0, <2>2, CaseFields DEF Differs, Fields
    <3>2. d \in Case
      BY <1>0, <3>1 DEF Case, Differs, Fields
    <3>3. Differs(case, d, {"fix", "looks", "due", "mr"})
      BY <3>1, DiffersMore
    <3> QED BY <1>1, <2>2, <3>1, <3>2, <3>3, FollowOnward
  <2> QED BY <1>0, <2>1, <2>2, CrashKeepsCase
<1> QED BY <1>4, <1>5, <1>6, <1>7, <1>8, <1>10, <1>11, <1>12 DEF PlantNext

\* Nothing but the end of the case is decided on the way to the places where it is closed.
LEMMA ClosingPlaces ==
  \A p \in Reconciling \cup Closing \cup {"restoration_validation"} : \A d :
    Repairing(p, d) /\ Sending(p, d)
BY DEF Repairing, Sending, Booking, Diagnosed, Asking, Attempting, HandingOver, Referring, Filing,
       Reconciling, Closing

\* A validation passes only on a repair on record and enough reads since.
LEMMA PassedIsProven ==
  ASSUME NEW d, NEW worse, NEW seen, d.looks \in Nat, Validated(d, worse, seen) = "passed"
  PROVE  d.fix /\ d.looks >= MinSamples
BY BudgetAssumption DEF Validated

\* The case as it is allowed to be at the gate of the closure
Closable(d) == Proven(d) /\ d.confirmed # "no" /\ d.recon = "consistent"

\* The gate of the closure leads to it only if it is allowed, or signed for.
LEMMA AfterClosureGate ==
  ASSUME NEW d \in Case, Closable(d),
         d.answer["closure"] = "approved" => "closure" \notin d.due
  PROVE  /\ Decided(RouteClosureGate(d), d)
         /\ d.answer["closure"] # "none" =>
              RouteClosureGate(d) \in {"close_linked_records", "abandon_closure"}
<1>1. \/ RouteClosureGate(d) = "abandon_closure"
      \/ d.verdict[Close] = "allowed" /\ RouteClosureGate(d) = "close_linked_records"
      \/ /\ d.verdict[Close] = "closure" /\ d.answer["closure"] = "none"
         /\ RouteClosureGate(d) = "prepare_exceptional_closure_approval"
      \/ /\ d.verdict[Close] = "closure" /\ d.answer["closure"] = "approved"
         /\ RouteClosureGate(d) = "close_linked_records"
  BY DEF RouteClosureGate
<1>2. Decided("abandon_closure", d)
  BY PlainPlaces, NothingToDecide DEF Plain
<1>3. d.verdict[Close] = "closure" => Decided("prepare_exceptional_closure_approval", d)
  BY ClosingPlaces DEF Decided, Ending, Reconciling, Closing, Closable
<1>4. ASSUME \/ d.verdict[Close] = "allowed"
             \/ d.verdict[Close] = "closure" /\ d.answer["closure"] = "approved"
      PROVE  Decided("close_linked_records", d)
  BY <1>4, ClosingPlaces DEF Decided, Ending, Reconciling, Closing, Closable
<1>5. d.answer["closure"] # "none" =>
        RouteClosureGate(d) \in {"close_linked_records", "abandon_closure"}
  BY <1>1
<1> QED BY <1>1, <1>2, <1>3, <1>4, <1>5

\* Every node of validation keeps the invariant.
LEMMA ValidationKeeps ==
  ASSUME ControlInv, CaseInv,
         AwaitServiceStability \/ SnapshotPostFixState \/ AssessRestoration
  PROVE  CaseInv'
<1> USE DEF Node, Quiet, End
<1>0. case \in Case /\ Subgraphs.restoration_validation \subseteq Ordinary
  BY CaseIsSound DEF Ordinary
<1>1. /\ {"await_service_stability", "snapshot_post_fix_state", "assess_restoration"}
           \subseteq Ordinary \cap Plain
  BY <1>0 DEF Subgraphs, Plain
<1>2. CASE AwaitServiceStability
  BY <1>1, <1>2, OnwardAsIs DEF AwaitServiceStability
<1>3. CASE SnapshotPostFixState
  <2>1. PICK read \in Read(case) : \E d \in Gathered(read) :
          Write("snapshot_post_fix_state", "validating", escalated, d, "assess_restoration")
    BY <1>3 DEF SnapshotPostFixState
  <2>2. PICK d \in Gathered(read) :
          Write("snapshot_post_fix_state", "validating", escalated, d, "assess_restoration")
    BY <2>1
  <2>3. d \in Case /\ Differs(case, d, {"looks", "data"})
    BY <1>0, ReadGathered
  <2>4. {"looks", "data"} \in SUBSET Minor
    BY DEF Minor, Fields, Lasting
  <2> QED BY <1>1, <2>2, <2>3, <2>4, PlainPlaces, NothingToDecide, Onward
<1>4. CASE AssessRestoration
  <2>1. PICK worse \in BOOLEAN, seen \in BOOLEAN :
          Write("assess_restoration", status, escalated,
                [case EXCEPT !.validation = Validated(case, worse, seen)], "restoration_validation")
    BY <1>4 DEF AssessRestoration
  <2> DEFINE v == Validated(case, worse, seen)
             d == [case EXCEPT !.validation = v]
  <2>2. v \in {"none", "passed", "observing", "pending", "failed"}
    BY DEF Validated
  <2>3. Write("assess_restoration", status, escalated, d, "restoration_validation")
    BY <2>1
  <2>4. case.looks \in Nat
    BY <1>0, BudgetAssumption DEF Case, Looks
  <2>5. v = "passed" => case.fix /\ case.looks >= MinSamples
    BY <2>4, PassedIsProven
  <2> HIDE DEF v
  <2>6. Differs(case, d, {"validation"}) /\ d.validation = v
    BY <1>0, CaseFields DEF Differs, Fields
  <2> HIDE DEF d
  <2>7. d \in Case /\ d.fix = case.fix /\ d.looks = case.looks
    BY <1>0, <2>2, <2>6 DEF Case, Differs, Fields
  <2>8. d.validation = "passed" => Proven(d)
    BY <2>5, <2>6, <2>7 DEF Proven
  <2>9. Decided("restoration_validation", d)
    BY <2>8, ClosingPlaces DEF Decided, Ending, Reconciling, Closing
  <2>10. {"validation"} \in SUBSET Minor
    BY DEF Minor, Fields, Lasting
  <2> QED BY <1>1, <2>3, <2>6, <2>7, <2>9, <2>10, Onward
<1> QED BY <1>2, <1>3, <1>4

\* Every node of reconciliation and closure keeps the invariant.
LEMMA ClosureKeeps ==
  ASSUME ControlInv, CaseInv,
         \/ ReconcileLinkedSystems \/ HoldForReconciliationRetry \/ EvaluateClosurePolicy
         \/ PrepareExceptionalClosureApproval \/ RequestExceptionalClosureApproval
         \/ AbandonClosure \/ CloseLinkedRecords \/ RecordChronicPattern \/ UpdateKpisAndLearning
  PROVE  CaseInv'
<1> USE DEF Node, Quiet, End
<1>0. case \in Case /\ "crash:input" \in Stops
  BY CaseIsSound DEF Stops
<1>1. /\ {"reconcile_linked_systems", "hold_for_reconciliation_retry"} \subseteq Ordinary \cap Reconciling
      /\ {"evaluate_closure_policy", "prepare_exceptional_closure_approval",
          "request_exceptional_closure_approval"} \subseteq Ordinary \cap Closing
      /\ "close_linked_records" \in Closing
  BY DEF Ordinary, Reconciling, Closing
<1>2. {"close_linked_records", "abandon_closure", "record_chronic_pattern",
       "update_kpis_and_learning"} \subseteq Nodes
  BY NodeNames, NameList DEF Subgraphs
<1>3. \A p \in Ordinary : Here(p, case) =>
        /\ case.closure = "none" /\ case.answer["closure"] = "none" /\ case.order # "open"
        /\ case.mr # "awaiting_osp" /\ ~(case.mr = "none" /\ case.answer["handover"] = "approved")
        /\ case.retries < MaxReconciles
  BY OrdinaryNodes DEF Here, Clear, Busy, Signing
<1>4. \A p \in Reconciling \cup Closing : Here(p, case) => Proven(case) /\ case.confirmed # "no"
  BY DEF Here, Decided, Ending
<1>5. \A p \in Closing : Here(p, case) => Closable(case)
  BY <1>4 DEF Here, Decided, Ending, Closable
<1>6. CASE ReconcileLinkedSystems
  <2>1. PICK r \in {"consistent", "mismatch"} : \E d \in Gathered([case EXCEPT !.recon = r]) :
          Write("reconcile_linked_systems", "reconciling", escalated, d,
                IF r = "consistent" THEN "evaluate_closure_policy"
                ELSE "hold_for_reconciliation_retry")
    BY <1>6 DEF ReconcileLinkedSystems
  <2> DEFINE c == [case EXCEPT !.recon = r]
             next == IF r = "consistent" THEN "evaluate_closure_policy"
                     ELSE "hold_for_reconciliation_retry"
  <2>2. PICK d \in Gathered(c) : Write("reconcile_linked_systems", "reconciling", escalated, d, next)
    BY <2>1
  <2>3. Differs(case, c, {"recon"}) /\ c.recon = r
    BY <1>0, CaseFields DEF Differs, Fields
  <2> HIDE DEF c
  <2>4. c \in Case
    BY <1>0, <2>3 DEF Case, Differs, Fields
  <2>5. d \in Case /\ Differs(c, d, {"data"})
    BY <2>4, GatheredChanges
  <2>6. Differs(case, d, {"recon"} \cup {"data"})
    BY <2>3, <2>5, DiffersTwice
  <2>7. {"recon"} \cup {"data"} \in SUBSET Minor
    BY DEF Minor, Fields, Lasting
  <2>8. /\ d.recon = r /\ d.fix = case.fix /\ d.looks = case.looks
        /\ d.validation = case.validation /\ d.confirmed = case.confirmed
    BY <2>3, <2>5 DEF Differs, Fields
  <2>9. ASSUME Here("reconcile_linked_systems", case) PROVE Decided(next, d)
    <3>1. Proven(d) /\ d.confirmed # "no"
      BY <1>1, <1>4, <2>8, <2>9 DEF Proven
    <3>2. CASE r = "consistent"
      BY <2>8, <3>1, <3>2, ClosingPlaces DEF Decided, Ending, Reconciling, Closing
    <3>3. CASE r = "mismatch"
      BY <1>1, <3>1, <3>3, AfterValidation
    <3> QED BY <3>2, <3>3
  <2> QED BY <1>1, <2>2, <2>5, <2>6, <2>7, <2>9, Onward
<1>7. CASE HoldForReconciliationRetry
  <2> DEFINE d == [case EXCEPT !.retries = @ + 1]
  <2>1. \/ Write("hold_for_reconciliation_retry", "escalated", TRUE, d, "reconciliation_closure")
        \/ /\ ~(d.retries >= MaxReconciles)
           /\ Write("hold_for_reconciliation_retry", status, escalated, d, "reconcile_linked_systems")
    BY <1>7 DEF HoldForReconciliationRetry
  <2>2. Differs(case, d, {"retries"}) /\ d.retries = case.retries + 1
    BY <1>0, CaseFields DEF Differs, Fields
  <2> HIDE DEF d
  <2>3. /\ d.closure = case.closure /\ d.answer = case.answer /\ d.order = case.order
        /\ d.mr = case.mr /\ d.plan = case.plan /\ d.tried = case.tried
        /\ d.fix = case.fix /\ d.looks = case.looks
        /\ d.validation = case.validation /\ d.confirmed = case.confirmed
    BY <2>2 DEF Differs, Fields
  <2>4. ASSUME Here("hold_for_reconciliation_retry", case)
        PROVE  /\ Sound(d)
               /\ ~(d.retries >= MaxReconciles) => Here("reconcile_linked_systems", d)
    <3>1. case.retries \in Tries /\ case.retries < MaxReconciles
      BY <1>0, <1>1, <1>3, <2>4 DEF Case
    <3>2. d.retries \in Tries
      BY <2>2, <3>1, Counts
    <3>3. d \in Case
      BY <1>0, <2>2, <3>2 DEF Case, Differs, Fields
    <3>4. Sound(d)
      BY <1>1, <1>3, <2>3, <2>4, <3>3, CaseIsSound DEF Sound, Signed
    <3>5. Proven(d) /\ d.confirmed # "no"
      BY <1>1, <1>4, <2>3, <2>4 DEF Proven
    <3>6. Decided("reconcile_linked_systems", d)
      BY <1>1, <3>5, AfterValidation
    <3>7. ~(d.retries >= MaxReconciles) => d.retries < MaxReconciles
      BY <3>2, BudgetAssumption DEF Tries
    <3>8. ~(d.retries >= MaxReconciles) => Clear("reconcile_linked_systems", d)
      BY <1>1, <1>3, <2>3, <2>4, <3>7 DEF Clear
    <3> QED BY <3>4, <3>6, <3>8 DEF Here
  <2> QED BY <1>1, <2>1, <2>4, OrdinaryNodes, WriteKeeps
<1>8. CASE EvaluateClosurePolicy
  <2>1. PICK v \in ClosureJudgements(case) :
          LET d == Decide(case, Close, v)
          IN Write("evaluate_closure_policy", status, escalated, d, RouteClosureGate(d))
    BY <1>8 DEF EvaluateClosurePolicy
  <2> DEFINE d == Decide(case, Close, v)
  <2>2. v \in Outcomes /\ Close \in Actions
    BY CatalogueAssumption DEF ClosureJudgements, Outcomes, Actions
  <2>3. d \in Case /\ Differs(case, d, {"verdict", "due"})
    BY <1>0, <2>2, DecideChanges
  <2>4. Write("evaluate_closure_policy", status, escalated, d, RouteClosureGate(d))
    BY <2>1
  <2> HIDE DEF d
  <2>5. /\ d.fix = case.fix /\ d.looks = case.looks /\ d.validation = case.validation
        /\ d.confirmed = case.confirmed /\ d.recon = case.recon /\ d.answer = case.answer
    BY <2>3 DEF Differs, Fields
  <2>6. Here("evaluate_closure_policy", case) => Closable(d) /\ d.answer["closure"] = "none"
    BY <1>1, <1>3, <1>5, <2>5 DEF Closable, Proven
  <2>7. {"verdict", "due"} \in SUBSET Minor
    BY DEF Minor, Fields, Lasting
  <2>8. Here("evaluate_closure_policy", case) => Decided(RouteClosureGate(d), d)
    BY <2>3, <2>6, AfterClosureGate
  <2> QED BY <1>1, <2>3, <2>4, <2>7, <2>8, Onward
<1>9. CASE PrepareExceptionalClosureApproval
  <2>1. Write("prepare_exceptional_closure_approval", "awaiting_approval", escalated, case,
              "request_exceptional_closure_approval")
    BY <1>9 DEF PrepareExceptionalClosureApproval
  <2>2. Here("prepare_exceptional_closure_approval", case)
          => Decided("request_exceptional_closure_approval", case)
    BY <1>1, <1>5, ClosingPlaces DEF Here, Decided, Ending, Reconciling, Closing, Closable
  <2>3. Differs(case, case, {}) /\ {} \in SUBSET Minor
    BY <1>0, CaseFields
  <2> QED BY <1>0, <1>1, <2>1, <2>2, <2>3, Onward
<1>10. CASE RequestExceptionalClosureApproval
  <2>1. PICK ans \in Answers :
          LET d == Answered(case, "closure", ans)
          IN Write("request_exceptional_closure_approval", status, escalated, d, RouteClosureGate(d))
    BY <1>10 DEF RequestExceptionalClosureApproval
  <2> DEFINE d == Answered(case, "closure", ans)
  <2>2. "closure" \in Kinds /\ "handover" \in Kinds \ {"closure"}
    BY DEF Kinds
  <2>3. /\ d \in Case /\ Differs(case, d, {"answer", "due"})
        /\ d.answer["closure"] = ans /\ d.due = case.due \ {"closure"}
        /\ \A j \in Kinds \ {"closure"} : d.answer[j] = case.answer[j]
    BY <1>0, <2>2, AnsweredChanges
  <2>4. Write("request_exceptional_closure_approval", status, escalated, d, RouteClosureGate(d))
    BY <2>1
  <2> HIDE DEF d
  <2>5. /\ d.fix = case.fix /\ d.looks = case.looks /\ d.validation = case.validation
        /\ d.confirmed = case.confirmed /\ d.recon = case.recon
        /\ d.closure = case.closure /\ d.mr = case.mr /\ d.order = case.order
        /\ d.retries = case.retries /\ d.plan = case.plan /\ d.tried = case.tried
    BY <2>3 DEF Differs, Fields
  <2>6. ASSUME Here("request_exceptional_closure_approval", case)
        PROVE  Sound(d) /\ Here(RouteClosureGate(d), d)
    <3>1. Closable(d)
      BY <1>1, <1>5, <2>5, <2>6 DEF Closable, Proven
    <3>2. d.answer["closure"] # "none" /\ "closure" \notin d.due
      BY <2>3 DEF Answers
    <3>3. Decided(RouteClosureGate(d), d) /\ RouteClosureGate(d) \in Signing
      BY <2>3, <3>1, <3>2, AfterClosureGate DEF Signing
    <3>4. /\ case.closure = "none" /\ case.order # "open" /\ case.mr # "awaiting_osp"
          /\ ~(case.mr = "none" /\ case.answer["handover"] = "approved")
          /\ case.retries < MaxReconciles
      BY <1>1, <1>3, <2>6
    <3>5. Sound(d)
      BY <2>3, <2>5, <3>4, CaseIsSound DEF Sound, Signed
    <3>6. d.answer["handover"] = case.answer["handover"]
      BY <2>2, <2>3
    <3>7. Clear(RouteClosureGate(d), d)
      BY <2>5, <3>3, <3>4, <3>6 DEF Clear
    <3> QED BY <3>3, <3>5, <3>7 DEF Here
  <2> QED BY <1>1, <2>4, <2>6, OrdinaryNodes, WriteKeeps
<1>11. CASE AbandonClosure
  BY <1>2, <1>11, WriteKeeps DEF AbandonClosure, CaseInv
<1>12. CASE CloseLinkedRecords
  <2> DEFINE kind == IF case.verdict[Close] = "closure" THEN "exceptional" ELSE "normal"
             d == [case EXCEPT !.closure = kind]
  <2>1. \/ Crash("crash:input")
        \/ \E next \in {"record_chronic_pattern", "update_kpis_and_learning"} :
             Write("close_linked_records", "resolved", escalated, d, next)
    BY <1>12 DEF CloseLinkedRecords, Needs
  <2>2. Differs(case, d, {"closure"}) /\ d.closure = kind
    BY <1>0, CaseFields DEF Differs, Fields
  <2>3. kind \in {"normal", "exceptional"}
    OBVIOUS
  <2> HIDE DEF d
  <2>4. d \in Case
    BY <1>0, <2>2, <2>3 DEF Case, Differs, Fields
  <2>5. /\ d.fix = case.fix /\ d.looks = case.looks /\ d.validation = case.validation
        /\ d.confirmed = case.confirmed /\ d.recon = case.recon /\ d.answer = case.answer
        /\ d.due = case.due /\ d.mr = case.mr /\ d.order = case.order /\ d.finding = case.finding
        /\ d.retries = case.retries /\ d.plan = case.plan /\ d.tried = case.tried
    BY <2>2 DEF Differs, Fields
  <2>6. ASSUME Here("close_linked_records", case),
               NEW next \in {"record_chronic_pattern", "update_kpis_and_learning"}
        PROVE  Sound(d) /\ Here(next, d)
    <3>1. Closable(case)
      BY <1>1, <1>5, <2>6
    <3>2. /\ case.order # "open" /\ case.mr # "awaiting_osp" /\ case.retries < MaxReconciles
          /\ ~(case.mr = "none" /\ case.answer["handover"] = "approved")
      BY <2>6 DEF Here, Clear, Visiting, Following, Filing, Subgraphs
    <3>3. \/ case.verdict[Close] = "allowed"
          \/ /\ case.verdict[Close] = "closure" /\ case.answer["closure"] = "approved"
             /\ "closure" \notin case.due
      BY <2>6 DEF Here, Decided, Ending
    <3>4. kind = "exceptional" => case.answer["closure"] = "approved" /\ "closure" \notin case.due
      BY <3>3
    <3>5. Sound(d)
      BY <2>2, <2>4, <2>5, <3>1, <3>2, <3>4, CaseIsSound DEF Sound, Signed, Closable, Proven
    <3>6. Clear(next, d)
      BY <2>5, <3>2 DEF Clear, Late, Signing
    <3>7. Decided(next, d)
      BY PlainPlaces, NothingToDecide DEF Plain
    <3> QED BY <3>5, <3>6, <3>7 DEF Here
  <2> QED BY <1>0, <1>2, <2>1, <2>6, WriteKeeps, CrashKeepsCase
<1>13. \A p \in {"record_chronic_pattern", "update_kpis_and_learning"}, q \in Late :
         Here(p, case) => Here(q, case)
  <2>1. ASSUME NEW p \in {"record_chronic_pattern", "update_kpis_and_learning"}, NEW q \in Late,
               Here(p, case)
        PROVE  Here(q, case)
    <3>1. Clear(q, case)
      BY <2>1 DEF Here, Clear, Late, Signing, Visiting, Following, Filing, Subgraphs
    <3>2. Decided(q, case)
      BY PlainPlaces, NothingToDecide DEF Plain, Late
    <3> QED BY <3>1, <3>2 DEF Here
  <2> QED BY <2>1
<1>14. CASE RecordChronicPattern
  BY <1>2, <1>13, <1>14, WriteKeeps DEF RecordChronicPattern, CaseInv, Late
<1>15. CASE UpdateKpisAndLearning
  BY <1>2, <1>13, <1>15, WriteKeeps DEF UpdateKpisAndLearning, CaseInv, Late
<1> QED BY <1>6, <1>7, <1>8, <1>9, <1>10, <1>11, <1>12, <1>14, <1>15

\* Every node of preventive maintenance keeps the invariant.
LEMMA PreventiveKeeps == ASSUME ControlInv, CaseInv, PreventiveNext PROVE CaseInv'
<1> USE DEF Node, Quiet, End
<1>0. Subgraphs.preventive_maintenance \subseteq Ordinary
  BY DEF Ordinary
<1>1. /\ {"assess_predictive_risk", "open_preventive_case"} \subseteq Ordinary \cap Plain
      /\ Treatments \subseteq Ordinary \cap Plain /\ "preventive_maintenance" \in Plain
  BY <1>0 DEF Subgraphs, Treatments, Plain
<1>2. CASE AssessPredictiveRisk
  BY <1>1, <1>2, OnwardGathered DEF AssessPredictiveRisk
<1>3. CASE OpenPreventiveCase
  BY <1>1, <1>3, OnwardAsIs DEF OpenPreventiveCase
<1>4. CASE PreventiveTreatment
  BY <1>1, <1>4, OnwardAsIs DEF PreventiveTreatment
<1> QED BY <1>2, <1>3, <1>4 DEF PreventiveNext

-----------------------------------------------------------------------------
(* The graph as a whole *)

\* A subgraph returns to a place that what is under way may be at.
LEMMA ReturnKeepsCase ==
  ASSUME CaseInv, NEW g \in Names, NEW next, Return(g, next),
         Here(g, case) => next \in Stops \/ Here(next, case)
  PROVE  CaseInv'
<1>1. pc = g /\ g \notin Stops
  BY NameList DEF Return, End, Stops
<1>2. CASE CanTransition(outer, status)
  <2>1. pc' = (IF escalated THEN "END" ELSE next) /\ escalated' = escalated /\ case' = case
    BY <1>2 DEF Return
  <2> QED BY <1>1, <2>1 DEF CaseInv, Stops
<1>3. CASE ~CanTransition(outer, status)
  <2>1. Crash("crash:status")
    BY <1>3 DEF Return
  <2> QED BY <2>1, CrashKeepsCase DEF Stops
<1> QED BY <1>2, <1>3

\* Nothing is under way at such a place, so nothing is at the plain place after it.
LEMMA ClearOnward ==
  ASSUME NEW p, p \notin Busy, NEW q \in Plain, NEW d, Here(p, d) PROVE Here(q, d)
<1>1. Clear(q, d)
  BY DEF Here, Clear, Busy, Signing
<1> QED BY <1>1, PlainPlaces, NothingToDecide DEF Here

\* Every subgraph returns where it may.
LEMMA ReturnsKeep == ASSUME CaseInv, Returns PROVE CaseInv'
<1>0. /\ {"remote_resolution", "self_help", "restoration_validation"} \cap Busy = {}
      /\ "END" \in Stops
  BY DEF Busy, Signing, Late, Visiting, Following, Filing, Subgraphs, Stops
<1>1. CASE Return("remote_resolution", RouteRemoteOutcome(case))
  <2>1. RouteRemoteOutcome(case) \in Plain
    BY DEF RouteRemoteOutcome, Plain
  <2> QED BY <1>0, <1>1, <2>1, NameList, ClearOnward, ReturnKeepsCase
<1>2. CASE Return("self_help", RouteSelfHelpOutcome(case))
  <2>1. RouteSelfHelpOutcome(case) \in Plain
    BY DEF RouteSelfHelpOutcome, Plain
  <2> QED BY <1>0, <1>2, <2>1, NameList, ClearOnward, ReturnKeepsCase
<1>3. CASE Return("field_planning", "open_field_visit")
  <2>1. Clear("field_planning", case) => Clear("open_field_visit", case)
    BY DEF Clear, Late, Signing, Visiting, Following, Filing, Subgraphs
  <2>2. Decided("open_field_visit", case)
    BY PlainPlaces, NothingToDecide DEF Plain
  <2> QED BY <1>3, <2>1, <2>2, NameList, ReturnKeepsCase DEF Here
<1>4. CASE Return("field_execution", RouteCleanBootsOutcome(case))
  <2>1. Clear("field_execution", case) => Clear(RouteCleanBootsOutcome(case), case)
    BY DEF Clear, RouteCleanBootsOutcome, Late, Signing, Visiting, Following, Filing, Subgraphs
  <2>2. Decided(RouteCleanBootsOutcome(case), case)
    BY PlainPlaces, NothingToDecide DEF RouteCleanBootsOutcome, Plain
  <2> QED BY <1>4, <2>1, <2>2, NameList, ReturnKeepsCase DEF Here
<1>5. CASE Return("plant_referral", "search_plant_mr")
  <2>1. Clear("plant_referral", case) => Clear("search_plant_mr", case)
    BY DEF Clear, Late, Signing, Visiting, Following, Filing, Subgraphs
  <2>2. Decided("search_plant_mr", case)
    BY PlainPlaces, NothingToDecide DEF Plain
  <2> QED BY <1>5, <2>1, <2>2, NameList, ReturnKeepsCase DEF Here
<1>6. CASE Return("plant_execution", RoutePlantOutcome(case))
  <2>1. \/ /\ case.mr # "awaiting_osp"
           /\ RoutePlantOutcome(case)
                \in {"build_field_requirement", "await_service_stability", "determine_root_cause"}
        \/ RoutePlantOutcome(case) = "search_plant_mr"
    BY DEF RoutePlantOutcome, RouteResidualImpact
  <2>2. Clear("plant_execution", case) => Clear(RoutePlantOutcome(case), case)
    BY <2>1 DEF Clear, Late, Signing, Visiting, Following, Filing, Subgraphs
  <2>3. Decided(RoutePlantOutcome(case), case)
    BY <2>1, PlainPlaces, NothingToDecide DEF Plain
  <2> QED BY <1>6, <2>2, <2>3, NameList, ReturnKeepsCase DEF Here
<1>7. CASE Return("restoration_validation", RouteStability(case))
  <2>1. CASE case.validation # "passed"
    <3>1. RouteStability(case) \in Plain
      BY <2>1 DEF RouteStability, Plain
    <3> QED BY <1>0, <1>7, <3>1, NameList, ClearOnward, ReturnKeepsCase
  <2>2. CASE case.validation = "passed"
    <3>1. RouteStability(case) = "confirm_customer_outcome"
      BY <2>2 DEF RouteStability
    <3>2. ASSUME Here("restoration_validation", case) PROVE Here("confirm_customer_outcome", case)
      <4>1. Clear("confirm_customer_outcome", case)
        BY <1>0, <3>2 DEF Here, Clear, Busy, Signing
      <4>2. Proven(case)
        BY <2>2, <3>2 DEF Here, Decided, Ending
      <4>3. Decided("confirm_customer_outcome", case)
        BY <4>2 DEF Decided, Repairing, Sending, Ending, Diagnosed, Asking, Attempting, Booking,
                    HandingOver, Referring, Filing, Reconciling, Closing
      <4> QED BY <4>1, <4>3 DEF Here
    <3> QED BY <1>7, <3>1, <3>2, NameList, ReturnKeepsCase
  <2> QED BY <2>1, <2>2
<1>8. CASE Return("reconciliation_closure", "END")
  BY <1>0, <1>8, NameList, ReturnKeepsCase
<1>9. CASE Return("preventive_maintenance", "END")
  BY <1>0, <1>9, NameList, ReturnKeepsCase
<1> QED BY <1>1, <1>2, <1>3, <1>4, <1>5, <1>6, <1>7, <1>8, <1>9 DEF Returns

\* A run starts with nothing planned, sent, answered or closed.
LEMMA InitCase == Init => CaseInv
<1> SUFFICES ASSUME Init PROVE CaseInv
  OBVIOUS
<1>1. /\ case.data = "ok" /\ case.test = "none" /\ case.dom = "unknown" /\ case.plan = {}
      /\ case.chosen = "none" /\ case.tried = {} /\ case.verdict = [a \in Actions |-> "none"]
      /\ case.due = {} /\ case.answer = [k \in Kinds |-> "none"] /\ case.asked = {}
      /\ case.ran = FALSE /\ case.fixed = FALSE /\ case.fix = FALSE /\ case.looks = 0
      /\ case.session = "none" /\ case.order = "none" /\ case.finding = "none"
      /\ case.contract = "none" /\ case.mr = "none" /\ case.mrs = 0 /\ case.validation = "none"
      /\ case.confirmed = "unset" /\ case.recon = "none" /\ case.retries = 0
      /\ case.closure = "none"
  BY DEF Init
<1>2. case \in Case
  BY Counts DEF Init, Case
<1>3. Sound(case)
  BY <1>1, <1>2 DEF Sound, Signed
<1>4. case.answer["closure"] = "none" /\ case.answer["handover"] = "none"
  BY <1>1 DEF Kinds
<1>5. Clear("receive_signal", case)
  BY <1>1, <1>4, Counts DEF Clear
<1>6. Decided("receive_signal", case)
  BY NothingToDecide DEF Decisive, Diagnosed, Asking, Attempting, Booking, HandingOver, Referring,
     Filing, Reconciling, Closing
<1> QED BY <1>3, <1>5, <1>6 DEF CaseInv, Here, Init

\* Every step keeps the invariant.
LEMMA NextCase == ControlInv /\ CaseInv /\ [Next]_vars => CaseInv'
<1> SUFFICES ASSUME ControlInv, CaseInv, [Next]_vars PROVE CaseInv'
  OBVIOUS
<1>1. CASE \/ DiagnosisNext \/ RemoteNext \/ SelfHelpNext \/ FieldNext
           \/ PlantNext \/ RestorationNext \/ PreventiveNext
  <2>1. RestorationNext => CaseInv'
    BY ValidationKeeps, ClosureKeeps DEF RestorationNext
  <2> QED
    BY <1>1, <2>1, DiagnosisKeeps, RemoteKeeps, SelfHelpKeeps, FieldKeeps, PlantKeeps,
       PreventiveKeeps
<1>2. CASE Returns
  BY <1>2, ReturnsKeep
<1>3. CASE GuardTrips
  <2>1. \/ escalated' = TRUE /\ case' = case
        \/ Crash("crash:status")
    BY <1>3 DEF GuardTrips, Merge
  <2> QED BY <2>1, CrashKeepsCase DEF CaseInv, Stops
<1>4. CASE UNCHANGED vars
  BY <1>4 DEF vars, control, CaseInv
<1> QED BY <1>1, <1>2, <1>3, <1>4 DEF Next, Stopped

\* Every reachable state has the case in order.
LEMMA CaseInvariant == Spec => [](ControlInv /\ CaseInv)
BY InitControl, NextControl, InitCase, NextCase, PTL DEF Spec

-----------------------------------------------------------------------------
\* A node runs only in a run that is not escalated, and finds what was decided on the way to it.
LEMMA NodeIsHere == ASSUME ControlInv, CaseInv, pc \in Nodes PROVE Here(pc, case)
BY EndsAreNotNodes DEF ControlInv, EscalationStops, CaseInv

\* Every normal closure is proved: `close_linked_records` is reached only along a validation that
\* passed on enough reads after the latest repair, however many repairs, visits and retries came
\* before.
THEOREM ClosedProven == Spec => []ClosedIsProven
<1>1. CaseInv => ClosedIsProven
  BY DEF CaseInv, Sound, Signed, Proven, ClosedIsProven
<1> QED BY <1>1, CaseInvariant, PTL

\* Every exceptional closure carries the approval of the latest demand for one.
THEOREM ExceptionalSigned == Spec => []ExceptionalIsSigned
<1>1. CaseInv => ExceptionalIsSigned
  BY DEF CaseInv, Sound, Signed, ExceptionalIsSigned
<1> QED BY <1>1, CaseInvariant, PTL

\* No closure leaves a work order open or a request with the plant crew.
THEOREM NothingOpen == Spec => []NothingLeftOpen
<1>1. CaseInv => NothingLeftOpen
  BY DEF CaseInv, Sound, Signed, NothingLeftOpen
<1> QED BY <1>1, CaseInvariant, PTL

\* No attempt that left the process is made again, in this diagnosis or a later one.
THEOREM NeverTwice == Spec => []NeverRepeated
<1>1. ControlInv /\ CaseInv => NeverRepeated
  <2> SUFFICES ASSUME ControlInv, CaseInv PROVE NeverRepeated
    OBVIOUS
  <2>1. {"execute_remote_repair", "send_self_help_instructions", "commit_field_dispatch"}
          \subseteq Nodes
    BY NodeNames, NameList DEF Subgraphs
  <2>2. ASSUME pc \in {"execute_remote_repair", "send_self_help_instructions"}
        PROVE  case.chosen \notin case.tried
    <3>1. case.chosen \in case.plan
      BY <2>1, <2>2, NodeIsHere DEF Here, Decided, Repairing, Attempting
    <3> QED BY <3>1, CaseIsSound
  <2>3. ASSUME pc = "commit_field_dispatch" PROVE Dispatch \notin case.tried
    BY <2>1, <2>3, NodeIsHere DEF Here, Decided, Sending, Booking
  <2> QED BY <2>2, <2>3 DEF NeverRepeated
<1> QED BY <1>1, CaseInvariant, PTL

\* Nothing is acted on without the policy's leave or a human's, given after the latest demand.
THEOREM Consent == Spec => []ActsWithConsent
<1>1. ControlInv /\ CaseInv => ActsWithConsent
  <2> SUFFICES ASSUME ControlInv, CaseInv, ~AfterEarlierRequest,
                      pc \in {"execute_remote_repair", "send_self_help_instructions",
                              "commit_field_dispatch", "file_plant_mr", "file_plant_referral_mr"}
               PROVE  Consented(case, Judgement, GateKind)
    BY DEF ActsWithConsent, Consented
  <2>1. pc \in Nodes
    BY NodeNames, NameList DEF Subgraphs
  <2>2. Here(pc, case)
    BY <2>1, NodeIsHere
  <2>3. CASE pc \in {"execute_remote_repair", "send_self_help_instructions"}
    <3>1. Judgement = case.verdict[case.chosen] /\ GateKind = case.verdict[case.chosen]
      BY <2>3 DEF Judgement, GateKind
    <3> QED BY <2>2, <2>3, <3>1 DEF Here, Decided, Repairing, Attempting
  <2>4. CASE pc = "commit_field_dispatch"
    <3>1. Judgement = case.verdict[Dispatch] /\ GateKind = "dispatch"
      BY <2>4 DEF Judgement, GateKind
    <3> QED BY <2>2, <2>4, <3>1 DEF Here, Decided, Sending
  <2>5. CASE pc \in {"file_plant_mr", "file_plant_referral_mr"}
    <3>1. Judgement = case.verdict[RaiseMR] /\ GateKind = "handover"
      BY <2>5 DEF Judgement, GateKind
    <3>2. case.mr = "none"
      BY <2>2, <2>5 DEF AfterEarlierRequest, Here, Decided, Sending, Referring
    <3> QED BY <2>2, <2>5, <3>1, <3>2 DEF Here, Decided, Sending, Filing
  <2> QED BY <2>3, <2>4, <2>5
<1> QED BY <1>1, CaseInvariant, PTL

\* No visit is planned while one is under way, and the plant is asked for nothing while it holds a
\* request.
THEOREM OneVisit == Spec => []OneVisitAtATime
<1>1. ControlInv /\ CaseInv => OneVisitAtATime
  <2> SUFFICES ASSUME ControlInv, CaseInv PROVE OneVisitAtATime
    OBVIOUS
  <2>1. ASSUME pc \in Subgraphs.field_planning PROVE case.order # "open"
    <3>1. pc \in Nodes
      BY <2>1, NodeNames, NameList
    <3>2. pc \notin Visiting
      BY <2>1 DEF Visiting, Subgraphs
    <3> QED BY <3>1, <3>2, NodeIsHere DEF Here, Clear
  <2>2. ASSUME pc \in {"file_plant_mr", "file_plant_referral_mr"} PROVE case.mr # "awaiting_osp"
    <3>1. pc \in Nodes
      BY <2>2, NodeNames, NameList DEF Subgraphs
    <3>2. pc \notin Following
      BY <2>2 DEF Following, Subgraphs
    <3> QED BY <3>1, <3>2, NodeIsHere DEF Here, Clear
  <2> QED BY <2>1, <2>2 DEF OneVisitAtATime
<1> QED BY <1>1, CaseInvariant, PTL

=============================================================================
