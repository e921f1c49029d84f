---------------------------- MODULE PolicyEngine ----------------------------
(***************************************************************************)
(* The policy engine: one request against one pack, and a running service  *)
(* that reloads its pack while the facts of a case get worse               *)
(* (policies/engine.py).                                                   *)
(*                                                                         *)
(* A decision is a pure function of the pack and the request.  The state   *)
(* holds one of each; a step reloads the pack from a file or makes one     *)
(* fact of the request a weaker ground to act on, so that the properties   *)
(* compare decisions which differ in one thing.                            *)
(***************************************************************************)
EXTENDS PolicyPack

CONSTANTS
  Files,     \* packs an edit may leave on disk, some of which do not load
  Principals,\* roles that ask; the graph asks as `automation`
  MaxSteps   \* bound: steps from the best case

ASSUME PolicyAssumption == Principals \subseteq Roles

VARIABLES
  pack,     \* PolicyEngine._pack: a loaded pack, or <<>> when none could be loaded
  request,  \* the PolicyInput
  steps
vars == <<pack, request, steps>>

Unavailable == <<>>

\* `_DECISION_CLASS`
DecisionClass(a) ==
  CASE a = "create_work_order" -> "dispatch"
    [] a = "raise_mr" -> "mr"
    [] a = "close_incident" -> "closure"
    [] a \in ReadOnly \cup {"cancel_work_order", "update_mr", "create_pm_case", "notify_customer"} ->
         "diagnosis"
    [] OTHER -> "remote_action"

CustomerContactActions == {"notify_customer", "send_self_help"}

Unknown == -1   \* `None` of a number: not measured

\* A finding blocks, or asks for a signature of its kind.
Block == "block"
Finding(holds, effect) == IF holds THEN {effect} ELSE {}

CheckAllowlist(p, r) == Finding(r.action \notin DOMAIN p.rows \/ ~p.rows[r.action].allowed, Block)
CheckRole(r)         == Finding(~Permits(r.role, r.action), Block)
CheckDuplicate(r)    == Finding(r.executed, Block)

\* Reads are how evidence is obtained, so evidence does not gate them.  An unknown age passes.
CheckEvidence(p, r) ==
  LET class == DecisionClass(r.action)
  IN Finding(/\ r.action \notin ReadOnly
             /\ \/ r.sources < MinSourcesFor(p, class)
                \/ r.age > MaxAgeFor(p, class)
                \/ r.flags \cap p.flags # {}, Block)

\* Mutant: every action asks at the diagnosis gate.
ConfidenceAtD06(p, r) ==
  Finding(r.action \notin ReadOnly /\ r.confidence < MinimumFor(p, DecisionClass(r.action)),
          "low_confidence_rca")
\* The closing gate is the only one still ahead of a closure.
CheckConfidence(p, r) ==
  Finding(/\ r.action \notin ReadOnly
          /\ \/ r.confidence < MinimumFor(p, DecisionClass(r.action))
             \/ /\ r.confidence # Unknown /\ r.competing # Unknown
                /\ r.confidence - r.competing \in -(p.ambiguity - 1)..(p.ambiguity - 1),
          IF r.action = "close_incident" THEN "exceptional_closure" ELSE "low_confidence_rca")

CheckAttempts(p, r) ==
  LET row == p.rows[r.action]
      c   == row.counter
  IN IF c = "none" THEN {}
     ELSE IF r.attempt > p.limits[c] THEN {Block}
     ELSE Finding(c \in DOMAIN p.reasons /\ r.attempt > p.reasons[c],
                  IF KindOf(p, row) # "none" THEN KindOf(p, row) ELSE "high_risk_remote_action")

\* An unknown radius passes.
CheckBlastRadius(p, r) ==
  IF r.radius > BlastRadiusCapFor(p, p.rows[r.action]) THEN {Block}
  ELSE Finding(r.radius > p.threshold, "high_blast_radius_action")

CheckRiskClass(p, r) ==
  LET row == p.rows[r.action]
  IN Finding(Asks(p, row), IF KindOf(p, row) = "none" THEN Block ELSE KindOf(p, row))

CheckWindow(p, r) == Finding(p.rows[r.action].window /\ ~r.in_window, Block)

\* Mutant: the window of quiet hours does not reach past midnight.
CheckContactUpToMidnight(p, r) ==
  Finding(/\ r.action \in CustomerContactActions
          /\ r.time # Unknown /\ p.contact.from <= r.time
          /\ Rank[r.severity] < Rank[p.contact.override], Block)
CheckContact(p, r) ==
  LET c == p.contact
  IN Finding(/\ r.action \in CustomerContactActions
             /\ \/ r.vulnerable /\ r.action = "send_self_help" /\ c.skip
                \/ /\ r.time # Unknown /\ InQuietHours(c, r.time)
                   /\ Rank[r.severity] < Rank[c.override]
                \/ r.contacts >= c.cap
                \/ r.since # Unknown /\ r.since < c.spacing, Block)

CheckClosure(p, r) ==
  IF r.action # "close_incident" THEN {}
  ELSE Finding(p.closure.proof /\ ~r.validated,
               IF p.closure.exceptional THEN "exceptional_closure" ELSE Block)
         \cup Finding(p.closure.reconciled /\ ~r.reconciled, Block)

Findings(p, r) ==
  CheckAllowlist(p, r) \cup CheckRole(r) \cup CheckDuplicate(r)
    \cup IF CheckAllowlist(p, r) # {} THEN {}
         ELSE CheckEvidence(p, r) \cup CheckConfidence(p, r) \cup CheckAttempts(p, r)
                \cup CheckBlastRadius(p, r) \cup CheckRiskClass(p, r) \cup CheckWindow(p, r)
                \cup CheckContact(p, r) \cup CheckClosure(p, r)

\* `k.value` breaks ties: the position of a kind in the order of the names
ByName == <<"clean_to_dirty_handover", "dispatch", "exceptional_closure", "high_blast_radius_action",
            "high_risk_remote_action", "low_confidence_rca">>
Place(k) == CHOOSE i \in 1..6 : ByName[i] = k
Narrowness(k) == 10 * Cardinality(ApproversFor(k)) + Place(k)

\* `_most_restrictive`: the narrowest approver set, then the name
MostRestrictive(kinds) == CHOOSE k \in kinds : \A other \in kinds : Narrowness(k) <= Narrowness(other)

\* `evaluate`: `allowed`, `block`, or the kind of the approval it requires.
Evaluate(p, r) ==
  IF p = Unavailable \/ Block \in Findings(p, r) THEN Block
  ELSE IF Findings(p, r) = {} THEN "allowed" ELSE MostRestrictive(Findings(p, r))

\* `_decision`: the floor role the pack names for the kind demanded
RequiredRole(p, kind) == p.approvals[kind]
-----------------------------------------------------------------------------
(* One case, getting worse *)

\* The best case there is for an action.  Only what the graph supplies for it is supplied: a closure
\* and a preventive case name no radius and no contact (`evaluate_closure_policy`,
\* `open_chronic_case`), a preventive case no closing facts.
Best(role, a) ==
  [ action |-> a, role |-> role, executed |-> FALSE, sources |-> 4, age |-> 0, flags |-> {},
    confidence |-> 95, competing |-> Unknown, attempt |-> 1,
    radius |-> IF a \in {"close_incident", "create_pm_case"} THEN Unknown ELSE 1,
    severity |-> "critical", in_window |-> TRUE, vulnerable |-> FALSE, time |-> 720,
    contacts |-> 0, since |-> Unknown,
    validated |-> a = "close_incident", reconciled |-> a = "close_incident" ]

\* What one fact may become, never a better ground to act on than it was.
WorseEvidence(r) ==
  {[r EXCEPT !.sources = n] : n \in {m \in {Unknown, 0, 1, 2, 3} : m < r.sources}}
    \cup {[r EXCEPT !.age = m] : m \in {n \in {16, 31, 61} : n > r.age}}
    \cup {[r EXCEPT !.flags = @ \cup {f}] : f \in Flags \ r.flags}

\* The runner-up is never ahead of the leading hypothesis.
WorseDiagnosis(r) ==
  {[r EXCEPT !.confidence = c] :
      c \in {d \in {Unknown, 40, 66, 72, 80} : d < r.confidence /\ (r.competing = Unknown \/ d >= r.competing)}}
    \cup {[r EXCEPT !.competing = c] : c \in {d \in {40, 66, 72} : r.competing < d /\ d <= r.confidence}}

WorseReach(r) ==
  {[r EXCEPT !.radius = n] : n \in {m \in {9, 26, 65, 2001} : r.radius # Unknown /\ m > r.radius}}
    \cup {[r EXCEPT !.attempt = n] : n \in {m \in 2..3 : m > r.attempt}}
    \cup {[r EXCEPT !.in_window = FALSE], [r EXCEPT !.executed = TRUE]}
    \cup {[r EXCEPT !.role = x] : x \in IF r.role = "none" THEN {} ELSE {"auditor", "none"}}

\* Towards the night: noon, ten in the evening, two in the morning.
WorseContact(r) ==
  IF r.action \notin CustomerContactActions THEN {}
  ELSE {[r EXCEPT !.severity = "high"], [r EXCEPT !.vulnerable = TRUE], [r EXCEPT !.since = 59]}
         \cup {[r EXCEPT !.time = IF t = 720 THEN 1320 ELSE 120] : t \in {720, 1320} \cap {r.time}}
         \cup {[r EXCEPT !.contacts = n] : n \in {m \in {2, 3} : m > r.contacts}}

WorseProof(r) ==
  IF r.action # "close_incident" THEN {}
  ELSE {[r EXCEPT !.validated = FALSE], [r EXCEPT !.reconciled = FALSE]}

Worse(r) ==
  (WorseEvidence(r) \cup WorseDiagnosis(r) \cup WorseReach(r) \cup WorseContact(r) \cup WorseProof(r))
    \ {r}

Worsen ==
  /\ steps < MaxSteps /\ steps' = steps + 1
  /\ request' \in Worse(request)
  /\ UNCHANGED pack

\* `load_or_unavailable`: a file that fails a validator leaves the engine without a pack, never with
\* the pack before it.
LoadOrUnavailable(file) == IF Loads(file) THEN file ELSE Unavailable

\* An edited file is read; an edit is tried with one worse fact less.
Reload ==
  /\ steps = 0 /\ steps' = 2
  /\ \E file \in Files : pack' = LoadOrUnavailable(file)
  /\ UNCHANGED request

Init ==
  /\ pack = LoadOrUnavailable(Shipped)
  /\ request \in {Best(role, a) : role \in Principals, a \in ActionType}
  /\ steps = 0

Next == Worsen \/ Reload

Spec == Init /\ [][Next]_vars
-----------------------------------------------------------------------------
Decision == Evaluate(pack, request)

\* A block is stricter than any signature, and a signature stricter the fewer may give it.
Strictness(outcome) ==
  CASE outcome = "allowed" -> 0
    [] outcome \in ApprovalKind -> 10 - Cardinality(ApproversFor(outcome))
    [] OTHER -> 10

\* No single fact that weakens the ground for an action makes its decision freer, whatever else is
\* already wrong: across eleven checks, their early returns and the choice among their demands.
WorseIsNeverFreer ==
  [][UNCHANGED pack => Strictness(Decision) <= Strictness(Evaluate(pack', request'))]_vars

\* Whatever file is on disk, nothing but a read is done, or even put to a human, on data carrying a
\* flag of the floor in the code.  `_cannot_loosen_the_code_floor` against `_check_evidence`.
FloorHolds == request.flags \cap FlagsFloor # {} /\ request.action \notin ReadOnly => Decision = Block

\* Whatever the checks demand together can be met: the one demand chosen among theirs names a kind
\* the pack has a rule for, and the floor role of that rule may sign for it.
DemandsAreRoutable ==
  Decision \in {"allowed", Block} \/ RequiredRole(pack, Decision) \in ApproversFor(Decision)

\* A closure demands the closing gate's own kind, which `route_closure_gate` needs, and without a
\* proof it costs a supervisor's name; unless the pack asks for another kind, counts closures as
\* attempts at something else, or asks for no proof.
ClosureHasItsGate ==
  (/\ request.action = "close_incident" /\ pack # Unavailable
   /\ ~Asks(pack, pack.rows["close_incident"]) /\ pack.rows["close_incident"].counter = "none") =>
    /\ Decision \in {"allowed", Block, "exceptional_closure"}
    /\ ~request.validated /\ pack.closure.proof => Decision # "allowed"

\* What a read is for cannot stop it: no evidence and no diagnosis changes its decision.
ReadsStayOpen ==
  request.action \in ReadOnly =>
    Decision = Evaluate(pack, [request EXCEPT !.sources = 4, !.age = 0, !.flags = {},
                                              !.confidence = 95, !.competing = Unknown])

=============================================================================
