---------------------------- MODULE PolicyProofs ----------------------------
(***************************************************************************)
(* Proofs about PolicyPack and PolicyEngine: the lookups of every pack     *)
(* that loads, and the decisions of a service whatever files its pack is   *)
(* reloaded from and whoever asks.                                         *)
(***************************************************************************)
EXTENDS PolicyEngine, FiniteSetTheorems, TLAPS

-----------------------------------------------------------------------------
(* Lookups *)

LEMMA MinOfTwo ==
  ASSUME NEW a \in Int, NEW b \in Int
  PROVE  Min({a, b}) = IF a <= b THEN a ELSE b
  BY DEF Min

LEMMA MaxOfTwo ==
  ASSUME NEW a \in Int, NEW b \in Int
  PROVE  Max({a, b}) = IF a >= b THEN a ELSE b
  BY DEF Max

\* Under every pack that loads, a vulnerable customer is responded to and restored no later than
\* another with the same trouble: `_effective` moves towards the tighter clocks by any number of
\* bands, and stops at the last of them.
THEOREM VulnerableNeverSlower ==
  ASSUME NEW p, Loads(p), NEW severity \in DOMAIN Rank
  PROVE  /\ ResponseFor(p, severity, TRUE) <= ResponseFor(p, severity, FALSE)
         /\ RestoreFor(p, severity, TRUE) <= RestoreFor(p, severity, FALSE)
<1>1. Rank[severity] \in 1..5
  BY DEF Rank
<1>2. p.tighten \in Nat
  BY DEF Loads, ClocksTighten
<1> DEFINE r == Rank[severity]
           m == Min({r + p.tighten, 5})
<1>3. m \in 1..5 /\ r <= m
  BY <1>1, <1>2, MinOfTwo
<1>4. /\ Effective(p, severity, FALSE) = r
      /\ Effective(p, severity, TRUE) = m
  BY DEF Effective
<1>5. \A i, j \in 1..5 : i <= j => p.response[j] <= p.response[i] /\ p.restore[j] <= p.restore[i]
  <2> SUFFICES ASSUME NEW i \in 1..5, NEW j \in 1..5, i <= j
               PROVE  p.response[j] <= p.response[i] /\ p.restore[j] <= p.restore[i]
    OBVIOUS
  <2>1. CASE i = j
    BY <2>1 DEF Loads, ClocksTighten
  <2>2. CASE i < j
    BY <2>2 DEF Loads, ClocksTighten
  <2>3. QED BY <2>1, <2>2
<1> HIDE DEF r, m
<1>6. /\ p.response[m] <= p.response[r]
      /\ p.restore[m] <= p.restore[r]
  BY <1>1, <1>3, <1>5 DEF r
<1>7. QED BY <1>4, <1>6 DEF ResponseFor, RestoreFor

\* Under every pack that loads, each retry the pack allows has a delay of its own, and a positive
\* one: the clamp of `backoff_for` to the last entry is never what a permitted retry waits by.
THEOREM RetriesAreDelayed ==
  ASSUME NEW p, Loads(p), NEW n \in 1..p.backoff.retries
  PROVE  /\ n \in DOMAIN p.backoff.seconds
         /\ BackoffFor(p, n) = p.backoff.seconds[n] /\ BackoffFor(p, n) > 0
<1> DEFINE s == p.backoff.seconds
<1>1. /\ s \in Seq(Int) /\ n \in Int /\ 1 <= n /\ n <= Len(s)
      /\ \A d \in Range(s) : d > 0
  BY DEF Loads, BackoffCoversRetries
<1>2. n \in DOMAIN s /\ s # <<>> /\ Len(s) \in Int
  BY <1>1
<1>3. Max({n, 1}) = n /\ Min({n, Len(s)}) = n
  BY <1>1, <1>2, MaxOfTwo, MinOfTwo
<1>4. BackoffFor(p, n) = s[n]
  BY <1>2, <1>3 DEF BackoffFor
<1>5. s[n] \in Range(s)
  BY <1>2 DEF Range
<1>6. QED BY <1>1, <1>2, <1>4, <1>5

\* The quiet hours are the minutes of the day reached from their start before their end, going round
\* the clock, whichever of the two comes first in the day (`in_quiet_hours`, both branches).
THEOREM QuietHoursGoRoundTheClock ==
  ASSUME NEW c, NEW t \in 0..1439, c.from \in 0..1439, c.to \in 0..1439
  PROVE  InQuietHours(c, t) <=> (t - c.from) % 1440 < (c.to - c.from) % 1440
<1> DEFINE f == c.from
           g == c.to
<1>1. f \in 0..1439 /\ g \in 0..1439
  OBVIOUS
<1>2. InQuietHours(c, t) <=> IF f <= g THEN f <= t /\ t < g ELSE f <= t \/ t < g
  BY DEF InQuietHours
<1> HIDE DEF f, g
<1>3. /\ (t - f) % 1440 = IF f <= t THEN t - f ELSE t - f + 1440
      /\ (g - f) % 1440 = IF f <= g THEN g - f ELSE g - f + 1440
  <2>1. (t - f) % 1440 = IF f <= t THEN t - f ELSE t - f + 1440
    BY <1>1
  <2>2. (g - f) % 1440 = IF f <= g THEN g - f ELSE g - f + 1440
    BY <1>1
  <2>3. QED BY <2>1, <2>2
<1>4. (IF f <= g THEN f <= t /\ t < g ELSE f <= t \/ t < g) <=> (t - f) % 1440 < (g - f) % 1440
  <2>1. CASE f <= g
    BY <1>1, <1>3, <2>1
  <2>2. CASE ~(f <= g)
    BY <1>1, <1>3, <2>2
  <2>3. QED BY <2>1, <2>2
<1>5. QED BY <1>2, <1>4 DEF f, g

\* Under every pack that loads, a healthier score is never put in a worse band (`band_for`).
THEOREM HealthierIsNoWorseBand ==
  ASSUME NEW p, Loads(p), NEW low \in Int, NEW high \in Int, low <= high
  PROVE  /\ BandFor(p, low) = "healthy" => BandFor(p, high) = "healthy"
         /\ BandFor(p, low) = "degraded" => BandFor(p, high) \in {"healthy", "degraded"}
         /\ BandFor(p, low) = "at_risk" => BandFor(p, high) # "critical"
<1>1. p.bands[1] \in Int /\ p.bands[2] \in Int /\ p.bands[3] \in Int
  BY DEF Loads, BandsDescend
<1>2. p.bands[1] > p.bands[2] /\ p.bands[2] > p.bands[3]
  BY DEF Loads, BandsDescend
<1>3. QED BY <1>1, <1>2 DEF BandFor
-----------------------------------------------------------------------------
(* What a service's pack and a case's facts can be *)

RequestTypes ==
  [ action : ActionType, role : Principals \cup {"auditor", "none"}, executed : BOOLEAN,
    sources : Int, age : Int, flags : SUBSET Flags, confidence : Int, competing : Int,
    attempt : Int, radius : Int, severity : DOMAIN Rank, in_window : BOOLEAN, vulnerable : BOOLEAN,
    time : Int, contacts : Int, since : Int, validated : BOOLEAN, reconciled : BOOLEAN ]

Inv ==
  /\ pack = Unavailable \/ Loads(pack)
  /\ request \in RequestTypes
  /\ request.action = "close_incident" => request.radius = Unknown

\* One fact getting worse leaves a request a request for the same action.
LEMMA WorseIsARequest ==
  ASSUME NEW r \in RequestTypes, NEW w \in Worse(r)
  PROVE  w \in RequestTypes /\ w.action = r.action /\ (r.radius = Unknown => w.radius = Unknown)
<1> DEFINE Kept == w \in RequestTypes /\ w.action = r.action /\ (r.radius = Unknown => w.radius = Unknown)
<1>1. CASE w \in WorseEvidence(r)
  <2>1. CASE \E n \in {Unknown, 0, 1, 2, 3} : w = [r EXCEPT !.sources = n]
    BY <2>1 DEF RequestTypes, Unknown
  <2>2. CASE \E n \in {16, 31, 61} : w = [r EXCEPT !.age = n]
    BY <2>2 DEF RequestTypes
  <2>3. CASE \E f \in Flags : w = [r EXCEPT !.flags = @ \cup {f}]
    BY <2>3 DEF RequestTypes
  <2>4. QED BY <1>1, <2>1, <2>2, <2>3 DEF WorseEvidence
<1>2. CASE w \in WorseDiagnosis(r)
  <2>1. CASE \E n \in {Unknown, 40, 66, 72, 80} : w = [r EXCEPT !.confidence = n]
    BY <2>1 DEF RequestTypes, Unknown
  <2>2. CASE \E n \in {40, 66, 72} : w = [r EXCEPT !.competing = n]
    BY <2>2 DEF RequestTypes
  <2>3. QED BY <1>2, <2>1, <2>2 DEF WorseDiagnosis
<1>3. CASE w \in WorseReach(r)
  <2>1. CASE r.radius # Unknown /\ \E n \in {9, 26, 65, 2001} : w = [r EXCEPT !.radius = n]
    BY <2>1 DEF RequestTypes
  <2>2. CASE \E n \in 2..3 : w = [r EXCEPT !.attempt = n]
    BY <2>2 DEF RequestTypes
  <2>3. CASE w \in {[r EXCEPT !.in_window = FALSE], [r EXCEPT !.executed = TRUE]}
    BY <2>3 DEF RequestTypes
  <2>4. CASE \E x \in {"auditor", "none"} : w = [r EXCEPT !.role = x]
    BY <2>4 DEF RequestTypes
  <2>5. QED BY <1>3, <2>1, <2>2, <2>3, <2>4 DEF WorseReach
<1>4. CASE w \in WorseContact(r)
  <2>1. CASE \E t \in {1320, 120} : w = [r EXCEPT !.time = t]
    BY <2>1 DEF RequestTypes
  <2>2. CASE w \in {[r EXCEPT !.severity = "high"], [r EXCEPT !.vulnerable = TRUE]}
    BY <2>2 DEF RequestTypes, Rank
  <2>3. CASE w = [r EXCEPT !.since = 59]
    BY <2>3 DEF RequestTypes
  <2>4. CASE \E n \in {2, 3} : w = [r EXCEPT !.contacts = n]
    BY <2>4 DEF RequestTypes
  <2>5. QED BY <1>4, <2>1, <2>2, <2>3, <2>4 DEF WorseContact
<1>5. CASE w \in WorseProof(r)
  <2>1. CASE w = [r EXCEPT !.validated = FALSE]
    BY <2>1 DEF RequestTypes
  <2>2. CASE w = [r EXCEPT !.reconciled = FALSE]
    BY <2>2 DEF RequestTypes
  <2>3. QED BY <1>5, <2>1, <2>2 DEF WorseProof
<1>6. QED BY <1>1, <1>2, <1>3, <1>4, <1>5 DEF Worse

\* The engine holds a pack that loads or none, and a closing case never gains a radius.
LEMMA Invariance == Spec => []Inv
<1>1. Init => Inv
  <2> SUFFICES ASSUME Init PROVE Inv
    OBVIOUS
  <2>1. pack = Unavailable \/ Loads(pack)
    BY DEF Init, LoadOrUnavailable
  <2>2. PICK role \in Principals, a \in ActionType : request = Best(role, a)
    BY DEF Init
  <2>3. request \in RequestTypes
    BY <2>2 DEF Best, RequestTypes, Rank, Unknown
  <2>4. request.action = "close_incident" => request.radius = Unknown
    BY <2>2 DEF Best
  <2>5. QED BY <2>1, <2>3, <2>4 DEF Inv
<1>2. Inv /\ [Next]_vars => Inv'
  <2> SUFFICES ASSUME Inv, [Next]_vars PROVE Inv'
    OBVIOUS
  <2>1. CASE Worsen
    BY <2>1, WorseIsARequest DEF Inv, Worsen
  <2>2. CASE Reload
    BY <2>2 DEF Inv, Reload, LoadOrUnavailable
  <2>3. CASE UNCHANGED vars
    BY <2>3 DEF Inv, vars
  <2>4. QED BY <2>1, <2>2, <2>3 DEF Next
<1>3. QED BY <1>1, <1>2, PTL DEF Spec
-----------------------------------------------------------------------------
(* The decisions *)

\* What the checks find is a block or a demand of a kind there is.
LEMMA FindingsAreKnown ==
  ASSUME NEW p, Loads(p), NEW r \in RequestTypes
  PROVE  Findings(p, r) \subseteq ApprovalKind \cup {Block}
<1> DEFINE row == p.rows[r.action]
           Known == ApprovalKind \cup {Block}
<1>1. /\ CheckAllowlist(p, r) \subseteq Known /\ CheckRole(r) \subseteq Known
      /\ CheckDuplicate(r) \subseteq Known /\ CheckEvidence(p, r) \subseteq Known
      /\ CheckWindow(p, r) \subseteq Known /\ CheckContact(p, r) \subseteq Known
  BY DEF CheckAllowlist, CheckRole, CheckDuplicate, CheckEvidence, CheckWindow, CheckContact, Finding
<1>2. /\ CheckConfidence(p, r) \subseteq Known /\ CheckBlastRadius(p, r) \subseteq Known
      /\ CheckClosure(p, r) \subseteq Known
  BY DEF CheckConfidence, CheckBlastRadius, CheckClosure, Finding, ApprovalKind
<1>3. KindOf(p, row) \in ApprovalKind \cup {"none"}
  <2>1. r.action \in DOMAIN p.rows
    BY DEF Loads, RowsAreComplete, RequestTypes
  <2>2. row \in Range(p.rows)
    BY <2>1 DEF Range
  <2>3. p.risks[row.risk] \in Range(p.risks)
    BY <2>2 DEF Loads, RowsAreCoherent, Range
  <2>4. QED BY <2>2, <2>3 DEF Loads, FieldsAreTyped, KindOf
<1>4. CheckAttempts(p, r) \subseteq Known /\ CheckRiskClass(p, r) \subseteq Known
  BY <1>3 DEF CheckAttempts, CheckRiskClass, Finding, ApprovalKind
<1>5. QED BY <1>1, <1>2, <1>4 DEF Findings

\* How many roles may sign for each kind
LEMMA ApproverCounts ==
  /\ Cardinality(ApproversFor("clean_to_dirty_handover")) = 4
  /\ Cardinality(ApproversFor("dispatch")) = 3 /\ Cardinality(ApproversFor("exceptional_closure")) = 2
  /\ Cardinality(ApproversFor("high_blast_radius_action")) = 2
  /\ Cardinality(ApproversFor("high_risk_remote_action")) = 3
  /\ Cardinality(ApproversFor("low_confidence_rca")) = 4
<1>1. /\ IsFiniteSet({}) /\ Cardinality({}) = 0
      /\ \A S, x : IsFiniteSet(S) /\ x \notin S =>
           IsFiniteSet(S \cup {x}) /\ Cardinality(S \cup {x}) = Cardinality(S) + 1
  BY FS_EmptySet, FS_AddElement
<1> DEFINE S1 == {"noc_supervisor"} S2 == {"noc_supervisor", "admin"}
           S3 == {"noc_operator", "noc_supervisor", "admin"}
           S4 == {"noc_operator", "noc_supervisor", "osp_engineer", "admin"}
           T3 == {"osp_engineer", "noc_supervisor", "admin"}
           T4 == {"osp_engineer", "noc_supervisor", "field_technician", "admin"}
<1>2. /\ S1 = {} \cup {"noc_supervisor"} /\ S2 = S1 \cup {"admin"} /\ S3 = S2 \cup {"noc_operator"}
      /\ S4 = S3 \cup {"osp_engineer"} /\ T3 = S2 \cup {"osp_engineer"}
      /\ T4 = T3 \cup {"field_technician"}
  OBVIOUS
<1>3. /\ "admin" \notin S1 /\ "noc_operator" \notin S2 /\ "osp_engineer" \notin S3
      /\ "osp_engineer" \notin S2 /\ "field_technician" \notin T3
  OBVIOUS
<1> HIDE DEF S1, S2, S3, S4, T3, T4
<1>4. IsFiniteSet(S1) /\ Cardinality(S1) = 1
  BY <1>1, <1>2
<1>5. IsFiniteSet(S2) /\ Cardinality(S2) = 2
  <2>1. S2 = S1 \cup {"admin"} /\ "admin" \notin S1 /\ IsFiniteSet(S1) /\ Cardinality(S1) = 1
    BY <1>2, <1>3, <1>4
  <2>2. QED BY <2>1, <1>1
<1>6. IsFiniteSet(S3) /\ Cardinality(S3) = 3
  <2>1. S3 = S2 \cup {"noc_operator"} /\ "noc_operator" \notin S2 /\ IsFiniteSet(S2) /\ Cardinality(S2) = 2
    BY <1>2, <1>3, <1>5
  <2>2. QED BY <2>1, <1>1
<1>7. IsFiniteSet(S4) /\ Cardinality(S4) = 4
  <2>1. S4 = S3 \cup {"osp_engineer"} /\ "osp_engineer" \notin S3 /\ IsFiniteSet(S3) /\ Cardinality(S3) = 3
    BY <1>2, <1>3, <1>6
  <2>2. QED BY <2>1, <1>1
<1>8. IsFiniteSet(T3) /\ Cardinality(T3) = 3
  <2>1. T3 = S2 \cup {"osp_engineer"} /\ "osp_engineer" \notin S2 /\ IsFiniteSet(S2) /\ Cardinality(S2) = 2
    BY <1>2, <1>3, <1>5
  <2>2. QED BY <2>1, <1>1
<1>9. IsFiniteSet(T4) /\ Cardinality(T4) = 4
  <2>1. T4 = T3 \cup {"field_technician"} /\ "field_technician" \notin T3 /\ IsFiniteSet(T3) /\ Cardinality(T3) = 3
    BY <1>2, <1>3, <1>8
  <2>2. QED BY <2>1, <1>1
<1>10. /\ ApproversFor("clean_to_dirty_handover") = T4 /\ ApproversFor("dispatch") = S3
       /\ ApproversFor("exceptional_closure") = S2 /\ ApproversFor("high_blast_radius_action") = S2
       /\ ApproversFor("high_risk_remote_action") = S3 /\ ApproversFor("low_confidence_rca") = S4
  BY DEF ApproversFor, S2, S3, S4, T4
<1>11. QED BY <1>5, <1>6, <1>7, <1>9, <1>10

\* Each kind's place in the order of `_most_restrictive`
LEMMA Narrow ==
  /\ Narrowness("clean_to_dirty_handover") = 41 /\ Narrowness("dispatch") = 32
  /\ Narrowness("exceptional_closure") = 23 /\ Narrowness("high_blast_radius_action") = 24
  /\ Narrowness("high_risk_remote_action") = 35 /\ Narrowness("low_confidence_rca") = 46
<1>1. /\ Place("clean_to_dirty_handover") = 1 /\ Place("dispatch") = 2
      /\ Place("exceptional_closure") = 3 /\ Place("high_blast_radius_action") = 4
      /\ Place("high_risk_remote_action") = 5 /\ Place("low_confidence_rca") = 6
  <2>1. Place("clean_to_dirty_handover") = 1
    BY DEF Place, ByName
  <2>2. Place("dispatch") = 2
    BY DEF Place, ByName
  <2>3. Place("exceptional_closure") = 3
    BY DEF Place, ByName
  <2>4. Place("high_blast_radius_action") = 4
    BY DEF Place, ByName
  <2>5. Place("high_risk_remote_action") = 5
    BY DEF Place, ByName
  <2>6. Place("low_confidence_rca") = 6
    BY DEF Place, ByName
  <2>7. QED BY <2>1, <2>2, <2>3, <2>4, <2>5, <2>6
<1>2. QED BY <1>1, ApproverCounts DEF Narrowness

\* Of any demands one is the narrowest.
LEMMA NarrowestExists ==
  ASSUME NEW kinds \in SUBSET ApprovalKind, kinds # {}
  PROVE  \E k \in kinds : \A other \in kinds : Narrowness(k) <= Narrowness(other)
<1>1. CASE "exceptional_closure" \in kinds
  BY <1>1, Narrow DEF ApprovalKind
<1>2. CASE "exceptional_closure" \notin kinds /\ "high_blast_radius_action" \in kinds
  BY <1>2, Narrow DEF ApprovalKind
<1>3. CASE kinds \cap {"exceptional_closure", "high_blast_radius_action"} = {} /\ "dispatch" \in kinds
  BY <1>3, Narrow DEF ApprovalKind
<1>4. CASE /\ kinds \cap {"exceptional_closure", "high_blast_radius_action", "dispatch"} = {}
           /\ "high_risk_remote_action" \in kinds
  BY <1>4, Narrow DEF ApprovalKind
<1>5. CASE /\ kinds \subseteq {"clean_to_dirty_handover", "low_confidence_rca"}
           /\ "clean_to_dirty_handover" \in kinds
  BY <1>5, Narrow
<1>6. CASE kinds = {"low_confidence_rca"}
  BY <1>6, Narrow
<1>7. QED BY <1>1, <1>2, <1>3, <1>4, <1>5, <1>6 DEF ApprovalKind

\* The choice among demands is one of them.
LEMMA OneIsChosen ==
  ASSUME NEW kinds \in SUBSET ApprovalKind, kinds # {}
  PROVE  MostRestrictive(kinds) \in kinds
BY NarrowestExists DEF MostRestrictive
-----------------------------------------------------------------------------
\* Whatever pack a file leaves loaded, no set of facts and no role gets anything but a read past the
\* flags the code itself refuses (`BLOCKING_FLAGS`): not even to a human.
THEOREM FloorKept == Spec => []FloorHolds
<1>1. Inv => FloorHolds
  <2> SUFFICES ASSUME Inv, request.flags \cap FlagsFloor # {}, request.action \notin ReadOnly
               PROVE  Decision = Block
    BY DEF FloorHolds
  <2>1. CASE pack = Unavailable
    BY <2>1 DEF Decision, Evaluate
  <2>2. CASE Loads(pack)
    <3>1. request.flags \cap pack.flags # {}
      BY <2>2 DEF Loads, FlagsKeepTheFloor
    <3>2. Block \in CheckEvidence(pack, request)
      BY <3>1 DEF CheckEvidence, Finding
    <3>3. CheckAllowlist(pack, request) \subseteq {Block}
      BY DEF CheckAllowlist, Finding
    <3>4. Block \in Findings(pack, request)
      BY <3>2, <3>3 DEF Findings
    <3>5. QED BY <3>4 DEF Decision, Evaluate
  <2>3. QED BY <2>1, <2>2 DEF Inv
<1>2. QED BY <1>1, Invariance, PTL

\* Whatever pack a file leaves loaded, the one demand chosen among those of the checks has a rule in
\* the pack, and the role the rule names may sign for it.
THEOREM DemandsRoutable == Spec => []DemandsAreRoutable
<1>1. Inv => DemandsAreRoutable
  <2> SUFFICES ASSUME Inv, Decision # Block, Decision # "allowed"
               PROVE  RequiredRole(pack, Decision) \in ApproversFor(Decision)
    BY DEF DemandsAreRoutable
  <2>1. pack # Unavailable /\ Block \notin Findings(pack, request) /\ Findings(pack, request) # {}
    BY DEF Decision, Evaluate
  <2>2. Loads(pack) /\ request \in RequestTypes
    BY <2>1 DEF Inv
  <2>3. Findings(pack, request) \in SUBSET ApprovalKind
    BY <2>1, <2>2, FindingsAreKnown
  <2>4. Decision \in ApprovalKind
    BY <2>1, <2>3, OneIsChosen DEF Decision, Evaluate
  <2>5. QED BY <2>2, <2>4 DEF Loads, KindsAreConfigured, FloorsMayApprove, RequiredRole
<1>2. QED BY <1>1, Invariance, PTL

LEMMA OneOfOne ==
  ASSUME NEW k \in ApprovalKind
  PROVE  MostRestrictive({k}) = k
<1>1. MostRestrictive({k}) \in {k}
  BY OneIsChosen
<1>2. QED BY <1>1

\* Whatever pack a file leaves loaded, a closure is put to the closing gate or to nobody, and one
\* whose proof the pack requires and the case lacks is never simply allowed.
THEOREM ClosureGated == Spec => []ClosureHasItsGate
<1>1. Inv => ClosureHasItsGate
  <2> DEFINE row == pack.rows["close_incident"]
  <2> SUFFICES ASSUME Inv, request.action = "close_incident", pack # Unavailable,
                      ~Asks(pack, row), row.counter = "none"
               PROVE  /\ Decision \in {"allowed", Block, "exceptional_closure"}
                      /\ ~request.validated /\ pack.closure.proof => Decision # "allowed"
    BY DEF ClosureHasItsGate
  <2>1. Loads(pack) /\ request \in RequestTypes /\ request.radius = Unknown
    BY DEF Inv
  <2> DEFINE Closing == {Block, "exceptional_closure"}
  <2>2. /\ CheckAllowlist(pack, request) \subseteq Closing /\ CheckRole(request) \subseteq Closing
        /\ CheckDuplicate(request) \subseteq Closing /\ CheckEvidence(pack, request) \subseteq Closing
        /\ CheckWindow(pack, request) \subseteq Closing /\ CheckContact(pack, request) \subseteq Closing
    BY DEF CheckAllowlist, CheckRole, CheckDuplicate, CheckEvidence, CheckWindow, CheckContact, Finding
  <2>3. CheckConfidence(pack, request) \subseteq Closing /\ CheckClosure(pack, request) \subseteq Closing
    BY DEF CheckConfidence, CheckClosure, Finding
  <2>4. CheckAttempts(pack, request) = {} /\ CheckRiskClass(pack, request) = {}
    BY DEF CheckAttempts, CheckRiskClass, Finding
  <2>5. CheckBlastRadius(pack, request) \subseteq Closing
    <3>1. ~(request.radius > pack.threshold)
      BY <2>1 DEF Loads, FieldsAreTyped, Unknown
    <3>2. QED BY <3>1 DEF CheckBlastRadius, Finding
  <2>6. Findings(pack, request) \subseteq Closing
    BY <2>2, <2>3, <2>4, <2>5 DEF Findings
  <2>7. Decision \in {"allowed", Block, "exceptional_closure"}
    <3>1. CASE Block \in Findings(pack, request) \/ Findings(pack, request) = {}
      BY <3>1 DEF Decision, Evaluate
    <3>2. CASE Findings(pack, request) = {"exceptional_closure"}
      BY <3>2, OneOfOne DEF Decision, Evaluate, ApprovalKind
    <3>3. QED BY <2>6, <3>1, <3>2
  <2>8. ASSUME ~request.validated, pack.closure.proof
        PROVE  Decision # "allowed"
    <3>1. CheckClosure(pack, request) # {}
      BY <2>8 DEF CheckClosure, Finding
    <3>2. Findings(pack, request) # {}
      BY <3>1 DEF Findings
    <3>3. CASE Block \in Findings(pack, request)
      BY <3>3 DEF Decision, Evaluate, Block
    <3>4. CASE Findings(pack, request) = {"exceptional_closure"}
      BY <3>4, OneOfOne DEF Decision, Evaluate, ApprovalKind, Block
    <3>5. QED BY <2>6, <3>2, <3>3, <3>4
  <2>9. QED BY <2>7, <2>8
<1>2. QED BY <1>1, Invariance, PTL

\* Whatever pack a file leaves loaded, evidence and diagnosis have no say over a read: what is read to
\* get evidence cannot be stopped for want of it.
THEOREM ReadsOpen == Spec => []ReadsStayOpen
<1>1. Inv => ReadsStayOpen
  <2> DEFINE best == [request EXCEPT !.sources = 4, !.age = 0, !.flags = {}, !.confidence = 95,
                                     !.competing = Unknown]
  <2> SUFFICES ASSUME Inv, request.action \in ReadOnly PROVE Decision = Evaluate(pack, best)
    BY DEF ReadsStayOpen
  <2>1. /\ best.action = request.action /\ best.role = request.role /\ best.executed = request.executed
        /\ best.attempt = request.attempt /\ best.radius = request.radius
        /\ best.severity = request.severity /\ best.in_window = request.in_window
        /\ best.vulnerable = request.vulnerable /\ best.time = request.time
        /\ best.contacts = request.contacts /\ best.since = request.since
        /\ best.validated = request.validated /\ best.reconciled = request.reconciled
    BY DEF Inv, RequestTypes
  <2> HIDE DEF best
  <2>2. /\ CheckEvidence(pack, request) = {} /\ CheckEvidence(pack, best) = {}
        /\ CheckConfidence(pack, request) = {} /\ CheckConfidence(pack, best) = {}
    BY <2>1 DEF CheckEvidence, CheckConfidence, Finding
  <2>3. /\ CheckAllowlist(pack, request) = CheckAllowlist(pack, best)
        /\ CheckRole(request) = CheckRole(best) /\ CheckDuplicate(request) = CheckDuplicate(best)
    BY <2>1 DEF CheckAllowlist, CheckRole, CheckDuplicate
  <2>4. /\ CheckAttempts(pack, request) = CheckAttempts(pack, best)
        /\ CheckBlastRadius(pack, request) = CheckBlastRadius(pack, best)
        /\ CheckRiskClass(pack, request) = CheckRiskClass(pack, best)
    BY <2>1 DEF CheckAttempts, CheckBlastRadius, CheckRiskClass
  <2>5. /\ CheckWindow(pack, request) = CheckWindow(pack, best)
        /\ CheckContact(pack, request) = CheckContact(pack, best)
        /\ CheckClosure(pack, request) = CheckClosure(pack, best)
    BY <2>1 DEF CheckWindow, CheckContact, CheckClosure
  <2>6. Findings(pack, request) = Findings(pack, best)
    BY <2>2, <2>3, <2>4, <2>5 DEF Findings
  <2>7. QED BY <2>6 DEF Decision, Evaluate
<1>2. QED BY <1>1, Invariance, PTL

-----------------------------------------------------------------------------
(* A weaker ground is never a freer decision *)

\* s is no better a ground for the action than r is, fact by fact, however many facts are worse.  Of
\* two hypotheses in doubt the leading one is not behind its runner-up.
NoBetterAsk(r, s) ==
  /\ s.action = r.action
  /\ Permits(s.role, s.action) => Permits(r.role, r.action)
  /\ r.executed => s.executed
  /\ r.attempt <= s.attempt /\ r.radius <= s.radius
  /\ s.in_window => r.in_window
NoBetterEvidence(r, s) == s.sources <= r.sources /\ r.age <= s.age /\ r.flags \subseteq s.flags
NoBetterDiagnosis(r, s) ==
  /\ s.confidence <= r.confidence
  /\ Unknown <= r.competing /\ r.competing <= s.competing /\ s.competing <= s.confidence
NoBetterContact(c, r, s) ==
  /\ Rank[s.severity] <= Rank[r.severity]
  /\ r.vulnerable => s.vulnerable
  /\ r.time # Unknown /\ InQuietHours(c, r.time) => s.time # Unknown /\ InQuietHours(c, s.time)
  /\ r.contacts <= s.contacts
  /\ r.since # Unknown => s.since # Unknown /\ s.since <= r.since
NoBetterProof(r, s) == (s.validated => r.validated) /\ (s.reconciled => r.reconciled)
NoBetterGround(c, r, s) ==
  /\ NoBetterAsk(r, s) /\ NoBetterEvidence(r, s) /\ NoBetterDiagnosis(r, s)
  /\ NoBetterContact(c, r, s) /\ NoBetterProof(r, s)

\* The largest of four numbers is a number.
LEMMA MaxOfFour ==
  ASSUME NEW a \in Int, NEW b \in Int, NEW c \in Int, NEW d \in Int
  PROVE  Max({a, b, c, d}) \in Int
<1> DEFINE S == {a, b, c, d}
<1>1. \E x \in S : \A y \in S : x >= y
  <2>1. PICK x \in {a, b} : x >= a /\ x >= b
    OBVIOUS
  <2>2. PICK y \in {c, d} : y >= c /\ y >= d
    OBVIOUS
  <2>3. CASE x >= y
    BY <2>1, <2>2, <2>3
  <2>4. CASE ~(x >= y)
    BY <2>1, <2>2, <2>4
  <2>5. QED BY <2>3, <2>4
<1>2. QED BY <1>1 DEF Max

\* The bars a pack that loads holds an action to are numbers.
LEMMA BarsAreNumbers ==
  ASSUME NEW p, Loads(p), NEW a \in ActionType
  PROVE  /\ MinSourcesFor(p, DecisionClass(a)) \in Int /\ MaxAgeFor(p, DecisionClass(a)) \in Int
         /\ MinimumFor(p, DecisionClass(a)) \in Int /\ p.ambiguity \in Int
<1>1. /\ p.sources \in [{"diagnosis", "remote_action", "dispatch", "closure"} -> Nat]
      /\ p.bars \in [{"remote_action", "dispatch", "mr", "autonomous"} -> Nat]
      /\ {p.age.telemetry, p.age.dispatch, p.ambiguity} \subseteq Nat
  BY DEF Loads, FieldsAreTyped
<1>2. MinSourcesFor(p, DecisionClass(a)) \in Int
  <2>1. Range(p.sources) = {p.sources["diagnosis"], p.sources["remote_action"], p.sources["dispatch"],
                            p.sources["closure"]}
    BY <1>1 DEF Range
  <2>2. Max(Range(p.sources)) \in Int
    <3>1. /\ p.sources["diagnosis"] \in Int /\ p.sources["remote_action"] \in Int
          /\ p.sources["dispatch"] \in Int /\ p.sources["closure"] \in Int
      BY <1>1
    <3>2. Max({p.sources["diagnosis"], p.sources["remote_action"], p.sources["dispatch"],
               p.sources["closure"]}) \in Int
      BY <3>1, MaxOfFour
    <3>3. QED BY <2>1, <3>2
  <2>3. QED BY <1>1, <2>2 DEF MinSourcesFor
<1>3. MinimumFor(p, DecisionClass(a)) \in Int
  <2>1. Range(p.bars) = {p.bars["remote_action"], p.bars["dispatch"], p.bars["mr"], p.bars["autonomous"]}
    BY <1>1 DEF Range
  <2>2. Max(Range(p.bars)) \in Int
    <3>1. /\ p.bars["remote_action"] \in Int /\ p.bars["dispatch"] \in Int
          /\ p.bars["mr"] \in Int /\ p.bars["autonomous"] \in Int
      BY <1>1
    <3>2. Max({p.bars["remote_action"], p.bars["dispatch"], p.bars["mr"], p.bars["autonomous"]}) \in Int
      BY <3>1, MaxOfFour
    <3>3. QED BY <2>1, <3>2
  <2>3. QED BY <1>1, <2>2 DEF MinimumFor
<1>4. MaxAgeFor(p, DecisionClass(a)) \in Int
  BY <1>1 DEF MaxAgeFor
<1>5. QED BY <1>1, <1>2, <1>3, <1>4

\* The row of an action, its cap and its limits, in a pack that loads
LEMMA RowIsRead ==
  ASSUME NEW p, Loads(p), NEW a \in ActionType
  PROVE  LET row == p.rows[a]
         IN /\ row \in Range(p.rows) /\ a \in DOMAIN p.rows
            /\ BlastRadiusCapFor(p, row) \in Int /\ p.threshold \in Int
            /\ row.counter # "none" => p.limits[row.counter] \in Int
            /\ row.counter \in DOMAIN p.reasons => p.reasons[row.counter] \in Int
<1> DEFINE row == p.rows[a]
           cap == p.risks[row.risk].cap
<1>1. a \in DOMAIN p.rows /\ row \in Range(p.rows)
  BY DEF Loads, RowsAreComplete, Range
<1>2. cap \in Int
  <2>1. p.risks[row.risk] \in Range(p.risks)
    BY <1>1 DEF Loads, RowsAreCoherent, Range
  <2>2. QED BY <2>1 DEF Loads, FieldsAreTyped
<1>3. BlastRadiusCapFor(p, row) \in Int
  <2>1. row.caps \subseteq Nat /\ \A m, n \in row.caps : m = n
    BY <1>1 DEF Loads, FieldsAreTyped
  <2>2. CASE row.caps = {}
    <3>1. row.caps \cup {cap} = {cap, cap}
      BY <2>2
    <3>2. Min({cap, cap}) \in Int
      BY <1>2, MinOfTwo
    <3>3. QED BY <3>1, <3>2 DEF BlastRadiusCapFor
  <2>3. CASE row.caps # {}
    <3>1. PICK n \in row.caps : row.caps = {n}
      BY <2>1, <2>3
    <3>2. n \in Int /\ row.caps \cup {cap} = {n, cap}
      BY <2>1, <3>1
    <3>3. Min({n, cap}) \in Int
      BY <1>2, <3>2, MinOfTwo
    <3>4. QED BY <3>2, <3>3 DEF BlastRadiusCapFor
  <2>4. QED BY <2>2, <2>3
<1>4. row.counter # "none" => p.limits[row.counter] \in Int
  BY <1>1 DEF Loads, FieldsAreTyped, RowsAreCoherent
<1>5. row.counter \in DOMAIN p.reasons => p.reasons[row.counter] \in Int
  BY DEF Loads, FieldsAreTyped, Range
<1>6. QED BY <1>1, <1>3, <1>4, <1>5 DEF Loads, FieldsAreTyped

\* Check by check: what was found on the better ground is found on the weaker one, or the action blocked.
LEMMA FindingsGrow ==
  ASSUME NEW p, Loads(p), NEW r \in RequestTypes, NEW s \in RequestTypes, NoBetterGround(p.contact, r, s)
  PROVE  Block \in Findings(p, s) \/ Findings(p, r) \subseteq Findings(p, s)
<1> DEFINE a == r.action
           row == p.rows[a]
<1>1. a \in ActionType /\ s.action = a
  BY DEF RequestTypes, NoBetterGround, NoBetterAsk
<1>2. /\ CheckAllowlist(p, r) = CheckAllowlist(p, s) /\ CheckRiskClass(p, r) = CheckRiskClass(p, s)
      /\ CheckAllowlist(p, r) \subseteq {Block}
  BY <1>1 DEF CheckAllowlist, CheckRiskClass, Finding
<1>3. CheckRole(r) \subseteq CheckRole(s) /\ CheckDuplicate(r) \subseteq CheckDuplicate(s)
  BY DEF CheckRole, CheckDuplicate, Finding, NoBetterGround, NoBetterAsk
<1>4. CheckEvidence(p, r) \subseteq CheckEvidence(p, s)
  <2> DEFINE sources == MinSourcesFor(p, DecisionClass(a))
             age == MaxAgeFor(p, DecisionClass(a))
  <2>1. sources \in Int /\ age \in Int
    BY <1>1, BarsAreNumbers
  <2>2. CheckEvidence(p, r) = Finding(a \notin ReadOnly /\ (r.sources < sources \/ r.age > age \/ r.flags \cap p.flags # {}), Block)
    BY DEF CheckEvidence
  <2>3. CheckEvidence(p, s) = Finding(a \notin ReadOnly /\ (s.sources < sources \/ s.age > age \/ s.flags \cap p.flags # {}), Block)
    BY <1>1 DEF CheckEvidence
  <2> HIDE DEF sources, age, a
  <2>4. /\ r.sources < sources => s.sources < sources
        /\ r.age > age => s.age > age
        /\ r.flags \cap p.flags # {} => s.flags \cap p.flags # {}
    BY <2>1 DEF RequestTypes, NoBetterGround, NoBetterEvidence
  <2>5. QED BY <2>2, <2>3, <2>4 DEF Finding
<1>5. CheckConfidence(p, r) \subseteq CheckConfidence(p, s)
  <2> DEFINE bar == MinimumFor(p, DecisionClass(a))
             Doubtful(q) == \/ q.confidence < bar
                            \/ /\ q.confidence # Unknown /\ q.competing # Unknown
                               /\ q.confidence - q.competing \in -(p.ambiguity - 1)..(p.ambiguity - 1)
             demand == IF a = "close_incident" THEN "exceptional_closure" ELSE "low_confidence_rca"
  <2>1. bar \in Int /\ p.ambiguity \in Int
    BY <1>1, BarsAreNumbers
  <2>2. /\ CheckConfidence(p, r) = Finding(a \notin ReadOnly /\ Doubtful(r), demand)
        /\ CheckConfidence(p, s) = Finding(a \notin ReadOnly /\ Doubtful(s), demand)
    BY <1>1 DEF CheckConfidence
  <2> HIDE DEF bar, a
  <2>3. Doubtful(r) => Doubtful(s)
    BY <2>1 DEF RequestTypes, NoBetterGround, NoBetterDiagnosis, Unknown
  <2> HIDE DEF demand, Doubtful
  <2>4. QED BY <2>2, <2>3 DEF Finding
<1>6. CheckAttempts(p, r) \subseteq CheckAttempts(p, s) \/ Block \in CheckAttempts(p, s)
  <2>1. /\ row.counter # "none" => p.limits[row.counter] \in Int
        /\ row.counter \in DOMAIN p.reasons => p.reasons[row.counter] \in Int
    BY <1>1, RowIsRead
  <2>2. /\ r.attempt > p.limits[row.counter] => row.counter = "none" \/ s.attempt > p.limits[row.counter]
        /\ row.counter \in DOMAIN p.reasons /\ r.attempt > p.reasons[row.counter] => s.attempt > p.reasons[row.counter]
    BY <2>1 DEF RequestTypes, NoBetterGround, NoBetterAsk
  <2>3. QED BY <1>1, <2>2 DEF CheckAttempts, Finding
<1>7. CheckBlastRadius(p, r) \subseteq CheckBlastRadius(p, s) \/ Block \in CheckBlastRadius(p, s)
  <2> DEFINE cap == BlastRadiusCapFor(p, row)
  <2>1. cap \in Int /\ p.threshold \in Int
    BY <1>1, RowIsRead
  <2>2. /\ CheckBlastRadius(p, r) = IF r.radius > cap THEN {Block} ELSE Finding(r.radius > p.threshold, "high_blast_radius_action")
        /\ CheckBlastRadius(p, s) = IF s.radius > cap THEN {Block} ELSE Finding(s.radius > p.threshold, "high_blast_radius_action")
    BY <1>1 DEF CheckBlastRadius
  <2> HIDE DEF cap
  <2>3. (r.radius > cap => s.radius > cap) /\ (r.radius > p.threshold => s.radius > p.threshold)
    BY <2>1 DEF RequestTypes, NoBetterGround, NoBetterAsk
  <2>4. QED BY <2>2, <2>3 DEF Finding
<1>8. CheckWindow(p, r) \subseteq CheckWindow(p, s) /\ CheckClosure(p, r) \subseteq CheckClosure(p, s)
  <2>1. CheckWindow(p, r) \subseteq CheckWindow(p, s)
    BY <1>1 DEF CheckWindow, Finding, NoBetterGround, NoBetterAsk
  <2>2. CheckClosure(p, r) \subseteq CheckClosure(p, s)
    BY <1>1 DEF CheckClosure, Finding, NoBetterGround, NoBetterProof
  <2>3. QED BY <2>1, <2>2
<1>9. CheckContact(p, r) \subseteq CheckContact(p, s)
  <2> DEFINE c == p.contact
             Night(q) == q.time # Unknown /\ InQuietHours(c, q.time) /\ Rank[q.severity] < Rank[c.override]
  <2>1. c.cap \in Int /\ c.spacing \in Int /\ Rank[c.override] \in Int
    BY DEF Loads, FieldsAreTyped, Rank
  <2>2. Rank[r.severity] \in Int /\ Rank[s.severity] \in Int
    BY DEF RequestTypes, Rank
  <2> HIDE DEF c
  <2>3. Night(r) => Night(s)
    <3>1. Rank[s.severity] <= Rank[r.severity]
      BY DEF NoBetterGround, NoBetterContact
    <3>2. Rank[r.severity] < Rank[c.override] => Rank[s.severity] < Rank[c.override]
      <4> HIDE DEF Rank
      <4>1. QED BY <2>1, <2>2, <3>1
    <3>3. r.time # Unknown /\ InQuietHours(c, r.time) => s.time # Unknown /\ InQuietHours(c, s.time)
      BY DEF NoBetterGround, NoBetterContact, c
    <3>4. QED BY <3>2, <3>3
  <2>4. r.contacts >= c.cap => s.contacts >= c.cap
    BY <2>1 DEF RequestTypes, NoBetterGround, NoBetterContact
  <2>5. r.since # Unknown /\ r.since < c.spacing => s.since # Unknown /\ s.since < c.spacing
    BY <2>1 DEF RequestTypes, NoBetterGround, NoBetterContact
  <2>6. r.vulnerable => s.vulnerable
    BY DEF NoBetterGround, NoBetterContact
  <2>7. /\ CheckContact(p, r) = Finding(/\ a \in CustomerContactActions
                                         /\ \/ r.vulnerable /\ a = "send_self_help" /\ c.skip
                                            \/ Night(r) \/ r.contacts >= c.cap
                                            \/ r.since # Unknown /\ r.since < c.spacing, Block)
        /\ CheckContact(p, s) = Finding(/\ a \in CustomerContactActions
                                         /\ \/ s.vulnerable /\ a = "send_self_help" /\ c.skip
                                            \/ Night(s) \/ s.contacts >= c.cap
                                            \/ s.since # Unknown /\ s.since < c.spacing, Block)
    BY <1>1 DEF CheckContact, c
  <2> HIDE DEF Night, a
  <2>8. QED BY <2>3, <2>4, <2>5, <2>6, <2>7 DEF Finding
<1> HIDE DEF a, row
<1>10. QED
  <2>1. CASE CheckAllowlist(p, r) # {}
    BY <1>2, <2>1 DEF Findings
  <2>2. CASE CheckAllowlist(p, r) = {}
    <3>1. Findings(p, r) = CheckRole(r) \cup CheckDuplicate(r) \cup CheckEvidence(p, r)
            \cup CheckConfidence(p, r) \cup CheckAttempts(p, r) \cup CheckBlastRadius(p, r)
            \cup CheckRiskClass(p, r) \cup CheckWindow(p, r) \cup CheckContact(p, r) \cup CheckClosure(p, r)
      BY <2>2 DEF Findings
    <3>2. Findings(p, s) = CheckRole(s) \cup CheckDuplicate(s) \cup CheckEvidence(p, s)
            \cup CheckConfidence(p, s) \cup CheckAttempts(p, s) \cup CheckBlastRadius(p, s)
            \cup CheckRiskClass(p, s) \cup CheckWindow(p, s) \cup CheckContact(p, s) \cup CheckClosure(p, s)
      BY <1>2, <2>2 DEF Findings
    <3>3. QED BY <1>2, <1>3, <1>4, <1>5, <1>6, <1>7, <1>8, <1>9, <3>1, <3>2, ZenonT(40)
  <2>3. QED BY <2>1, <2>2

\* What is chosen among more demands is signed for by no more roles.
LEMMA MoreDemandsNoWider ==
  ASSUME NEW few \in SUBSET ApprovalKind, NEW many \in SUBSET ApprovalKind, few # {}, few \subseteq many
  PROVE  /\ Strictness(MostRestrictive(few)) <= Strictness(MostRestrictive(many))
         /\ Strictness(MostRestrictive(many)) \in 0..10
<1> DEFINE a == MostRestrictive(few)
           b == MostRestrictive(many)
<1>1. a \in few /\ b \in many /\ a \in ApprovalKind /\ b \in ApprovalKind /\ a \in many
  BY OneIsChosen
<1>2. \A k \in ApprovalKind : \E roles \in 2..4, i \in 1..6 :
        Cardinality(ApproversFor(k)) = roles /\ Narrowness(k) = 10 * roles + i
  BY ApproverCounts, Narrow DEF ApprovalKind
<1>3. \E k \in many : \A other \in many : Narrowness(k) <= Narrowness(other)
  BY <1>1, NarrowestExists
<1>4. Narrowness(b) <= Narrowness(a)
  <2>1. \A other \in many : Narrowness(b) <= Narrowness(other)
    BY <1>3 DEF MostRestrictive
  <2>2. QED BY <1>1, <2>1
<1> HIDE DEF a, b
<1>5. Cardinality(ApproversFor(b)) <= Cardinality(ApproversFor(a))
      /\ Cardinality(ApproversFor(a)) \in 2..4 /\ Cardinality(ApproversFor(b)) \in 2..4
  <2>1. PICK m \in 2..4, i \in 1..6 : Cardinality(ApproversFor(a)) = m /\ Narrowness(a) = 10 * m + i
    BY <1>1, <1>2
  <2>2. PICK n \in 2..4, j \in 1..6 : Cardinality(ApproversFor(b)) = n /\ Narrowness(b) = 10 * n + j
    BY <1>1, <1>2
  <2>3. 10 * n + j <= 10 * m + i
    BY <1>4, <2>1, <2>2
  <2>4. n <= m
    BY <2>3
  <2>5. QED BY <2>1, <2>2, <2>4
<1>6. /\ Strictness(a) = 10 - Cardinality(ApproversFor(a))
      /\ Strictness(b) = 10 - Cardinality(ApproversFor(b))
  BY <1>1 DEF Strictness, ApprovalKind
<1>7. QED BY <1>5, <1>6 DEF a, b

\* Under every pack that loads, no weaker ground gets a freer decision: not one fact worse, nor all of
\* them at once (`evaluate`, its eleven checks and `_most_restrictive`).
THEOREM WeakerGroundIsNeverFreer ==
  ASSUME NEW p, Loads(p), NEW r \in RequestTypes, NEW s \in RequestTypes, NoBetterGround(p.contact, r, s)
  PROVE  Strictness(Evaluate(p, r)) <= Strictness(Evaluate(p, s))
<1> DEFINE Outcome(found) == IF Block \in found THEN Block
                             ELSE IF found = {} THEN "allowed" ELSE MostRestrictive(found)
           few == Findings(p, r)
           many == Findings(p, s)
<1>1. few \subseteq ApprovalKind \cup {Block} /\ many \subseteq ApprovalKind \cup {Block}
  BY FindingsAreKnown
<1>2. Block \in many \/ few \subseteq many
  BY FindingsGrow
<1>3. Strictness("allowed") = 0 /\ Strictness(Block) = 10
  BY DEF Strictness, ApprovalKind, Block
<1>4. p # Unavailable => Evaluate(p, r) = Outcome(few) /\ Evaluate(p, s) = Outcome(many)
  BY DEF Evaluate
<1>5. p = Unavailable => Evaluate(p, r) = Block /\ Evaluate(p, s) = Block
  BY DEF Evaluate
<1> HIDE DEF few, many
<1>6. \A found \in SUBSET ApprovalKind : found # {} => Strictness(MostRestrictive(found)) \in 0..10
  BY MoreDemandsNoWider
<1>7. Strictness(Outcome(few)) <= Strictness(Outcome(many))
  <2>1. CASE Block \in many
    <3>1. Outcome(many) = Block
      BY <2>1
    <3>2. CASE Block \in few \/ few = {}
      <4>1. Outcome(few) \in {Block, "allowed"}
        BY <3>2
      <4> HIDE DEF Outcome
      <4>2. QED BY <1>3, <3>1, <4>1
    <3>3. CASE Block \notin few /\ few # {}
      <4>1. few \in SUBSET ApprovalKind /\ Outcome(few) = MostRestrictive(few)
        BY <1>1, <3>3
      <4> HIDE DEF Outcome
      <4>2. QED BY <1>3, <1>6, <3>1, <3>3, <4>1
    <3>4. QED BY <3>2, <3>3
  <2>2. CASE Block \notin many
    <3>1. few \subseteq many /\ Block \notin few /\ few \in SUBSET ApprovalKind /\ many \in SUBSET ApprovalKind
      BY <1>1, <1>2, <2>2
    <3>2. CASE few = {}
      <4>1. Outcome(few) = "allowed"
        BY <3>1, <3>2
      <4>2. Outcome(many) = "allowed" \/ (many # {} /\ Outcome(many) = MostRestrictive(many))
        BY <2>2
      <4> HIDE DEF Outcome
      <4>3. QED BY <1>3, <1>6, <3>1, <4>1, <4>2
    <3>3. CASE few # {}
      <4>1. Outcome(few) = MostRestrictive(few) /\ Outcome(many) = MostRestrictive(many)
        BY <3>1, <3>3, <2>2
      <4> HIDE DEF Outcome
      <4>2. QED BY <3>1, <3>3, <4>1, MoreDemandsNoWider
    <3>4. QED BY <3>2, <3>3
  <2>3. QED BY <2>1, <2>2
<1> HIDE DEF Outcome
<1>8. QED BY <1>3, <1>4, <1>5, <1>7

\* A case of the run gets worse from its best: its role is one of the code's or none, its leading
\* hypothesis stays ahead, and its night comes on.
Worsened(r) ==
  /\ r.role \in Roles \cup {"none"}
  /\ Unknown <= r.competing /\ r.competing <= r.confidence
  /\ r.severity \in {"critical", "high"} /\ r.since \in {Unknown, 59} /\ r.time \in {720, 1320, 120}

\* Quiet hours that hold at noon hold at ten in the evening, and those hold at two in the morning.
NightFalls(c) ==
  (InQuietHours(c, 720) => InQuietHours(c, 1320)) /\ (InQuietHours(c, 1320) => InQuietHours(c, 120))

\* The facts of a request, by what they are about
SameAsk(r, s) ==
  /\ s.action = r.action /\ s.role = r.role /\ s.executed = r.executed
  /\ s.attempt = r.attempt /\ s.radius = r.radius /\ s.in_window = r.in_window
SameEvidence(r, s)  == s.sources = r.sources /\ s.age = r.age /\ s.flags = r.flags
SameDiagnosis(r, s) == s.confidence = r.confidence /\ s.competing = r.competing
SameContact(r, s) ==
  /\ s.severity = r.severity /\ s.vulnerable = r.vulnerable
  /\ s.time = r.time /\ s.contacts = r.contacts /\ s.since = r.since
SameProof(r, s) == s.validated = r.validated /\ s.reconciled = r.reconciled

\* The same facts are no better a ground.
LEMMA SameIsNoBetter ==
  ASSUME NEW c, NEW r \in RequestTypes, Worsened(r), NEW s \in RequestTypes
  PROVE  /\ SameAsk(r, s) => NoBetterAsk(r, s)
         /\ SameEvidence(r, s) => NoBetterEvidence(r, s)
         /\ SameDiagnosis(r, s) => NoBetterDiagnosis(r, s)
         /\ SameContact(r, s) => NoBetterContact(c, r, s)
         /\ SameProof(r, s) => NoBetterProof(r, s)
<1>1. SameAsk(r, s) => NoBetterAsk(r, s)
  BY DEF SameAsk, NoBetterAsk, RequestTypes
<1>2. SameEvidence(r, s) => NoBetterEvidence(r, s)
  BY DEF SameEvidence, NoBetterEvidence, RequestTypes
<1>3. SameDiagnosis(r, s) => NoBetterDiagnosis(r, s)
  BY DEF SameDiagnosis, NoBetterDiagnosis, RequestTypes, Worsened
<1>4. SameContact(r, s) => NoBetterContact(c, r, s)
  BY DEF SameContact, NoBetterContact, RequestTypes, Rank
<1>5. SameProof(r, s) => NoBetterProof(r, s)
  BY DEF SameProof, NoBetterProof
<1>6. QED BY <1>1, <1>2, <1>3, <1>4, <1>5

\* The one fact a step changes is no better ground, and leaves a case that got worse.
LEMMA WorseIsNoBetterGround ==
  ASSUME NEW c, NightFalls(c), NEW r \in RequestTypes, Worsened(r), NEW s \in Worse(r)
  PROVE  NoBetterGround(c, r, s) /\ Worsened(s)
<1>0. s \in RequestTypes
  BY WorseIsARequest
<1>1. CASE s \in WorseEvidence(r)
  <2>1. NoBetterEvidence(r, s)
    <3>1. CASE \E n \in {Unknown, 0, 1, 2, 3} : n < r.sources /\ s = [r EXCEPT !.sources = n]
      BY <3>1 DEF RequestTypes, Unknown, NoBetterEvidence
    <3>2. CASE \E n \in {16, 31, 61} : n > r.age /\ s = [r EXCEPT !.age = n]
      BY <3>2 DEF RequestTypes, NoBetterEvidence
    <3>3. CASE \E f \in Flags : s = [r EXCEPT !.flags = @ \cup {f}]
      BY <3>3 DEF RequestTypes, NoBetterEvidence
    <3>4. QED BY <1>1, <3>1, <3>2, <3>3 DEF WorseEvidence
  <2>2. SameAsk(r, s) /\ SameDiagnosis(r, s) /\ SameContact(r, s) /\ SameProof(r, s)
    BY <1>1 DEF WorseEvidence, RequestTypes, SameAsk, SameDiagnosis, SameContact, SameProof
  <2>3. NoBetterGround(c, r, s)
    BY <1>0, <2>1, <2>2, SameIsNoBetter DEF NoBetterGround
  <2>4. QED BY <2>2, <2>3 DEF Worsened, SameAsk, SameDiagnosis, SameContact
<1>2. CASE s \in WorseDiagnosis(r)
  <2>1. NoBetterDiagnosis(r, s)
    <3>1. CASE \E n \in {Unknown, 40, 66, 72, 80} :
                 /\ n < r.confidence /\ (r.competing = Unknown \/ n >= r.competing)
                 /\ s = [r EXCEPT !.confidence = n]
      BY <3>1 DEF RequestTypes, Unknown, NoBetterDiagnosis, Worsened
    <3>2. CASE \E n \in {40, 66, 72} : r.competing < n /\ n <= r.confidence /\ s = [r EXCEPT !.competing = n]
      BY <3>2 DEF RequestTypes, Unknown, NoBetterDiagnosis, Worsened
    <3>3. QED BY <1>2, <3>1, <3>2 DEF WorseDiagnosis
  <2>2. SameAsk(r, s) /\ SameEvidence(r, s) /\ SameContact(r, s) /\ SameProof(r, s)
    BY <1>2 DEF WorseDiagnosis, RequestTypes, SameAsk, SameEvidence, SameContact, SameProof
  <2>3. NoBetterGround(c, r, s)
    BY <1>0, <2>1, <2>2, SameIsNoBetter DEF NoBetterGround
  <2>4. Unknown <= s.competing /\ s.competing <= s.confidence
    BY <1>0, <2>1 DEF NoBetterDiagnosis, RequestTypes, Unknown
  <2>5. QED BY <2>2, <2>3, <2>4 DEF Worsened, SameAsk, SameContact
<1>3. CASE s \in WorseReach(r)
  <2>1. NoBetterAsk(r, s) /\ s.role \in Roles \cup {"none"}
    <3>1. CASE \E n \in {9, 26, 65, 2001} : n > r.radius /\ s = [r EXCEPT !.radius = n]
      BY <3>1 DEF RequestTypes, NoBetterAsk, Worsened
    <3>2. CASE \E n \in 2..3 : n > r.attempt /\ s = [r EXCEPT !.attempt = n]
      BY <3>2 DEF RequestTypes, NoBetterAsk, Worsened
    <3>3. CASE s \in {[r EXCEPT !.in_window = FALSE], [r EXCEPT !.executed = TRUE]}
      BY <3>3 DEF RequestTypes, NoBetterAsk, Worsened
    <3>4. CASE r.role # "none" /\ \E x \in {"auditor", "none"} : s = [r EXCEPT !.role = x]
      <4>1. PICK x \in {"auditor", "none"} : s = [r EXCEPT !.role = x]
        BY <3>4
      <4>2. Permits(x, r.action) => Permits(r.role, r.action)
        BY <3>4 DEF Worsened, Roles, Permits, Allowlist, ReadOnly, ActionType
      <4>3. /\ s.role = x /\ s.action = r.action /\ s.executed = r.executed
            /\ s.attempt = r.attempt /\ s.radius = r.radius /\ s.in_window = r.in_window
        BY <4>1 DEF RequestTypes
      <4>4. QED BY <1>0, <4>2, <4>3 DEF RequestTypes, NoBetterAsk, Roles
    <3>5. QED BY <1>3, <3>1, <3>2, <3>3, <3>4 DEF WorseReach
  <2>2. SameEvidence(r, s) /\ SameDiagnosis(r, s) /\ SameContact(r, s) /\ SameProof(r, s)
    BY <1>3 DEF WorseReach, RequestTypes, SameEvidence, SameDiagnosis, SameContact, SameProof
  <2>3. NoBetterGround(c, r, s)
    BY <1>0, <2>1, <2>2, SameIsNoBetter DEF NoBetterGround
  <2>4. QED BY <2>1, <2>2, <2>3 DEF Worsened, SameDiagnosis, SameContact
<1>4. CASE s \in WorseContact(r)
  <2> DEFINE Kept == /\ NoBetterContact(c, r, s)
                     /\ s.severity \in {"critical", "high"} /\ s.since \in {Unknown, 59} /\ s.time \in {720, 1320, 120}
  <2>1. Kept
    <3>1. CASE r.time \in {720, 1320} /\ s = [r EXCEPT !.time = IF r.time = 720 THEN 1320 ELSE 120]
      <4>1. /\ s.time \in {1320, 120} /\ s.severity = r.severity /\ s.vulnerable = r.vulnerable
            /\ s.contacts = r.contacts /\ s.since = r.since
        BY <3>1 DEF RequestTypes
      <4>2. InQuietHours(c, r.time) => InQuietHours(c, s.time)
        <5>1. s.time = IF r.time = 720 THEN 1320 ELSE 120
          BY <3>1 DEF RequestTypes
        <5>2. QED BY <3>1, <5>1 DEF NightFalls
      <4>3. QED BY <4>1, <4>2 DEF RequestTypes, NoBetterContact, Worsened, Unknown, Rank
    <3>2. CASE s = [r EXCEPT !.severity = "high"]
      BY <3>2 DEF RequestTypes, NoBetterContact, Worsened, Rank
    <3>3. CASE s = [r EXCEPT !.vulnerable = TRUE]
      BY <3>3 DEF RequestTypes, NoBetterContact, Worsened, Rank
    <3>4. CASE s = [r EXCEPT !.since = 59]
      BY <3>4 DEF RequestTypes, NoBetterContact, Worsened, Unknown, Rank
    <3>5. CASE \E n \in {2, 3} : n > r.contacts /\ s = [r EXCEPT !.contacts = n]
      BY <3>5 DEF RequestTypes, NoBetterContact, Worsened, Rank
    <3>6. QED BY <1>4, <3>1, <3>2, <3>3, <3>4, <3>5 DEF WorseContact
  <2>2. SameAsk(r, s) /\ SameEvidence(r, s) /\ SameDiagnosis(r, s) /\ SameProof(r, s)
    BY <1>4 DEF WorseContact, RequestTypes, SameAsk, SameEvidence, SameDiagnosis, SameProof
  <2>3. NoBetterGround(c, r, s)
    BY <1>0, <2>1, <2>2, SameIsNoBetter DEF NoBetterGround
  <2>4. QED BY <2>1, <2>2, <2>3 DEF Worsened, SameAsk, SameDiagnosis
<1>5. CASE s \in WorseProof(r)
  <2>1. NoBetterProof(r, s)
    BY <1>5 DEF WorseProof, RequestTypes, NoBetterProof
  <2>2. SameAsk(r, s) /\ SameEvidence(r, s) /\ SameDiagnosis(r, s) /\ SameContact(r, s)
    BY <1>5 DEF WorseProof, RequestTypes, SameAsk, SameEvidence, SameDiagnosis, SameContact
  <2>3. NoBetterGround(c, r, s)
    BY <1>0, <2>1, <2>2, SameIsNoBetter DEF NoBetterGround
  <2>4. QED BY <2>2, <2>3 DEF Worsened, SameAsk, SameDiagnosis, SameContact
<1>6. QED BY <1>1, <1>2, <1>3, <1>4, <1>5 DEF Worse

\* There is a night.
LEMMA SomeNight == \E c : NightFalls(c)
<1>1. NightFalls([from |-> 0, to |-> 1440])
  BY DEF NightFalls, InQuietHours
<1>2. QED BY <1>1

\* How strict the decision of a service is, is a number.
LEMMA StrictnessIsANumber ==
  ASSUME Inv
  PROVE  Strictness(Decision) \in Int
<1>1. Strictness("allowed") = 0 /\ Strictness(Block) = 10
  BY DEF Strictness, ApprovalKind, Block
<1>2. CASE Decision \in {"allowed", Block}
  BY <1>1, <1>2
<1>3. CASE Decision \notin {"allowed", Block}
  <2>1. pack # Unavailable /\ Block \notin Findings(pack, request) /\ Findings(pack, request) # {}
        /\ Decision = MostRestrictive(Findings(pack, request))
    BY <1>3 DEF Decision, Evaluate
  <2>2. Findings(pack, request) \in SUBSET ApprovalKind
    BY <2>1, FindingsAreKnown DEF Inv
  <2>3. QED BY <2>1, <2>2, MoreDemandsNoWider
<1>4. QED BY <1>2, <1>3

\* In a run of the service, whatever is already wrong and whoever asks, no step that worsens the case
\* frees the decision, for every pack whose quiet hours are those of a night.
THEOREM WorseNeverFreer ==
  ASSUME \A p \in Files \cup {Shipped} : Loads(p) => NightFalls(p.contact)
  PROVE  Spec => WorseIsNeverFreer
<1> DEFINE Nights == pack = Unavailable \/ NightFalls(pack.contact)
           Grew == UNCHANGED pack => Strictness(Decision) <= Strictness(Evaluate(pack', request'))
<1>1. Init => Worsened(request) /\ Nights
  <2> SUFFICES ASSUME Init PROVE Worsened(request) /\ Nights
    OBVIOUS
  <2>1. PICK role \in Principals, a \in ActionType : request = Best(role, a)
    BY DEF Init
  <2>2. Worsened(request)
    BY <2>1, PolicyAssumption DEF PolicyAssumption, Best, Worsened, Unknown
  <2>3. Nights
    BY DEF Init, LoadOrUnavailable
  <2>4. QED BY <2>2, <2>3
<1>2. Inv /\ Worsened(request) /\ Nights /\ [Next]_vars => (Worsened(request) /\ Nights)' /\ [Grew]_vars
  <2> SUFFICES ASSUME Inv, Worsened(request), Nights, [Next]_vars
               PROVE  (Worsened(request) /\ Nights)' /\ [Grew]_vars
    OBVIOUS
  <2>1. CASE Worsen
    <3>1. request' \in Worse(request) /\ pack' = pack /\ request \in RequestTypes
      BY <2>1 DEF Worsen, Inv
    <3>2. request' \in RequestTypes
      BY <3>1, WorseIsARequest
    <3>3. CASE pack = Unavailable
      <4>1. PICK c : NightFalls(c)
        BY SomeNight
      <4>2. Worsened(request')
        BY <3>1, <4>1, WorseIsNoBetterGround
      <4>3. Evaluate(pack, request) = Block /\ Evaluate(pack', request') = Block
        BY <3>1, <3>3 DEF Evaluate
      <4>4. Strictness(Block) = 10
        BY DEF Strictness, ApprovalKind, Block
      <4>5. QED BY <3>1, <3>3, <4>2, <4>3, <4>4 DEF Decision, Worsened
    <3>4. CASE pack # Unavailable
      <4>1. Loads(pack) /\ NightFalls(pack.contact)
        BY <3>4 DEF Inv
      <4>2. NoBetterGround(pack.contact, request, request') /\ Worsened(request')
        BY <3>1, <4>1, WorseIsNoBetterGround
      <4>3. Strictness(Evaluate(pack, request)) <= Strictness(Evaluate(pack, request'))
        BY <3>1, <3>2, <4>1, <4>2, WeakerGroundIsNeverFreer
      <4>4. QED BY <3>1, <4>1, <4>2, <4>3 DEF Decision, Worsened
    <3>5. QED BY <3>3, <3>4
  <2>2. CASE Reload
    <3>1. PICK file \in Files : pack' = LoadOrUnavailable(file)
      BY <2>2 DEF Reload
    <3>2. request' = request
      BY <2>2 DEF Reload
    <3>3. Nights'
      BY <3>1 DEF LoadOrUnavailable
    <3>4. Inv'
      BY <2>2 DEF Inv, Reload, LoadOrUnavailable
    <3>5. Grew
      <4> SUFFICES ASSUME pack' = pack PROVE Strictness(Decision) <= Strictness(Decision)
        BY <3>2 DEF Decision
      <4>1. QED BY StrictnessIsANumber
    <3>6. QED BY <3>2, <3>3, <3>5 DEF Worsened
  <2>3. CASE UNCHANGED vars
    BY <2>3 DEF vars, Worsened
  <2>4. QED BY <2>1, <2>2, <2>3 DEF Next
<1>3. Spec => [][Grew]_vars
  <2> HIDE DEF Grew, Nights
  <2>1. QED BY <1>1, <1>2, Invariance, PTL DEF Spec
<1>4. QED BY <1>3 DEF WorseIsNeverFreer

=============================================================================
